---------------------------- MODULE SuiteProofs ----------------------------
(***************************************************************************)
(* The small programs for every value of their constants: any number of    *)
(* processes, threads and nonces, any durations and lengths.  A part of    *)
(* the suite has an inductive invariant of its own, which the steps of the *)
(* other parts leave alone.                                                *)
(***************************************************************************)
EXTENDS MCSuite, FiniteSetTheorems, SequenceTheorems, WellFoundedInduction, TLAPS

\* A step of the suite is a step of a part, or leaves it as it is.
LEMMA Parts ==
    ASSUME [Next]_vars
    PROVE  /\ [Socket!Next]_socketVars /\ [Listener!Next]_listenerVars
           /\ [TimedWait!Next]_timedVars
           /\ [Read!Next]_readVars /\ [Inherit!Next]_inheritVars
           /\ [Fds!Next]_fdVars /\ [Owners!Next]_ownerVars /\ [Rss!Next]_rssVars
           /\ [Seal!Next]_sealVars /\ [Yubikey!Next]_yubikeyVars
           /\ [Renumber!Next]_renumberVars /\ [Factory!Next]_factoryVars
BY DEF Next, vars

\* Each instance counts alike.
LEMMA SameCardinality ==
    \A S : /\ Seal!Cardinality(S) = Cardinality(S) /\ Renumber!Cardinality(S) = Cardinality(S)
          /\ Fds!Cardinality(S) = Cardinality(S) /\ Path!Cardinality(S) = Cardinality(S)
BY DEF Seal!Cardinality, Renumber!Cardinality, Fds!Cardinality, Path!Cardinality, Cardinality

-----------------------------------------------------------------------------
\* Numbers, induction and recursion over the places of a sequence.

\* A set of naturals has a lowest element, and Lowest is it.
LEMMA LowestIs ==
    ASSUME NEW S \in SUBSET Nat, S # {}
    PROVE  Fds!Lowest(S) \in S /\ \A o \in S : Fds!Lowest(S) <= o
<1> DEFINE R == {e \in Nat \X Nat : e[1] < e[2]}
<1>1. IsWellFoundedOn(R, Nat)
  <2>1. R = OpToRel(<, Nat)
    BY DEF OpToRel
  <2> QED BY <2>1, NatLessThanWellFounded
<1>2. PICK x \in S : \A y \in S : ~(<<y, x>> \in R)
  <2> HIDE DEF R
  <2> QED BY <1>1, WFMin
<1>3. ASSUME NEW y \in S PROVE x <= y
  <2>1. y \in Nat /\ x \in Nat /\ ~(<<y, x>> \in R)
    BY <1>2
  <2>2. ~(y < x)
    BY <2>1
  <2> QED BY <2>1, <2>2
<1> HIDE DEF R
<1> QED BY <1>3 DEF Fds!Lowest

\* Induction over the naturals, for a set in the place of a predicate.
LEMMA SetInduction ==
    ASSUME NEW A, 0 \in A, \A k \in Nat : k \in A => k + 1 \in A
    PROVE  Nat \subseteq A
<1> DEFINE bad == Nat \ A
<1> SUFFICES ASSUME bad # {} PROVE FALSE
  OBVIOUS
<1>1. Fds!Lowest(bad) \in bad /\ \A o \in bad : Fds!Lowest(bad) <= o
  <2>1. bad \in SUBSET Nat
    OBVIOUS
  <2> HIDE DEF bad
  <2> QED BY <2>1, LowestIs
<1> DEFINE k == Fds!Lowest(bad)
<1>2. k \in Nat /\ k \notin A /\ \A o \in Nat \ A : k <= o
  BY <1>1
<1> HIDE DEF k, bad
<1>3. k # 0 /\ k - 1 \in Nat
  BY <1>2
<1>4. k - 1 \in A
  BY <1>2, <1>3
<1>5. k - 1 + 1 \in A
  BY <1>3, <1>4
<1> QED BY <1>2, <1>5

\* A remainder is a number, and that of a smaller one is itself.
LEMMA SmallMod ==
    ASSUME NEW a \in Nat, NEW m \in Nat \ {0} PROVE a % m \in Nat /\ (a < m => a % m = a)
OBVIOUS

\* To divide, and to add the divisor to what is divided.
LEMMA Division ==
    ASSUME NEW a \in Nat, NEW m \in Nat \ {0}
    PROVE  /\ a = m * (a \div m) + (a % m) /\ a % m < m
           /\ a \div m \in Nat /\ a % m \in Nat /\ (a * m) \div m = a
OBVIOUS

LEMMA Remainder ==
    ASSUME NEW m \in Nat \ {0}, NEW q \in Nat, NEW r \in Nat, r < m
    PROVE  (m * q + r) % m = r
OBVIOUS

LEMMA RemainderOnceMore ==
    ASSUME NEW a \in Nat, NEW m \in Nat \ {0} PROVE (a + m) % m = a % m
<1> DEFINE q == a \div m r == a % m
<1>1. q \in Nat /\ r \in Nat /\ r < m /\ a = m * q + r
  BY Division
<1> HIDE DEF q, r
<1>2. a + m = m * (q + 1) + r
  BY <1>1
<1>3. (m * (q + 1) + r) % m = r
  BY <1>1, Remainder
<1> QED BY <1>2, <1>3 DEF r

\* The same, up to a number.
LEMMA Upwards ==
    ASSUME NEW N \in Nat, NEW G, 0 \in G, \A k \in Nat : k < N /\ k \in G => k + 1 \in G
    PROVE  0 .. N \subseteq G
<1> DEFINE A == {k \in Nat : k <= N => k \in G}
<1>1. 0 \in A
  OBVIOUS
<1>2. ASSUME NEW k \in Nat, k \in A PROVE k + 1 \in A
  BY <1>2
<1>3. Nat \subseteq A
  <2> HIDE DEF A
  <2> QED BY <1>1, <1>2, SetInduction
<1>4. ASSUME NEW k \in 0 .. N PROVE k \in G
  BY <1>3
<1> QED BY <1>4

Walks(f, S, base, N, next) ==
    /\ f \in [0 .. N -> S]
    /\ f[0] = base
    /\ \A k \in 1 .. N : f[k] = next[<<f[k - 1], k>>]

\* A recursion over the places of a sequence has a solution, if its step stays in a set.
LEMMA WalkExists ==
    ASSUME NEW S, NEW base \in S, NEW N \in Nat, NEW next \in [S \X (1 .. N) -> S]
    PROVE  \E f : Walks(f, S, base, N, next)
<1> DEFINE Good(f, m) == f[0] = base /\ \A k \in 1 .. m : f[k] = next[<<f[k - 1], k>>]
           G == {m \in 0 .. N : \E f \in [0 .. m -> S] : Good(f, m)}
<1>1. 0 \in G
  <2> DEFINE f == [k \in 0 .. 0 |-> base]
  <2>1. f \in [0 .. 0 -> S] /\ Good(f, 0)
    OBVIOUS
  <2>2. 0 \in 0 .. N
    OBVIOUS
  <2> HIDE DEF f, Good
  <2> QED BY <2>1, <2>2
<1>2. ASSUME NEW m \in Nat, m < N, m \in G PROVE m + 1 \in G
  <2>1. PICK f \in [0 .. m -> S] : Good(f, m)
    BY <1>2
  <2> DEFINE g == [k \in 0 .. m + 1 |-> IF k = m + 1 THEN next[<<f[m], m + 1>>] ELSE f[k]]
  <2>2. f[m] \in S /\ m + 1 \in 1 .. N /\ m \in 0 .. m
    BY <1>2
  <2>3. next[<<f[m], m + 1>>] \in S
    BY <2>2
  <2>4. g \in [0 .. m + 1 -> S]
    BY <2>3
  <2>5. ASSUME NEW k \in 1 .. m + 1 PROVE g[k] = next[<<g[k - 1], k>>]
    <3>1. CASE k = m + 1
      <4>1. k - 1 = m /\ m \in 0 .. m + 1 /\ m # m + 1 /\ k \in 0 .. m + 1
        BY <3>1
      <4>2. g[m] = f[m] /\ g[k] = next[<<f[m], k>>]
        BY <3>1, <4>1
      <4> QED BY <4>1, <4>2
    <3>2. CASE k # m + 1
      <4>1. k \in 1 .. m /\ k - 1 \in 0 .. m + 1 /\ k - 1 # m + 1 /\ k \in 0 .. m + 1
        BY <3>2
      <4>2. g[k] = f[k] /\ g[k - 1] = f[k - 1]
        BY <3>2, <4>1
      <4> QED BY <2>1, <4>1, <4>2
    <3> QED BY <3>1, <3>2
  <2>6. g[0] = base
    <3>1. 0 \in 0 .. m + 1 /\ 0 # m + 1
      OBVIOUS
    <3> QED BY <2>1, <3>1
  <2> HIDE DEF g
  <2>7. m + 1 \in 0 .. N
    BY <1>2
  <2> QED BY <2>4, <2>5, <2>6, <2>7
<1>3. N \in G
  <2>1. N \in 0 .. N
    OBVIOUS
  <2> HIDE DEF G
  <2> QED BY <1>1, <1>2, <2>1, Upwards
<1> QED BY <1>3 DEF Walks

\* What is given to a program that computes is not changed.
InputInv == program \in Running \/ (program \in Pure /\ input \in Given(program))

LEMMA InputsKept ==
    /\ Init => InputInv
    /\ InputInv /\ [Next]_vars => InputInv'
<1>1. ASSUME Init PROVE InputInv
  BY <1>1, InputsAssumption DEF Init, InputInv
<1>2. ASSUME InputInv, [Next]_vars PROVE InputInv'
  <2>1. program' = program /\ input' = input
    BY <1>2 DEF Next, vars
  <2> QED BY <1>2, <2>1 DEF InputInv
<1> QED BY <1>1, <1>2
-----------------------------------------------------------------------------
\* Seal of HPKE.

SealTypes ==
    /\ patch \in {"none", "008", "009"}
    /\ sealing \in [Processes -> {"idle", "locked", "taken", "sealing", "limited"}]
    /\ seqNumMu \in Processes \cup {Seal!Free}
    /\ seqNum \in Nat /\ nonce \in [Processes -> Nat]
    /\ sealed \in [0 .. Numbers - 1 -> Nat]
    /\ handed \in 0 .. Numbers

\* Which of a goroutine's places belong to which patch; the mutex of 008 is held
\* from its lock to its unlock.
PlaceInv ==
    /\ patch = "none" => handed = 0 /\ seqNum = 0
    /\ \A g \in Processes :
        /\ sealing[g] \in {"locked", "taken", "sealing"} => patch = "008"
        /\ sealing[g] = "limited" => patch = "009"
        /\ sealing[g] \in {"locked", "taken"} <=> seqNumMu = g

\* seqNum is the number of nonces handed out, or one less until it is raised; it
\* has wrapped only when there are no more of them.
NumberInv ==
    /\ seqNumMu = Seal!Free /\ handed < Numbers /\ (\A g \in Processes : sealing[g] # "limited")
        => seqNum = handed
    /\ \A g \in Processes :
        /\ sealing[g] = "locked" => handed < Numbers /\ seqNum = handed
        /\ sealing[g] = "taken" => seqNum = handed - 1 /\ nonce[g] = handed - 1
        /\ sealing[g] = "limited" => seqNum = handed - 1
    /\ patch = "009" =>
        /\ handed < Numbers
        /\ \A g, h \in Processes : sealing[g] = "limited" /\ h # g => sealing[h] = "idle"

\* A nonce that was handed out is sealed with, or one goroutine has it.
NonceInv ==
    /\ \A k \in 0 .. Numbers - 1 :
        \/ k < handed /\ sealed[k] = 1 /\ Seal!Holding(k) = {}
        \/ k < handed /\ sealed[k] = 0 /\ \E g \in Processes : Seal!Holding(k) = {g}
        \/ k >= handed /\ sealed[k] = 0 /\ Seal!Holding(k) = {}
    /\ \A g \in Processes : sealing[g] \in {"taken", "sealing"} => nonce[g] < handed

SealInv == SealTypes /\ PlaceInv /\ NumberInv /\ NonceInv

LEMMA SealInit == Seal!Init => SealInv
<1> SUFFICES ASSUME Seal!Init PROVE SealInv
  OBVIOUS
<1> USE SuiteAssumption DEF Seal!Init
<1>1. SealTypes /\ PlaceInv /\ NumberInv
  BY DEF SealTypes, PlaceInv, NumberInv
<1>2. NonceInv
  BY DEF NonceInv, Seal!Holding
<1> QED BY <1>1, <1>2 DEF SealInv

\* Steps that neither take a nonce nor use one.
LEMMA NonceUntouched ==
    ASSUME NonceInv, SealTypes, UNCHANGED <<nonce, sealed, handed>>,
           \A g \in Processes : sealing'[g] \in {"taken", "sealing"}
                                    <=> sealing[g] \in {"taken", "sealing"}
    PROVE  NonceInv'
<1>1. \A k : Seal!Holding(k)' = Seal!Holding(k)
  BY DEF Seal!Holding
<1> QED BY <1>1 DEF NonceInv

LEMMA SealStep == SealInv /\ [Seal!Next]_sealVars => SealInv'
<1> SUFFICES ASSUME SealInv, [Seal!Next]_sealVars PROVE SealInv'
  OBVIOUS
<1> USE SuiteAssumption DEF SealInv
<1>1. CASE Seal!NewSender
  <2>1. NonceInv'
    BY <1>1, NonceUntouched DEF Seal!NewSender
  <2> QED BY <1>1, <2>1 DEF Seal!NewSender, SealTypes, PlaceInv, NumberInv
<1>2. ASSUME NEW g \in Processes, Seal!Lock(g) PROVE SealInv'
  <2>1. SealTypes' /\ PlaceInv' /\ NumberInv'
    BY <1>2 DEF Seal!Lock, Seal!Goto, SealTypes, PlaceInv, NumberInv
  <2>2. NonceInv'
    BY <1>2, NonceUntouched DEF Seal!Lock, Seal!Goto, SealTypes
  <2> QED BY <2>1, <2>2
<1>3. ASSUME NEW g \in Processes, Seal!NextNonce(g) PROVE SealInv'
  <2>1. SealTypes' /\ PlaceInv' /\ NumberInv'
    BY <1>3 DEF Seal!NextNonce, Seal!Goto, SealTypes, PlaceInv, NumberInv
  <2>2. seqNum = handed /\ handed' = handed + 1 /\ UNCHANGED sealed
    BY <1>3 DEF Seal!NextNonce, Seal!Goto, NumberInv
  <2>3. \A k : Seal!Holding(k)' = IF k = handed THEN Seal!Holding(k) \cup {g} ELSE Seal!Holding(k)
    BY <1>3, <2>2 DEF Seal!NextNonce, Seal!Goto, Seal!Holding, SealTypes
  <2>4. ASSUME NEW k \in 0 .. Numbers - 1
        PROVE  \/ k < handed' /\ sealed'[k] = 1 /\ Seal!Holding(k)' = {}
               \/ k < handed' /\ sealed'[k] = 0 /\ \E h \in Processes : Seal!Holding(k)' = {h}
               \/ k >= handed' /\ sealed'[k] = 0 /\ Seal!Holding(k)' = {}
    <3>1. CASE k = handed
      BY <2>2, <2>3, <3>1 DEF NonceInv, SealTypes
    <3>2. CASE k # handed
      BY <2>2, <2>3, <3>2 DEF NonceInv, SealTypes
    <3> QED BY <3>1, <3>2
  <2>5. \A h \in Processes : sealing'[h] \in {"taken", "sealing"} => nonce'[h] < handed'
    BY <1>3, <2>2 DEF Seal!NextNonce, Seal!Goto, SealTypes, NonceInv
  <2>6. NonceInv'
    BY <2>4, <2>5 DEF NonceInv
  <2> QED BY <2>1, <2>6
<1>4. ASSUME NEW g \in Processes, Seal!Raise(g) PROVE SealInv'
  <2>1. seqNum = handed - 1 /\ seqNum' \in Nat /\ (handed < Numbers => seqNum' = handed)
    <3>1. seqNum = handed - 1 /\ seqNum + 1 = handed /\ handed \in Nat
      BY <1>4 DEF Seal!Raise, Seal!Goto, SealTypes, NumberInv
    <3>2. seqNum' = handed % Numbers
      BY <1>4, <3>1 DEF Seal!Raise
    <3> QED BY <3>1, <3>2, SmallMod
  <2>2. SealTypes' /\ PlaceInv'
    BY <1>4, <2>1 DEF Seal!Raise, Seal!Goto, SealTypes, PlaceInv
  <2>3. \A h \in Processes : sealing'[h] \notin {"locked", "taken", "limited"}
    BY <1>4 DEF Seal!Raise, Seal!Goto, SealTypes, PlaceInv
  <2>4. patch' = "008" /\ UNCHANGED handed
    BY <1>4 DEF Seal!Raise, Seal!Goto, PlaceInv
  <2>5. NumberInv'
    BY <2>1, <2>3, <2>4 DEF NumberInv
  <2>6. NonceInv'
    BY <1>4, NonceUntouched DEF Seal!Raise, Seal!Goto, SealTypes
  <2> QED BY <2>2, <2>5, <2>6
<1>5. ASSUME NEW g \in Processes, Seal!AeadSeal(g) PROVE SealInv'
  <2>1. SealTypes' /\ PlaceInv' /\ NumberInv'
    <3>1. nonce[g] \in 0 .. Numbers - 1
      BY <1>5 DEF Seal!AeadSeal, Seal!Goto, SealTypes, NonceInv
    <3>2. SealTypes'
      BY <1>5, <3>1 DEF Seal!AeadSeal, Seal!Goto, SealTypes
    <3>3. PlaceInv'
      BY <1>5 DEF Seal!AeadSeal, Seal!Goto, SealTypes, PlaceInv
    <3>4. NumberInv'
      BY <1>5 DEF Seal!AeadSeal, Seal!Goto, SealTypes, PlaceInv, NumberInv
    <3> QED BY <3>2, <3>3, <3>4
  <2>2. nonce[g] \in 0 .. Numbers - 1 /\ g \in Seal!Holding(nonce[g])
    BY <1>5 DEF Seal!AeadSeal, Seal!Goto, SealTypes, NonceInv, Seal!Holding
  <2>3. \A k : Seal!Holding(k)' = Seal!Holding(k) \ {g}
    BY <1>5 DEF Seal!AeadSeal, Seal!Goto, Seal!Holding, SealTypes
  <2>4. \A k : k # nonce[g] => g \notin Seal!Holding(k)
    BY DEF Seal!Holding
  <2>5. sealed[nonce[g]] = 0 /\ Seal!Holding(nonce[g]) = {g} /\ nonce[g] < handed
    BY <2>2 DEF NonceInv
  <2>6. ASSUME NEW k \in 0 .. Numbers - 1
        PROVE  \/ k < handed' /\ sealed'[k] = 1 /\ Seal!Holding(k)' = {}
               \/ k < handed' /\ sealed'[k] = 0 /\ \E h \in Processes : Seal!Holding(k)' = {h}
               \/ k >= handed' /\ sealed'[k] = 0 /\ Seal!Holding(k)' = {}
    <3>1. handed' = handed /\ sealed' = [sealed EXCEPT ![nonce[g]] = @ + 1]
      BY <1>5 DEF Seal!AeadSeal
    <3>2. CASE k = nonce[g]
      BY <2>3, <2>5, <3>1, <3>2 DEF SealTypes
    <3>3. CASE k # nonce[g]
      <4>1. Seal!Holding(k)' = Seal!Holding(k)
        BY <2>3, <2>4, <3>3
      <4>2. sealed'[k] = sealed[k]
        BY <3>1, <3>3 DEF SealTypes
      <4> QED BY <3>1, <4>1, <4>2 DEF NonceInv
    <3> QED BY <3>2, <3>3
  <2>7. \A h \in Processes : sealing'[h] \in {"taken", "sealing"} => nonce'[h] < handed'
    BY <1>5 DEF Seal!AeadSeal, Seal!Goto, SealTypes, NonceInv
  <2>8. NonceInv'
    BY <2>6, <2>7 DEF NonceInv
  <2> QED BY <2>1, <2>8
<1>6. ASSUME NEW g \in Processes, Seal!SealLimited(g) PROVE SealInv'
  <2>1. \A h \in Processes : sealing[h] = "idle"
    BY <1>6 DEF Seal!SealLimited, Seal!Goto
  <2>2. seqNum = handed /\ handed < Numbers /\ seqNumMu = Seal!Free
    BY <1>6, <2>1 DEF Seal!SealLimited, PlaceInv, NumberInv, SealTypes
  <2>3. SealTypes' /\ PlaceInv' /\ NumberInv'
    BY <1>6, <2>1, <2>2 DEF Seal!SealLimited, Seal!Goto, SealTypes, PlaceInv, NumberInv
  <2>4. \A k : Seal!Holding(k) = {} /\ Seal!Holding(k)' = {}
    BY <1>6, <2>1 DEF Seal!SealLimited, Seal!Goto, SealTypes, Seal!Holding
  <2>5. NonceInv'
    <3>1. handed' = handed + 1 /\ sealed' = [sealed EXCEPT ![handed] = @ + 1]
      BY <1>6, <2>2 DEF Seal!SealLimited
    <3>2. \A k \in 0 .. Numbers - 1 : sealed[k] = IF k < handed THEN 1 ELSE 0
      <4> SUFFICES ASSUME NEW k \in 0 .. Numbers - 1
                   PROVE  sealed[k] = IF k < handed THEN 1 ELSE 0
        OBVIOUS
      <4>1. Seal!Holding(k) = {}
        BY <2>4
      <4>2. ~ \E h \in Processes : Seal!Holding(k) = {h}
        BY <4>1
      <4>3. handed \in Nat
        BY DEF SealTypes
      <4> QED BY <4>2, <4>3 DEF NonceInv
    <3>3. \A k \in 0 .. Numbers - 1 : sealed'[k] = IF k < handed' THEN 1 ELSE 0
      BY <2>2, <3>1, <3>2 DEF SealTypes
    <3>4. \A h \in Processes : sealing'[h] \notin {"taken", "sealing"}
      BY <1>6, <2>1 DEF Seal!SealLimited, Seal!Goto, SealTypes
    <3>5. handed' \in Nat
      BY <3>1 DEF SealTypes
    <3> QED BY <2>4, <3>3, <3>4, <3>5 DEF NonceInv
  <2> QED BY <2>3, <2>5
<1>7. ASSUME NEW g \in Processes, Seal!RaiseLimited(g) PROVE SealInv'
  <2>1. seqNum' = handed
    <3>1. seqNum + 1 = handed /\ handed \in Nat /\ handed < Numbers
      BY <1>7 DEF Seal!RaiseLimited, Seal!Goto, SealTypes, PlaceInv, NumberInv
    <3>2. seqNum' = handed % Numbers
      BY <1>7, <3>1 DEF Seal!RaiseLimited
    <3> QED BY <3>1, <3>2, SmallMod
  <2>2. SealTypes' /\ PlaceInv' /\ NumberInv'
    BY <1>7, <2>1 DEF Seal!RaiseLimited, Seal!Goto, SealTypes, PlaceInv, NumberInv
  <2>3. NonceInv'
    BY <1>7, NonceUntouched DEF Seal!RaiseLimited, Seal!Goto, SealTypes
  <2> QED BY <2>2, <2>3
<1>8. CASE UNCHANGED sealVars
  <2>1. NonceInv'
    BY <1>8, NonceUntouched DEF sealVars
  <2> QED BY <1>8, <2>1 DEF sealVars, SealTypes, PlaceInv, NumberInv
<1> QED BY <1>1, <1>2, <1>3, <1>4, <1>5, <1>6, <1>7, <1>8 DEF Seal!Next

\* No nonce is used twice, by any number of goroutines and for any number of nonces.
THEOREM NoncesNeverReused == Spec => []NoncesDistinct
<1>1. Init => SealInv
  BY SealInit DEF Init
<1>2. SealInv /\ [Next]_vars => SealInv'
  BY SealStep, Parts
<1>3. SealInv => NoncesDistinct
  <2> SUFFICES ASSUME SealInv PROVE NoncesDistinct
    OBVIOUS
  <2>1. Cardinality({}) = 0 /\ \A g \in Processes : Cardinality({g}) = 1
    BY FS_EmptySet, FS_Singleton
  <2>2. ASSUME NEW k \in 0 .. Numbers - 1
        PROVE  sealed[k] + Cardinality(Seal!Holding(k)) = IF k < handed THEN 1 ELSE 0
    <3>1. CASE k < handed /\ sealed[k] = 1 /\ Seal!Holding(k) = {}
      BY <2>1, <3>1
    <3>2. CASE k < handed /\ sealed[k] = 0 /\ \E g \in Processes : Seal!Holding(k) = {g}
      BY <2>1, <3>2
    <3>3. CASE k >= handed /\ sealed[k] = 0 /\ Seal!Holding(k) = {}
      BY <2>1, <3>3 DEF SealInv, SealTypes
    <3> QED BY <3>1, <3>2, <3>3 DEF SealInv, NonceInv
  <2>3. patch = "009" => handed < Numbers
    BY DEF SealInv, NumberInv
  <2>4. Seal!NoncesDistinct
    BY <2>2, <2>3, SameCardinality DEF Seal!NoncesDistinct
  <2> QED BY <2>4 DEF NoncesDistinct
<1> QED BY <1>1, <1>2, <1>3, PTL DEF Spec

-----------------------------------------------------------------------------
\* The counter of login_yubikey.

YubikeyTypes ==
    /\ login \in [Processes -> {"start", "opened", "locked", "compared", "truncated", "flushed",
                                "ok", "failed"}]
    /\ ctr \in [Processes -> Nat] /\ stored \in Nat
    /\ flock \in Processes \cup {Yubikey!Nobody}
    /\ accepted_ctrs \in Seq(Nat) /\ spoiled \in BOOLEAN

\* Who is at the file has its lock.
FlockInv ==
    \A p \in Processes :
        login[p] \in {"locked", "compared", "truncated", "flushed"} => flock = p

\* The counters are accepted in their order, and the file keeps the last; from the
\* truncation on, the process that has the lock does.
OrderInv ==
    ~spoiled =>
        /\ \A j, k \in DOMAIN accepted_ctrs : j < k => accepted_ctrs[j] < accepted_ctrs[k]
        /\ (\A p \in Processes : login[p] # "truncated") =>
            \A k \in DOMAIN accepted_ctrs : accepted_ctrs[k] <= stored
        /\ \A p \in Processes :
            /\ login[p] = "compared" => ctr[p] > stored
            /\ login[p] = "flushed" => ctr[p] = stored
            /\ login[p] \in {"truncated", "flushed"} =>
                \A k \in DOMAIN accepted_ctrs : accepted_ctrs[k] < ctr[p]

YubikeyInv == YubikeyTypes /\ FlockInv /\ OrderInv

LEMMA YubikeyInit == Yubikey!Init => YubikeyInv
<1> SUFFICES ASSUME Yubikey!Init PROVE YubikeyInv
  OBVIOUS
<1>1. YubikeyTypes
  <2>1. <<>> \in Seq(Nat)
    OBVIOUS
  <2> QED BY <2>1 DEF Yubikey!Init, YubikeyTypes
<1>2. FlockInv /\ OrderInv
  BY DEF Yubikey!Init, FlockInv, OrderInv
<1> QED BY <1>1, <1>2 DEF YubikeyInv

LEMMA YubikeyStep == YubikeyInv /\ [Yubikey!Next]_yubikeyVars => YubikeyInv'
<1> SUFFICES ASSUME YubikeyInv, [Yubikey!Next]_yubikeyVars PROVE YubikeyInv'
  OBVIOUS
<1> USE SuiteAssumption DEF YubikeyInv
<1>1. ASSUME NEW p \in Processes,
             \/ Yubikey!Open(p) \/ Yubikey!OpenFails(p) \/ Yubikey!Lock(p) \/ Yubikey!LockFails(p)
             \/ Yubikey!Refuse(p) \/ Yubikey!Compare(p) \/ Yubikey!TruncateFails(p)
      PROVE  YubikeyInv'
  <2> USE <1>1 DEF Yubikey!Open, Yubikey!OpenFails, Yubikey!Lock, Yubikey!LockFails,
                   Yubikey!Refuse, Yubikey!Compare, Yubikey!TruncateFails, Yubikey!Goto,
                   Yubikey!Unlocked
  <2>1. YubikeyTypes'
    BY DEF YubikeyTypes
  <2>2. FlockInv'
    BY DEF YubikeyTypes, FlockInv
  <2>3. OrderInv'
    BY DEF YubikeyTypes, FlockInv, OrderInv
  <2> QED BY <2>1, <2>2, <2>3
<1>2. ASSUME NEW p \in Processes, Yubikey!Truncate(p) PROVE YubikeyInv'
  <2> USE <1>2 DEF Yubikey!Truncate, Yubikey!Goto
  <2>1. YubikeyTypes' /\ FlockInv'
    BY DEF YubikeyTypes, FlockInv
  <2>2. \A q \in Processes \ {p} :
            login[q] \notin {"compared", "truncated", "flushed"} /\ login'[q] = login[q]
    BY DEF YubikeyTypes, FlockInv
  <2>3. ~spoiled => \A k \in DOMAIN accepted_ctrs : accepted_ctrs[k] < ctr[p]
    BY <2>2 DEF YubikeyTypes, OrderInv
  <2>4. login'[p] = "truncated"
    BY DEF YubikeyTypes
  <2> QED BY <2>1, <2>2, <2>3, <2>4 DEF OrderInv
<1>3. ASSUME NEW p \in Processes, Yubikey!PrintFails(p) PROVE YubikeyInv'
  BY <1>3 DEF Yubikey!PrintFails, Yubikey!Goto, Yubikey!Unlocked, YubikeyTypes, FlockInv, OrderInv
<1>4. ASSUME NEW p \in Processes, Yubikey!Flush(p) PROVE YubikeyInv'
  <2> USE <1>4 DEF Yubikey!Flush, Yubikey!Goto
  <2>1. YubikeyTypes' /\ FlockInv'
    <3>1. stored' \in Nat /\ spoiled' \in BOOLEAN
      <4>1. ctr[p] \in Nat /\ spoiled \in BOOLEAN
        BY DEF YubikeyTypes
      <4>2. \/ stored' = ctr[p] /\ spoiled' = spoiled
            \/ stored' = 0 /\ spoiled' = TRUE
        OBVIOUS
      <4>3. CASE stored' = ctr[p] /\ spoiled' = spoiled
        BY <4>1, <4>3
      <4>4. CASE stored' = 0 /\ spoiled' = TRUE
        <5>1. 0 \in Nat
          OBVIOUS
        <5> QED BY <4>4, <5>1
      <4> QED BY <4>2, <4>3, <4>4
    <3>2. YubikeyTypes'
      BY <3>1 DEF YubikeyTypes
    <3>3. FlockInv'
      BY DEF YubikeyTypes, FlockInv
    <3> QED BY <3>2, <3>3
  <2>2. \A q \in Processes \ {p} :
            login[q] \notin {"compared", "truncated", "flushed"} /\ login'[q] = login[q]
    BY DEF YubikeyTypes, FlockInv
  <2>3. login'[p] = "flushed"
    BY DEF YubikeyTypes
  <2>4. ~spoiled' => stored' = ctr[p]
    BY DEF YubikeyTypes
  <2> QED BY <2>1, <2>2, <2>3, <2>4 DEF YubikeyTypes, OrderInv
<1>5. ASSUME NEW p \in Processes, Yubikey!Close(p) PROVE YubikeyInv'
  <2> USE <1>5 DEF Yubikey!Close, Yubikey!Goto, Yubikey!Unlocked
  <2> DEFINE m == Len(accepted_ctrs)
  <2>1. /\ accepted_ctrs' \in Seq(Nat) /\ m \in Nat
        /\ DOMAIN accepted_ctrs = 1 .. m /\ DOMAIN accepted_ctrs' = 1 .. m + 1
        /\ accepted_ctrs'[m + 1] = ctr[p]
        /\ \A k \in 1 .. m : accepted_ctrs'[k] = accepted_ctrs[k]
    BY AppendProperties, LenProperties DEF YubikeyTypes
  <2> HIDE DEF m
  <2>2. YubikeyTypes' /\ FlockInv'
    BY <2>1 DEF YubikeyTypes, FlockInv
  <2>3. \A q \in Processes \ {p} :
            login[q] \notin {"compared", "truncated", "flushed"} /\ login'[q] = login[q]
    BY DEF YubikeyTypes, FlockInv
  <2>4. login[p] = "flushed" /\ login'[p] = "ok" /\ stored' = stored
    BY DEF YubikeyTypes
  <2>5. ~spoiled => stored = ctr[p] /\ \A k \in 1 .. m : accepted_ctrs[k] < ctr[p]
    BY <2>1, <2>4 DEF OrderInv
  <2>6. ~spoiled => \A j, k \in 1 .. m + 1 : j < k => accepted_ctrs'[j] < accepted_ctrs'[k]
    <3> SUFFICES ASSUME ~spoiled, NEW j \in 1 .. m + 1, NEW k \in 1 .. m + 1, j < k
                 PROVE  accepted_ctrs'[j] < accepted_ctrs'[k]
      OBVIOUS
    <3>1. CASE k = m + 1
      BY <2>1, <2>5, <3>1
    <3>2. CASE k # m + 1
      <4>1. j \in 1 .. m /\ k \in 1 .. m
        BY <2>1, <3>2
      <4>2. accepted_ctrs[j] < accepted_ctrs[k]
        BY <2>1, <4>1 DEF OrderInv
      <4> QED BY <2>1, <4>1, <4>2
    <3> QED BY <3>1, <3>2
  <2>7. ~spoiled => \A k \in 1 .. m + 1 : accepted_ctrs'[k] <= stored
    BY <2>1, <2>5 DEF YubikeyTypes
  <2> QED BY <2>1, <2>2, <2>3, <2>4, <2>6, <2>7 DEF OrderInv
<1>6. ASSUME NEW p \in Processes, Yubikey!Kill(p) PROVE YubikeyInv'
  <2> USE <1>6 DEF Yubikey!Kill, Yubikey!Unlocked
  <2>1. YubikeyTypes' /\ FlockInv'
    BY DEF YubikeyTypes, FlockInv
  <2>2. OrderInv'
    BY DEF YubikeyTypes, FlockInv, OrderInv
  <2> QED BY <2>1, <2>2
<1>7. CASE UNCHANGED yubikeyVars
  BY <1>7 DEF yubikeyVars, YubikeyTypes, FlockInv, OrderInv
<1> QED BY <1>1, <1>2, <1>3, <1>4, <1>5, <1>6, <1>7 DEF Yubikey!Next

\* A counter is accepted once, by any number of logins, killed anywhere.
THEOREM CountersRise == Spec => []CounterKept
<1>1. Init => YubikeyInv
  BY YubikeyInit DEF Init
<1>2. YubikeyInv /\ [Next]_vars => YubikeyInv'
  BY YubikeyStep, Parts
<1>3. YubikeyInv => CounterKept
  BY DEF YubikeyInv, OrderInv, CounterKept, Yubikey!CounterKept
<1> QED BY <1>1, <1>2, <1>3, PTL DEF Spec

-----------------------------------------------------------------------------
\* The descriptors of a guest.

\* Every descriptor below some number is in use or free.
DescriptorInv ==
    /\ DOMAIN used \cap free = {}
    /\ \E m \in Nat : DOMAIN used \cup free = 0 .. m - 1

\* A resource is that of one descriptor, or it could not be dropped.
ResourceInv ==
    /\ opened \in Nat /\ undropped \subseteq 1 .. opened
    /\ \A fd \in DOMAIN used : used[fd] \in 1 .. opened /\ used[fd] \notin undropped
    /\ \A fd, other \in DOMAIN used : used[fd] = used[other] => fd = other
    /\ resources = {used[fd] : fd \in DOMAIN used} \cup undropped

\* Only one drop fails: it traps the guest.
TrapInv == undropped = {} \/ (guest # "running" /\ \E r : undropped = {r})

RenumberInv == DescriptorInv /\ ResourceInv /\ TrapInv

LEMMA RenumberInit == Renumber!Init => RenumberInv
<1> SUFFICES ASSUME Renumber!Init PROVE RenumberInv
  OBVIOUS
<1> USE DEF Renumber!Init
<1>1. DOMAIN used = {} /\ free = {} /\ 0 .. 0 - 1 = {}
  OBVIOUS
<1>2. DescriptorInv
  BY <1>1 DEF DescriptorInv
<1>3. ResourceInv /\ TrapInv
  BY <1>1 DEF ResourceInv, TrapInv
<1> QED BY <1>2, <1>3 DEF RenumberInv

\* A resource whose descriptor goes is dropped, or traps the guest.
LEMMA Dropped ==
    ASSUME ResourceInv, TrapInv, guest = "running", NEW r, NEW fd \in DOMAIN used, r = used[fd],
           Renumber!DropResource(r), opened' = opened,
           {used'[other] : other \in DOMAIN used'} = {used[other] : other \in DOMAIN used} \ {r},
           \A other \in DOMAIN used' : used'[other] \in 1 .. opened /\ used'[other] # r
                                       /\ used'[other] \notin undropped,
           \A other, another \in DOMAIN used' : used'[other] = used'[another] => other = another
    PROVE  ResourceInv' /\ TrapInv'
<1>1. undropped = {} /\ r \in 1 .. opened /\ opened \in Nat
  BY DEF ResourceInv, TrapInv
<1>2. resources = {used'[other] : other \in DOMAIN used'} \cup {r}
  BY <1>1 DEF ResourceInv
<1>3. r \notin {used'[other] : other \in DOMAIN used'}
  OBVIOUS
<1>4. CASE resources' = resources \ {r} /\ UNCHANGED <<guest, undropped>>
  <2>1. resources' = {used'[other] : other \in DOMAIN used'} \cup undropped'
    BY <1>1, <1>2, <1>3, <1>4
  <2>2. ResourceInv'
    BY <1>1, <1>4, <2>1 DEF ResourceInv
  <2> QED BY <1>1, <1>4, <2>2 DEF TrapInv
<1>5. CASE guest' = "trapped" /\ undropped' = undropped \cup {r} /\ UNCHANGED resources
  <2>1. undropped' = {r}
    BY <1>1, <1>5
  <2>2. resources' = {used'[other] : other \in DOMAIN used'} \cup undropped'
    BY <1>2, <1>5, <2>1
  <2>3. ResourceInv'
    BY <1>1, <2>1, <2>2 DEF ResourceInv
  <2> QED BY <1>5, <2>1, <2>3 DEF TrapInv
<1> QED BY <1>4, <1>5 DEF Renumber!DropResource

LEMMA RenumberStep == RenumberInv /\ [Renumber!Next]_renumberVars => RenumberInv'
<1> SUFFICES ASSUME RenumberInv, [Renumber!Next]_renumberVars PROVE RenumberInv'
  OBVIOUS
<1> USE DEF RenumberInv
<1>1. CASE Renumber!PathOpen
  <2>1. PICK m \in Nat : DOMAIN used \cup free = 0 .. m - 1
    BY DEF DescriptorInv
  <2>2. Cardinality(DOMAIN used \cup free) = m
    <3>1. Cardinality(0 .. m - 1) = m
      BY FS_Interval
    <3> QED BY <2>1, <3>1
  <2>3. PICK fd \in IF free # {} THEN free ELSE {m} \cap 0 .. MaxFd - 1 :
            /\ used' = [f \in DOMAIN used \cup {fd} |-> IF f = fd THEN opened + 1 ELSE used[f]]
            /\ free' = free \ {fd}
    BY <1>1, <2>2, SameCardinality DEF Renumber!PathOpen
  <2>4. /\ opened' = opened + 1 /\ resources' = resources \cup {opened + 1}
        /\ UNCHANGED <<guest, undropped>>
    BY <1>1 DEF Renumber!PathOpen
  <2>5. fd \notin DOMAIN used /\ DOMAIN used' = DOMAIN used \cup {fd}
    <3>1. m \notin 0 .. m - 1
      OBVIOUS
    <3> QED BY <2>1, <2>3, <3>1 DEF DescriptorInv
  <2>6. DescriptorInv'
    <3>1. CASE free # {}
      <4>1. DOMAIN used' \cup free' = 0 .. m - 1
        BY <2>1, <2>3, <2>5, <3>1
      <4> QED BY <2>3, <2>5, <4>1 DEF DescriptorInv
    <3>2. CASE free = {}
      <4>1. fd = m /\ free' = {}
        BY <2>3, <3>2
      <4>2. DOMAIN used' \cup free' = 0 .. (m + 1) - 1
        BY <2>1, <2>5, <3>2, <4>1
      <4> QED BY <4>1, <4>2 DEF DescriptorInv
    <3> QED BY <3>1, <3>2
  <2>7. ResourceInv'
    <3>1. opened \in Nat /\ opened + 1 \notin 1 .. opened /\ 1 .. opened \subseteq 1 .. opened + 1
      BY DEF ResourceInv
    <3>2. \A f \in DOMAIN used' : used'[f] = IF f = fd THEN opened + 1 ELSE used[f]
      BY <2>3, <2>5
    <3>3. {used'[f] : f \in DOMAIN used'} = {used[f] : f \in DOMAIN used} \cup {opened + 1}
      BY <2>5, <3>2
    <3>4. undropped' \subseteq 1 .. opened' /\ opened' \in Nat
      BY <2>4, <3>1 DEF ResourceInv
    <3>5. \A f \in DOMAIN used' : used'[f] \in 1 .. opened' /\ used'[f] \notin undropped'
      BY <2>4, <2>5, <3>1, <3>2 DEF ResourceInv
    <3>6. \A f, other \in DOMAIN used' : used'[f] = used'[other] => f = other
      BY <2>5, <3>1, <3>2 DEF ResourceInv
    <3>7. resources' = {used'[f] : f \in DOMAIN used'} \cup undropped'
      BY <2>4, <3>3 DEF ResourceInv
    <3> QED BY <3>4, <3>5, <3>6, <3>7 DEF ResourceInv
  <2> QED BY <2>4, <2>6, <2>7 DEF TrapInv
<1>2. ASSUME NEW fd \in DOMAIN used, Renumber!FdClose(fd) PROVE RenumberInv'
  <2>1. /\ DOMAIN used' = DOMAIN used \ {fd}
        /\ \A other \in DOMAIN used' : used'[other] = used[other]
        /\ free' = free \cup {fd}
    BY <1>2 DEF Renumber!FdClose, Renumber!Without
  <2>2. DescriptorInv'
    <3>1. DOMAIN used' \cup free' = DOMAIN used \cup free /\ DOMAIN used' \cap free' = {}
      BY <2>1 DEF DescriptorInv
    <3> QED BY <3>1 DEF DescriptorInv
  <2>3. ResourceInv' /\ TrapInv'
    <3>1. {used'[other] : other \in DOMAIN used'}
              = {used[other] : other \in DOMAIN used} \ {used[fd]}
      BY <2>1 DEF ResourceInv
    <3>2. \A other \in DOMAIN used' : used'[other] \in 1 .. opened /\ used'[other] # used[fd]
                                      /\ used'[other] \notin undropped
      BY <2>1 DEF ResourceInv
    <3>3. \A other, another \in DOMAIN used' : used'[other] = used'[another] => other = another
      BY <2>1 DEF ResourceInv
    <3>4. guest = "running" /\ Renumber!DropResource(used[fd]) /\ opened' = opened
      BY <1>2 DEF Renumber!FdClose
    <3> QED BY <3>1, <3>2, <3>3, <3>4, Dropped
  <2> QED BY <2>2, <2>3
<1>3. ASSUME NEW from \in DOMAIN used, NEW to \in DOMAIN used, Renumber!FdRenumber(from, to)
      PROVE  RenumberInv'
  <2>1. /\ from # to /\ DOMAIN used' = DOMAIN used \ {from}
        /\ \A fd \in DOMAIN used' : used'[fd] = IF fd = to THEN used[from] ELSE used[fd]
        /\ free' = (free \cup {from}) \ {to}
    BY <1>3 DEF Renumber!FdRenumber
  <2>2. DescriptorInv'
    <3>1. DOMAIN used' \cup free' = DOMAIN used \cup free /\ DOMAIN used' \cap free' = {}
      BY <2>1 DEF DescriptorInv
    <3> QED BY <3>1 DEF DescriptorInv
  <2>3. ResourceInv' /\ TrapInv'
    <3>1. {used'[fd] : fd \in DOMAIN used'} = {used[fd] : fd \in DOMAIN used} \ {used[to]}
      BY <2>1 DEF ResourceInv
    <3>2. \A fd \in DOMAIN used' : used'[fd] \in 1 .. opened /\ used'[fd] # used[to]
                                   /\ used'[fd] \notin undropped
      BY <2>1 DEF ResourceInv
    <3>3. \A fd, other \in DOMAIN used' : used'[fd] = used'[other] => fd = other
      BY <2>1 DEF ResourceInv
    <3>4. guest = "running" /\ Renumber!DropResource(used[to]) /\ opened' = opened
      BY <1>3 DEF Renumber!FdRenumber
    <3> QED BY <3>1, <3>2, <3>3, <3>4, Dropped
  <2> QED BY <2>2, <2>3
<1>4. CASE UNCHANGED renumberVars
  BY <1>4 DEF renumberVars, DescriptorInv, ResourceInv, TrapInv
<1> QED BY <1>1, <1>2, <1>3, <1>4 DEF Renumber!Next

\* Resources have one owner each, after any number of calls on any number of them.
THEOREM ResourcesHaveOwners == Spec => []ResourcesOwned
<1>1. Init => RenumberInv
  BY RenumberInit DEF Init
<1>2. RenumberInv /\ [Next]_vars => RenumberInv'
  BY RenumberStep, Parts
<1>3. RenumberInv => ResourcesOwned
  <2> SUFFICES ASSUME RenumberInv PROVE ResourcesOwned
    OBVIOUS
  <2> DEFINE taken == {used[fd] : fd \in DOMAIN used}
             resource == [fd \in DOMAIN used |-> used[fd]]
  <2>1. PICK m \in Nat : DOMAIN used \cup free = 0 .. m - 1
    BY DEF RenumberInv, DescriptorInv
  <2>2. IsFiniteSet(0 .. m - 1) /\ Cardinality(0 .. m - 1) = m
    BY FS_Interval
  <2>3. IsFiniteSet(DOMAIN used) /\ Cardinality(DOMAIN used) \in Nat
    BY <2>1, <2>2, FS_Subset, FS_CardinalityType
  <2>4. resource \in Surjection(DOMAIN used, taken) /\ resource \in Injection(DOMAIN used, taken)
    BY DEF RenumberInv, ResourceInv, Surjection, Injection, IsInjective
  <2>5. IsFiniteSet(taken) /\ Cardinality(taken) = Cardinality(DOMAIN used)
    <3> HIDE DEF taken, resource
    <3> QED BY <2>3, <2>4, FS_Surjection
  <2>6. IsFiniteSet(undropped) /\ taken \cap undropped = {}
    <3>1. IsFiniteSet({}) /\ \A r : IsFiniteSet({r})
      BY FS_EmptySet, FS_Singleton
    <3>2. IsFiniteSet(undropped)
      BY <3>1 DEF RenumberInv, TrapInv
    <3>3. taken \cap undropped = {}
      BY DEF RenumberInv, ResourceInv
    <3> QED BY <3>2, <3>3
  <2>7. Cardinality(taken \cup undropped) = Cardinality(taken) + Cardinality(undropped)
    <3> HIDE DEF taken
    <3>1. Cardinality(taken) \in Nat /\ Cardinality(undropped) \in Nat
      BY <2>5, <2>6, FS_CardinalityType
    <3>2. Cardinality(taken \cap undropped) = 0
      BY <2>6, FS_EmptySet
    <3>3. Cardinality(taken \cup undropped)
              = Cardinality(taken) + Cardinality(undropped) - Cardinality(taken \cap undropped)
      BY <2>5, <2>6, <2>3, FS_Union
    <3> QED BY <3>1, <3>2, <3>3
  <2>8. Cardinality(resources) = Cardinality(DOMAIN used) + Cardinality(undropped)
    BY <2>5, <2>7 DEF RenumberInv, ResourceInv
  <2>9. DOMAIN used \cup free = 0 .. Cardinality(DOMAIN used \cup free) - 1
    BY <2>1, <2>2
  <2> QED BY <2>8, <2>9, SameCardinality
          DEF RenumberInv, DescriptorInv, ResourceInv, TrapInv, ResourcesOwned,
              Renumber!ResourcesOwned
<1> QED BY <1>1, <1>2, <1>3, PTL DEF Spec

-----------------------------------------------------------------------------
\* The cache of get_executable.

\* What an entry and a load can be; a wasm module is given to its own caller.
EntryInv ==
    /\ caller \in [Processes -> {"start", "loading", "loaded", "returned"}]
    /\ cache \in {Factory!Absent, Factory!Missing} \cup Factory!Packages
    /\ loaded \in [Processes -> {Factory!Missing} \cup {Factory!Package(c) : c \in Processes}
                                                  \cup {Factory!Wasm(c) : c \in Processes}]
    /\ DOMAIN answer = Processes
    /\ \A c \in Processes :
        loaded[c] \in {Factory!Missing, Factory!Package(c), Factory!Wasm(c)}

\* Who has returned agrees with the cache, but for set_binary.
AnswerInv ==
    \A c \in Processes :
        /\ caller[c] # "returned" => answer[c] = Factory!Absent
        /\ answer[c] \notin {Factory!Absent, Factory!Wasm(c)} =>
            /\ answer[c] \in Factory!Packages \cup {Factory!Missing}
            /\ answer[c] = cache \/ cache = Factory!Set

FactoryInv == EntryInv /\ AnswerInv

\* The kinds of entries are different.
LEMMA EntryKinds ==
    /\ Factory!Absent \notin {Factory!Missing, Factory!Set}
    /\ \A c : /\ Factory!Absent \notin {Factory!Package(c), Factory!Wasm(c)}
              /\ Factory!Missing # Factory!Wasm(c) /\ Factory!Set # Factory!Wasm(c)
              /\ \A d : Factory!Package(c) # Factory!Wasm(d)
BY DEF Factory!Absent, Factory!Missing, Factory!Set, Factory!Package, Factory!Wasm

LEMMA FactoryInit == Factory!Init => FactoryInv
BY EntryKinds DEF Factory!Init, FactoryInv, EntryInv, AnswerInv

LEMMA FactoryStep == FactoryInv /\ [Factory!Next]_factoryVars => FactoryInv'
<1> SUFFICES ASSUME FactoryInv, [Factory!Next]_factoryVars PROVE FactoryInv'
  OBVIOUS
<1> USE EntryKinds DEF FactoryInv
<1>1. CASE Factory!SetBinary
  BY <1>1 DEF Factory!SetBinary, EntryInv, AnswerInv, Factory!Packages
<1>2. ASSUME NEW c \in Processes,
             Factory!Hit(c) \/ Factory!HitAfterLoad(c)
      PROVE  FactoryInv'
  <2> USE <1>2 DEF Factory!Hit, Factory!HitAfterLoad, Factory!Return
  <2>1. EntryInv'
    BY DEF EntryInv
  <2>2. AnswerInv'
    BY DEF EntryInv, AnswerInv
  <2> QED BY <2>1, <2>2
<1>3. ASSUME NEW c \in Processes, Factory!Miss(c) \/ Factory!Load(c) PROVE FactoryInv'
  <2> USE <1>3 DEF Factory!Miss, Factory!Load
  <2>1. EntryInv'
    BY DEF EntryInv
  <2>2. AnswerInv'
    BY DEF EntryInv, AnswerInv
  <2> QED BY <2>1, <2>2
<1>4. ASSUME NEW c \in Processes, Factory!Publish(c) PROVE FactoryInv'
  <2> USE <1>4 DEF Factory!Publish, Factory!Return
  <2>1. \/ loaded[c] = Factory!Wasm(c) /\ cache' = cache
        \/ /\ loaded[c] \in {Factory!Missing, Factory!Package(c)} /\ cache' = loaded[c]
           /\ loaded[c] \in Factory!Packages \cup {Factory!Missing}
    BY DEF EntryInv, Factory!Packages
  <2>2. EntryInv'
    BY <2>1 DEF EntryInv
  \* Nobody has been given anything but a wasm module of its own.
  <2>3. \A d \in Processes : answer[d] \in {Factory!Absent, Factory!Wasm(d)}
    BY DEF EntryInv, AnswerInv, Factory!Packages
  <2>4. \A d \in Processes \ {c} : answer'[d] = answer[d] /\ caller'[d] = caller[d]
    BY DEF EntryInv
  <2>5. answer'[c] = loaded[c] /\ caller'[c] = "returned"
    BY DEF EntryInv
  <2> QED BY <2>1, <2>2, <2>3, <2>4, <2>5 DEF AnswerInv
<1>5. CASE UNCHANGED factoryVars
  BY <1>5 DEF factoryVars, EntryInv, AnswerInv
<1> QED BY <1>1, <1>2, <1>3, <1>4, <1>5 DEF Factory!Next

\* One package is shared by any number of callers.
THEOREM PackageShared == Spec => []BinaryShared
<1>1. Init => FactoryInv
  BY FactoryInit DEF Init
<1>2. FactoryInv /\ [Next]_vars => FactoryInv'
  BY FactoryStep, Parts
<1>3. FactoryInv => BinaryShared
  BY DEF FactoryInv, AnswerInv, BinaryShared, Factory!BinaryShared
<1> QED BY <1>1, <1>2, <1>3, PTL DEF Spec

-----------------------------------------------------------------------------
\* The listener of 001 of pushpin.

BeforeAccept == {"start", "bound", "told", "restricted"}
AfterAccept == {"accepted", "received", "served", "read"}
AfterAttempt == {"tried", "exit0", "exit1"}

\* The mode follows the main thread.
ModeInv ==
    /\ main \in BeforeAccept \cup AfterAccept \cup AfterAttempt \cup {"panicked"}
    /\ mode = IF main = "start" THEN Socket!None
              ELSE IF main \in {"bound", "told"} THEN "0777" ELSE "0000"
    /\ root \in BOOLEAN

MadeTypes == made \in [{Socket!Raced, Socket!Late} -> {Socket!None, "0777", "0000"}]

\* A connection was made under the mode of its time; only root's under the second.
MadeInv ==
    /\ MadeTypes
    /\ main = "start" => made[Socket!Raced] = Socket!None
    /\ ~root => made[Socket!Raced] # "0000"

\* Until the late connect there is one connection at most: that of the client.
BacklogInv ==
    main \in BeforeAccept \cup AfterAccept =>
        /\ backlog \in Seq({Socket!Raced})
        /\ backlog # <<>> => made[Socket!Raced] # Socket!None

\* What was accepted was made, and what was served stays so.
ServerInv ==
    /\ main \in AfterAccept \cup AfterAttempt => server = Socket!Raced /\ made[Socket!Raced] # Socket!None
    /\ main \in {"served", "read"} \cup AfterAttempt => served

\* The late connect tells root from the others.
AttemptInv ==
    /\ main \in AfterAttempt => attempt = IF root THEN "ok" ELSE "rejected"
    /\ main = "exit0" => ~root
    /\ main = "exit1" => root

SocketInv == ModeInv /\ MadeInv /\ BacklogInv /\ ServerInv /\ AttemptInv

\* The initial state: nothing is bound, nothing connected.
LEMMA SocketInit == Socket!Init => SocketInv
<1> SUFFICES ASSUME Socket!Init PROVE SocketInv
  OBVIOUS
<1> USE DEF Socket!Init, BeforeAccept, AfterAccept, AfterAttempt, Socket!Raced, Socket!Late, Socket!None
<1>1. BacklogInv
  <2>1. <<>> \in Seq({"raced"})
    OBVIOUS
  <2> QED BY <2>1 DEF BacklogInv
<1>2. ModeInv /\ MadeInv
  BY DEF ModeInv, MadeInv, MadeTypes
<1>3. ServerInv /\ AttemptInv
  BY DEF ServerInv, AttemptInv
<1> QED BY <1>1, <1>2, <1>3 DEF SocketInv

\* What Queue makes of the modes under which the connections were made.
LEMMA Queued ==
    /\ \A c \in {Socket!Raced, Socket!Late} :
           ModeInv /\ MadeInv /\ Socket!Queue(c) => MadeTypes' /\ made'[c] = mode
    /\ MadeInv /\ Socket!Queue(Socket!Late) => made'[Socket!Raced] = made[Socket!Raced]
<1> USE DEF Socket!Queue, Socket!Raced, Socket!Late, Socket!None
<1>1. ModeInv => mode \in {"none", "0777", "0000"}
  BY DEF ModeInv
<1>2. ASSUME NEW c \in {"raced", "late"}, ModeInv, MadeTypes, Socket!Queue(c)
      PROVE  MadeTypes' /\ made'[c] = mode
  <2>1. made' = [made EXCEPT ![c] = mode] /\ mode \in {"none", "0777", "0000"}
    BY <1>1, <1>2
  <2> QED BY <1>2, <2>1 DEF MadeTypes
<1>3. MadeTypes /\ Socket!Queue("late") => made'["raced"] = made["raced"]
  BY DEF MadeTypes
<1> QED BY <1>2, <1>3 DEF MadeInv

\* Every step of either thread keeps the invariant.
LEMMA SocketStep == SocketInv /\ [Socket!Next]_socketVars => SocketInv'
<1> SUFFICES ASSUME SocketInv, [Socket!Next]_socketVars PROVE SocketInv'
  OBVIOUS
<1> USE DEF SocketInv, BeforeAccept, AfterAccept, AfterAttempt, Socket!Raced, Socket!Late, Socket!None
<1>1. CASE Socket!Bind
  BY <1>1 DEF Socket!Bind, ModeInv, MadeInv, MadeTypes, BacklogInv, ServerInv, AttemptInv
<1>2. CASE Socket!Tell
  BY <1>2 DEF Socket!Tell, Socket!kernel, ModeInv, MadeInv, MadeTypes, BacklogInv, ServerInv, AttemptInv
<1>3. CASE Socket!Chmod
  BY <1>3 DEF Socket!Chmod, ModeInv, MadeInv, MadeTypes, BacklogInv, ServerInv, AttemptInv
<1>4. CASE Socket!Accept
  <2>1. server' = Socket!Raced /\ backlog' \in Seq({Socket!Raced}) /\ made[Socket!Raced] # Socket!None
    BY <1>4, HeadTailProperties DEF Socket!Accept, BacklogInv
  <2>2. ModeInv' /\ MadeInv' /\ AttemptInv'
    BY <1>4 DEF Socket!Accept, ModeInv, MadeInv, MadeTypes, AttemptInv
  <2>3. BacklogInv' /\ ServerInv'
    BY <1>4, <2>1 DEF Socket!Accept, BacklogInv, ServerInv
  <2> QED BY <2>2, <2>3
<1>5. CASE Socket!Receive
  BY <1>5 DEF Socket!Receive, Socket!kernel, ModeInv, MadeInv, MadeTypes, BacklogInv, ServerInv, AttemptInv
<1>6. CASE Socket!ReceiveTimeout
  BY <1>6 DEF Socket!ReceiveTimeout, Socket!kernel, ModeInv, MadeInv, MadeTypes, BacklogInv,
     ServerInv, AttemptInv
<1>7. CASE Socket!Serve
  BY <1>7 DEF Socket!Serve, Socket!kernel, ModeInv, MadeInv, MadeTypes, BacklogInv, ServerInv, AttemptInv
<1>8. CASE Socket!ReadBack
  BY <1>8 DEF Socket!ReadBack, Socket!kernel, ModeInv, MadeInv, MadeTypes, BacklogInv, ServerInv, AttemptInv
<1>9. CASE Socket!Attempt
  <2>1. MadeTypes' /\ made'[Socket!Raced] = made[Socket!Raced]
    <3>1. CASE Socket!MayConnect
      BY <1>9, <3>1, Queued DEF Socket!Attempt
    <3>2. CASE ~Socket!MayConnect
      BY <1>9, <3>2 DEF Socket!Attempt, MadeInv, MadeTypes
    <3> QED BY <3>1, <3>2
  <2>2. attempt' = IF root THEN "ok" ELSE "rejected"
    BY <1>9 DEF Socket!Attempt, Socket!MayConnect, ModeInv
  <2>3. ModeInv' /\ MadeInv'
    BY <1>9, <2>1 DEF Socket!Attempt, ModeInv, MadeInv
  <2>4. BacklogInv' /\ ServerInv' /\ AttemptInv'
    BY <1>9, <2>1, <2>2 DEF Socket!Attempt, BacklogInv, ServerInv, AttemptInv
  <2> QED BY <2>3, <2>4
<1>10. CASE Socket!Judge
  \* The mode is restricted and the line served, so that only root is refused a verdict.
  <2>1. main' = IF root THEN "exit1" ELSE "exit0"
    BY <1>10 DEF Socket!Judge, ModeInv, ServerInv, AttemptInv
  <2> QED
    BY <1>10, <2>1 DEF Socket!Judge, Socket!kernel, ModeInv, MadeInv, MadeTypes, BacklogInv,
       ServerInv, AttemptInv
<1>11. CASE Socket!Connect
  <2>1. MadeTypes' /\ made'[Socket!Raced] = mode
    BY <1>11, Queued DEF Socket!Connect
  <2>2. mode # Socket!None /\ (~root => mode = "0777")
    BY <1>11 DEF Socket!Connect, Socket!MayConnect, ModeInv
  <2>3. backlog \in Seq({Socket!Raced}) => backlog' \in Seq({Socket!Raced})
    BY <1>11, AppendProperties DEF Socket!Connect, Socket!Queue
  <2>4. ModeInv' /\ MadeInv'
    BY <1>11, <2>1, <2>2 DEF Socket!Connect, ModeInv, MadeInv
  <2>5. BacklogInv' /\ ServerInv' /\ AttemptInv'
    BY <1>11, <2>1, <2>2, <2>3 DEF Socket!Connect, BacklogInv, ServerInv, AttemptInv
  <2> QED BY <2>4, <2>5
<1>12. CASE Socket!Send
  BY <1>12 DEF Socket!Send, Socket!kernel, ModeInv, MadeInv, MadeTypes, BacklogInv, ServerInv, AttemptInv
<1>13. CASE UNCHANGED socketVars
  BY <1>13 DEF socketVars, ModeInv, MadeInv, MadeTypes, BacklogInv, ServerInv, AttemptInv
<1> QED
  BY <1>1, <1>2, <1>3, <1>4, <1>5, <1>6, <1>7, <1>8, <1>9, <1>10, <1>11, <1>12, <1>13
  DEF Socket!Next, Socket!MainStep, Socket!ClientStep

\* "RESULT: vulnerable" (main(), lines 83 to 101) is true when it is printed, and
\* "race did not reproduce" (lines 102 to 107) is reached by root alone.
THEOREM SocketVerdictsHold == Spec => []SocketVerdicts
<1>1. Init => SocketInv
  BY SocketInit DEF Init
<1>2. SocketInv /\ [Next]_vars => SocketInv'
  BY SocketStep, Parts
<1>3. SocketInv => Socket!VerdictSound
  <2> SUFFICES ASSUME SocketInv, main = "exit0"
               PROVE  /\ server = Socket!Raced /\ made[Socket!Raced] = "0777"
                      /\ mode = "0000" /\ ~root
    BY DEF Socket!VerdictSound
  <2>1. mode = "0000" /\ ~root
    BY DEF SocketInv, ModeInv, AttemptInv
  <2>2. server = Socket!Raced /\ made[Socket!Raced] # Socket!None
    BY DEF SocketInv, ServerInv, AfterAttempt
  <2>3. made[Socket!Raced] \in {Socket!None, "0777", "0000"}
    BY DEF SocketInv, MadeInv, MadeTypes
  <2>4. made[Socket!Raced] # "0000"
    BY <2>1 DEF SocketInv, MadeInv
  <2> QED BY <2>1, <2>2, <2>3, <2>4
<1>4. SocketInv => Socket!NotReproducedIsRoot
  BY DEF SocketInv, AttemptInv, Socket!NotReproducedIsRoot
<1>5. SocketInv => SocketVerdicts
  BY <1>3, <1>4 DEF SocketVerdicts, Socket!SocketVerdicts
<1> QED BY <1>1, <1>2, <1>5, PTL DEF Spec

-----------------------------------------------------------------------------
\* wait_timeout_while, of 067.

TimeTypes ==
    /\ elapsed \in 0 .. Cap /\ inner \in 0 .. Cap /\ pause \in Nat
    /\ done \in BOOLEAN /\ timed_out \in BOOLEAN /\ met \in BOOLEAN

\* Before it returns the waiter has no result.
NoResultYet == waiter # "returned" => ~timed_out

\* While main() holds the mutex it met, the waiter stays in its loop, and its
\* stopwatch makes up for what is gone of the pause.
HoldingInv ==
    met /\ setter = "holding" =>
        /\ waiter \in TimedWait!InLoop /\ owner = "setter"
        /\ elapsed + pause >= Hold \/ elapsed = Cap

\* Afterwards the predicate holds, and the waiter has waited long enough.
ReleasedInv ==
    met /\ setter \in {"released", "joining", "triggered", "failed"} =>
        done /\ ~timed_out /\ elapsed >= MinElapsed

SetterInv ==
    /\ setter \in {"asleep", "holding", "released", "joining", "triggered", "failed"}
    /\ setter = "asleep" => ~met
    /\ met => setter # "failed"

WaitInv == TimeTypes /\ NoResultYet /\ HoldingInv /\ ReleasedInv /\ SetterInv /\ TimedWait!ResultSound

\* The initial state: the waiter has not begun, main() sleeps.
LEMMA WaitInit == ASSUME TimedWait!Durations PROVE TimedWait!Init => WaitInv
<1> SUFFICES ASSUME TimedWait!Durations, TimedWait!Init PROVE WaitInv
  OBVIOUS
<1>1. TimeTypes
  <2>1. elapsed \in 0 .. Cap /\ inner \in 0 .. Cap /\ pause \in Nat
    BY DEF TimedWait!Durations, TimedWait!Init
  <2>2. done \in BOOLEAN /\ timed_out \in BOOLEAN /\ met \in BOOLEAN
    BY DEF TimedWait!Init
  <2> QED BY <2>1, <2>2 DEF TimeTypes
<1>2. HoldingInv /\ ReleasedInv /\ NoResultYet /\ SetterInv /\ TimedWait!ResultSound
  BY DEF TimedWait!Init, HoldingInv, ReleasedInv, NoResultYet, SetterInv, TimedWait!ResultSound
<1> QED BY <1>1, <1>2 DEF WaitInv

\* Every step, and every unit of time, keeps the invariant.
LEMMA WaitStep == ASSUME TimedWait!Durations PROVE WaitInv /\ [TimedWait!Next]_timedVars => WaitInv'
<1> SUFFICES ASSUME TimedWait!Durations, WaitInv, [TimedWait!Next]_timedVars PROVE WaitInv'
  OBVIOUS
<1> USE DEF TimedWait!Durations, WaitInv, TimeTypes, NoResultYet, SetterInv,
            TimedWait!ResultSound, TimedWait!InLoop, TimedWait!Nobody
<1>1. CASE TimedWait!Tick
  <2>1. TimeTypes' /\ elapsed' >= elapsed /\ inner' >= inner
    BY <1>1 DEF TimedWait!Tick, TimedWait!Inc, TimedWait!Dec
  <2>2. HoldingInv'
    BY <1>1, <2>1 DEF TimedWait!Tick, TimedWait!Inc, TimedWait!Dec, HoldingInv
  <2>3. ReleasedInv'
    BY <1>1, <2>1 DEF TimedWait!Tick, ReleasedInv
  <2> QED BY <1>1, <2>1, <2>2, <2>3 DEF TimedWait!Tick
<1>2. CASE TimedWait!Start
  BY <1>2 DEF TimedWait!Start, HoldingInv, ReleasedInv
<1>3. CASE TimedWait!Lock
  BY <1>3 DEF TimedWait!Lock, HoldingInv, ReleasedInv
<1>4. CASE TimedWait!Satisfied
  BY <1>4 DEF TimedWait!Satisfied, TimedWait!Return, HoldingInv, ReleasedInv
<1>5. CASE TimedWait!DeadlinePassed
  BY <1>5 DEF TimedWait!DeadlinePassed, TimedWait!Return, HoldingInv, ReleasedInv
<1>6. CASE TimedWait!Wait
  BY <1>6 DEF TimedWait!Wait, HoldingInv, ReleasedInv
<1>7. CASE TimedWait!Wake
  BY <1>7 DEF TimedWait!Wake, HoldingInv, ReleasedInv
<1>8. CASE TimedWait!Relock
  BY <1>8 DEF TimedWait!Relock, HoldingInv, ReleasedInv
<1>9. CASE TimedWait!SetterLock
  BY <1>9 DEF TimedWait!SetterLock, HoldingInv, ReleasedInv
<1>10. CASE TimedWait!Set
  \* The pause is over: the waiter's stopwatch has all of it.
  <2>1. met => elapsed >= MinElapsed /\ waiter \in TimedWait!InLoop
    BY <1>10 DEF TimedWait!Set, HoldingInv
  <2> QED BY <1>10, <2>1 DEF TimedWait!Set, HoldingInv, ReleasedInv
<1>11. CASE TimedWait!NotifyAll
  BY <1>11 DEF TimedWait!NotifyAll, HoldingInv, ReleasedInv
<1>12. CASE TimedWait!Judge
  BY <1>12 DEF TimedWait!Judge, HoldingInv, ReleasedInv
<1>13. CASE UNCHANGED timedVars
  BY <1>13 DEF timedVars, HoldingInv, ReleasedInv
<1> QED
  BY <1>1, <1>2, <1>3, <1>4, <1>5, <1>6, <1>7, <1>8, <1>9, <1>10, <1>11, <1>12, <1>13
  DEF TimedWait!Next, TimedWait!WaiterStep, TimedWait!SetterStep

\* What wait_timeout_while returns (lines 28 to 36) is right, whoever wakes it, and
\* the assertions of main() (lines 60 to 63) hold once it has met the waiter.
THEOREM WaitVerdictsHold == Spec => []WaitVerdicts
<1>1. Init => WaitInv
  BY WaitInit, SuiteAssumption DEF Init
<1>2. WaitInv /\ [Next]_vars => WaitInv'
  BY WaitStep, Parts, SuiteAssumption
<1>3. WaitInv => WaitVerdicts
  BY DEF WaitInv, SetterInv, TimedWait!AssertionsHold, WaitVerdicts, TimedWait!WaitVerdicts
<1> QED BY <1>1, <1>2, <1>3, PTL DEF Spec

-----------------------------------------------------------------------------
\* Lengths: what the checks promise of every length, with the constants as large
\* as LengthsAssumption has them.

\* 006 (lines 27 to 44): the wrapped length is huge for each size below a header.
LEMMA NameLength == ASSUME NEW size \in Nat PROVE Buffers!NameLengthExact(size)
<1> USE LengthsAssumption
<1>1. CASE size < Header
  <2>1. Buffers!Minus(size, Header) = size - Header + Word
    BY <1>1 DEF Buffers!Minus
  <2>2. Buffers!BuggyLen(size) > Huge
    BY <2>1 DEF Buffers!BuggyLen
  <2>3. Buffers!PatchedLen(size) = 0
    BY <1>1 DEF Buffers!PatchedLen
  <2> QED BY <1>1, <2>2, <2>3 DEF Buffers!NameLengthExact, Buffers!Triggered006
<1>2. CASE size >= Header
  <2>1. Buffers!BuggyLen(size) = (size - Header) \div 2
    BY <1>2 DEF Buffers!BuggyLen, Buffers!Minus
  <2>2. Buffers!PatchedLen(size) = (size - Header) \div 2
    <3>1. CASE size = Header
      BY <3>1 DEF Buffers!PatchedLen
    <3>2. CASE size > Header
      BY <3>2 DEF Buffers!PatchedLen
    <3> QED BY <1>2, <3>1, <3>2
  <2>3. ~Buffers!Triggered006(size)
    BY <1>2, <2>1, <2>2 DEF Buffers!Triggered006
  <2>4. Header + 2 * Buffers!PatchedLen(size) \in {size - 1, size}
    BY <1>2, <2>2
  <2> QED BY <1>2, <2>1, <2>2, <2>3, <2>4 DEF Buffers!NameLengthExact
<1> QED BY <1>1, <1>2

\* 008 (lines 31 to 79): no valid buffer has its name outside, whatever its lengths.
LEMMA Reparse ==
    ASSUME NEW r \in [off : Nat, len : Nat, returned : Nat, data : Nat]
    PROVE  Buffers!ReparseInside(r)
<1> USE LengthsAssumption
<1>1. r.off \in Nat /\ r.len \in Nat /\ r.returned \in Nat /\ r.data \in Nat
  OBVIOUS
<1>2. r.off % 2 = 0 /\ r.len % 2 = 0 => Buffers!BuggyEnd(r) = r.off + r.len
  <2>1. \A k \in Nat : k % 2 = 0 => (k \div 2) * 2 = k
    OBVIOUS
  <2> QED BY <1>1, <2>1 DEF Buffers!BuggyEnd
<1>3. Buffers!BuggyEnd(r) \in Nat
  BY <1>1 DEF Buffers!BuggyEnd
<1>4. Buffers!ValidReparse(r) =>
        ReparseHeader + PathOffset + Buffers!BuggyEnd(r) <= r.returned /\ r.returned <= MaxReparse
  BY <1>1, <1>2 DEF Buffers!ValidReparse
<1>5. Buffers!Triggered008(r) <=> Buffers!BuggyEnd(r) > MaxReparse
  BY <1>1, <1>3, <1>4 DEF Buffers!Triggered008
<1>6. (/\ r.data = r.returned - ReparseHeader /\ r.data >= PathOffset
       /\ r.off % 2 = 0 /\ r.len % 2 = 0 /\ r.returned <= MaxReparse)
      => (Buffers!ValidReparse(r) <=> PathOffset + Buffers!BuggyEnd(r) <= r.data)
  BY <1>1, <1>2 DEF Buffers!ValidReparse
<1> QED BY <1>4, <1>5, <1>6 DEF Buffers!ReparseInside

\* 009 (lines 27 to 60): no valid entry has its name outside.
LEMMA Entry ==
    ASSUME NEW e \in [buffer : Nat, next : Nat, name : Nat]
    PROVE  Buffers!EntryInside(e)
<1> USE LengthsAssumption
<1>1. e.buffer \in Nat /\ e.next \in Nat /\ e.name \in Nat
  OBVIOUS
<1>2. Buffers!EntryLen(e) \in Nat /\ (e.next = 0 => Buffers!EntryLen(e) = e.buffer)
  BY <1>1 DEF Buffers!EntryLen
<1>3. /\ Buffers!RequestElems(e) \in Nat
      /\ e.name % 2 = 0 => 2 * Buffers!RequestElems(e) = e.name
  BY <1>1 DEF Buffers!RequestElems
<1>4. Buffers!ValidEntry(e) =>
        /\ NameOffset + 2 * Buffers!RequestElems(e) <= Buffers!EntryLen(e)
        /\ Buffers!EntryLen(e) <= e.buffer
  BY <1>1, <1>2, <1>3 DEF Buffers!ValidEntry
<1>5. Buffers!Triggered009(e) <=> NameOffset + 2 * Buffers!RequestElems(e) > e.buffer
  BY <1>1, <1>2, <1>3, <1>4 DEF Buffers!Triggered009
<1>6. e.next = 0 /\ e.name % 2 = 0 => (Buffers!ValidEntry(e) <=> ~Buffers!Triggered009(e))
  BY <1>1, <1>2, <1>3, <1>5 DEF Buffers!ValidEntry
<1> QED BY <1>4, <1>5, <1>6 DEF Buffers!EntryInside

\* 021, 022, 023, 121 and 141: a transfer is exact, or one of them triggers on it.
LEMMA Transfers ==
    ASSUME NEW buf \in Nat, NEW offset \in Nat, NEW length \in Nat
    PROVE  Buffers!TransfersExact(buf, offset, length)
<1> USE LengthsAssumption DEF Buffers!ReadOrPeek, Buffers!Copied, Buffers!Panic, Buffers!Lesser
<1>1. Buffers!Triggered021(buf, offset, length) <=> offset # 0 /\ length > Buffer
  BY DEF Buffers!Triggered021
<1>2. Buffers!Triggered022(buf, offset, length)
      <=> offset # 0 /\ length <= Buffer /\ length > buf
  BY DEF Buffers!Triggered022
<1>3. Buffers!ReadOrPeek(buf, offset, length) = Buffers!Copied(buf, offset, length)
      <=> offset = 0 \/ (length <= Buffer /\ length <= buf)
  OBVIOUS
<1>4. /\ Buffers!Triggered121(length) <=> length > Buffer
      /\ Buffers!Triggered141(length) <=> length > Buffer
      /\ Buffers!Triggered023(buf, length) <=> length > buf
  BY DEF Buffers!Triggered121, Buffers!Triggered141, Buffers!Triggered023,
         Buffers!VulnerableLendLen, Buffers!FixedLendLen, Buffers!BuildQuery, Buffers!Write
<1> QED BY <1>1, <1>2, <1>3, <1>4 DEF Buffers!TransfersExact

\* 040: a name that is not too long is sent whole, and one that is loses its end.
LEMMA SentName ==
    ASSUME NEW B, NEW name \in Seq(B)
    PROVE  /\ Buffers!Sent(name) \in Seq(B) /\ Len(name) \in Nat
           /\ Len(Buffers!Sent(name)) <= NameMax
           /\ Len(name) <= NameMax => Buffers!Sent(name) = name
           /\ Buffers!Triggered040(name) <=> Len(name) > NameMax
<1> USE LengthsAssumption
<1> DEFINE m == Buffers!AdvertisedLen(name)
<1>1. /\ Len(name) \in Nat /\ m \in Nat /\ m <= Len(name) /\ m <= NameMax
      /\ Len(name) <= NameMax => m = Len(name)
      /\ Len(name) > NameMax => m = NameMax
  BY LenProperties DEF Buffers!AdvertisedLen, Buffers!Lesser
<1>2. \A i_ \in 1 .. m : name[i_] \in B
  BY <1>1, ElementOfSeq
<1>3. Buffers!Sent(name) = SubSeq(name, 1, m)
  BY DEF Buffers!Sent
<1> HIDE DEF m
<1>4. /\ Buffers!Sent(name) \in Seq(B) /\ Len(Buffers!Sent(name)) = m
      /\ \A i_ \in 1 .. m : Buffers!Sent(name)[i_] = name[i_]
  <2>1. m - 1 + 1 = m /\ (1 <= m => m - 1 + 1 = m) /\ (~(1 <= m) => m = 0)
    BY <1>1
  <2>2. /\ SubSeq(name, 1, m) \in Seq(B) /\ Len(SubSeq(name, 1, m)) = m
        /\ \A i_ \in 1 .. m - 1 + 1 : SubSeq(name, 1, m)[i_] = name[1 + i_ - 1]
    BY <1>1, <1>2, <2>1, SubSeqProperties
  <2> QED BY <1>1, <1>3, <2>1, <2>2
<1>5. Len(name) <= NameMax => Buffers!Sent(name) = name
  BY <1>1, <1>4, SeqEqual
<1>6. Buffers!Triggered040(name) <=> Len(name) > NameMax
  BY <1>1, <1>4, <1>5 DEF Buffers!Triggered040, m
<1> QED BY <1>1, <1>4, <1>5, <1>6

LEMMA Names ==
    ASSUME NEW B, NEW a \in Seq(B), NEW b \in Seq(B)
    PROVE  Buffers!NamesCollide(a, b)
<1>1. Buffers!Sent(Buffers!Sent(a)) = Buffers!Sent(a)
  BY SentName
<1>2. Buffers!Triggered040(a) <=> Len(a) > NameMax
  BY SentName
<1>3. \/ Buffers!Triggered040(a) \/ Buffers!Triggered040(b)
      \/ Buffers!Sent(a) = a /\ Buffers!Sent(b) = b
  <2>1. Buffers!Triggered040(a) \/ Buffers!Sent(a) = a
    BY SentName, LengthsAssumption
  <2>2. Buffers!Triggered040(b) \/ Buffers!Sent(b) = b
    BY SentName, LengthsAssumption
  <2> QED BY <2>1, <2>2
<1> QED BY <1>1, <1>2, <1>3 DEF Buffers!NamesCollide

\* Of a reply that is cut, and of the whole one, only their bytes matter.
LEMMA CutReply ==
    ASSUME NEW reply, NEW whole, NEW v \in Nat, NEW raw, reply.valid = v,
           \A k \in 0 .. 21 : raw[k] \in 0 .. 255,
           \A k \in 0 .. 21 : Buffers!Byte(whole, k) = raw[k],
           \A k \in 0 .. 21 : Buffers!Byte(reply, k) = IF k < v THEN raw[k] ELSE 0,
           Buffers!ParseAccept(whole)
    PROVE  /\ Buffers!ParseAccept(reply) <=> v >= 4
           /\ v >= 8 => Buffers!PeerIp(reply) = Buffers!PeerIp(whole)
           /\ v >= 22 => Buffers!PeerPort(reply) = Buffers!PeerPort(whole)
           /\ v = 21 => Buffers!PeerPort(reply) = Buffers!PeerPort(whole) % 256
           /\ v = 4 => Buffers!Triggered042(reply)
<1>1. raw[0] = 0 /\ raw[3] = 4
  BY DEF Buffers!ParseAccept
<1>2. Buffers!ParseAccept(reply) <=> v >= 4
  BY <1>1 DEF Buffers!ParseAccept
<1>3. v >= 8 => Buffers!PeerIp(reply) = Buffers!PeerIp(whole)
  <2>1. ASSUME v >= 8, NEW k \in 4 .. 7
        PROVE  Buffers!Byte(reply, k) = Buffers!Byte(whole, k)
    <3>1. k \in 0 .. 21 /\ k < v
      BY <2>1
    <3> QED BY <3>1
  <2> QED BY <2>1 DEF Buffers!PeerIp
<1>4. 20 \in 0 .. 21 /\ 21 \in 0 .. 21
  OBVIOUS
<1> DEFINE lo == raw[20] hi == raw[21]
<1>5. /\ Buffers!PeerPort(whole) = lo + 256 * hi
      /\ lo \in Nat /\ lo < 256 /\ hi \in Nat
  <2>1. lo \in 0 .. 255 /\ hi \in 0 .. 255
    BY <1>4
  <2>2. Buffers!Byte(whole, 20) = lo /\ Buffers!Byte(whole, 21) = hi
    BY <1>4
  <2> QED BY <2>1, <2>2 DEF Buffers!PeerPort
<1>6. v = 21 => Buffers!PeerPort(reply) = lo
  <2> SUFFICES ASSUME v = 21 PROVE Buffers!PeerPort(reply) = lo
    OBVIOUS
  <2>1. Buffers!Byte(reply, 20) = lo
    BY <1>4
  <2>2. Buffers!Byte(reply, 21) = 0
    BY <1>4
  <2> QED BY <1>5, <2>1, <2>2 DEF Buffers!PeerPort
<1>7. v >= 22 => Buffers!PeerPort(reply) = lo + 256 * hi
  <2> SUFFICES ASSUME v >= 22 PROVE Buffers!PeerPort(reply) = lo + 256 * hi
    OBVIOUS
  <2>1. Buffers!Byte(reply, 20) = lo
    BY <1>4
  <2>2. Buffers!Byte(reply, 21) = hi
    BY <1>4
  <2> QED BY <1>5, <2>1, <2>2 DEF Buffers!PeerPort
<1>8. v = 4 => Buffers!Triggered042(reply)
  <2> SUFFICES ASSUME v = 4 PROVE Buffers!Triggered042(reply)
    OBVIOUS
  <2>1. \A k \in 4 .. 21 : Buffers!Byte(reply, k) = 0
    <3> SUFFICES ASSUME NEW k \in 4 .. 21 PROVE Buffers!Byte(reply, k) = 0
      OBVIOUS
    <3>1. k \in 0 .. 21 /\ ~(k < v)
      OBVIOUS
    <3> QED BY <3>1
  <2>2. Buffers!PeerIp(reply) = [k \in 4 .. 7 |-> 0]
    BY <2>1 DEF Buffers!PeerIp
  <2>3. Buffers!PeerPort(reply) = 0
    BY <2>1 DEF Buffers!PeerPort
  <2> QED BY <1>2, <2>2, <2>3 DEF Buffers!Triggered042
<1> HIDE DEF lo, hi
<1>9. (256 * hi + lo) % 256 = lo
  BY <1>5
<1> QED BY <1>2, <1>3, <1>5, <1>6, <1>7, <1>8, <1>9

\* 042: a reply that is cut is a peer from its fourth byte on.
LEMMA Replies ==
    ASSUME NEW reply \in [valid : Nat, raw : [0 .. 21 -> 0 .. 255]]
    PROVE  Buffers!PeerFabricated(reply)
<1> DEFINE whole == [reply EXCEPT !.valid = 22]
<1>1. reply.valid \in Nat
  OBVIOUS
<1>2. reply.raw \in [0 .. 21 -> 0 .. 255]
  OBVIOUS
<1>3. \A k \in 0 .. 21 : reply.raw[k] \in 0 .. 255
  BY <1>2
<1>4. whole.valid = 22 /\ whole.raw = reply.raw
  OBVIOUS
<1> HIDE DEF whole
<1>5. \A k \in 0 .. 21 : Buffers!Byte(whole, k) = reply.raw[k]
  BY <1>4 DEF Buffers!Byte
<1>6. \A k \in 0 .. 21 : Buffers!Byte(reply, k) = IF k < reply.valid THEN reply.raw[k] ELSE 0
  BY DEF Buffers!Byte
<1>7. ASSUME Buffers!ParseAccept(whole)
      PROVE  /\ Buffers!ParseAccept(reply) <=> reply.valid >= 4
             /\ reply.valid >= 8 => Buffers!PeerIp(reply) = Buffers!PeerIp(whole)
             /\ reply.valid >= 22 => Buffers!PeerPort(reply) = Buffers!PeerPort(whole)
             /\ reply.valid = 21 => Buffers!PeerPort(reply) = Buffers!PeerPort(whole) % 256
             /\ reply.valid = 4 => Buffers!Triggered042(reply)
  BY <1>1, <1>3, <1>5, <1>6, <1>7, CutReply
<1>8. ASSUME Buffers!ParseAccept(whole), Buffers!Triggered042(reply), reply.valid >= 8
      PROVE  Buffers!PeerIp(whole) = [k \in 4 .. 7 |-> 0]
  BY <1>7, <1>8 DEF Buffers!Triggered042
<1> QED BY <1>7, <1>8 DEF Buffers!PeerFabricated, whole

\* 062: both lengths wrap.
LEMMA Unicode == ASSUME NEW units \in Nat PROVE Buffers!UnicodeWraps(units)
<1> DEFINE h == Short \div 2
<1>1. h \in Nat /\ Short = h * 2 /\ Short \in Nat \ {0}
  BY LengthsAssumption
<1> HIDE DEF h
<1>2. Buffers!UnicodeLen(units) = (units * 2) % Short
  BY DEF Buffers!UnicodeLen
<1>3. Buffers!UnicodeLen(units + h) = (units * 2 + Short) % Short
  BY <1>1 DEF Buffers!UnicodeLen
<1>4. (units * 2 + Short) % Short = (units * 2) % Short
  <2>1. units * 2 \in Nat
    OBVIOUS
  <2> QED BY <1>1, <2>1, RemainderOnceMore
<1>5. (units * 2) % Short < Short /\ (units * 2 < Short => (units * 2) % Short = units * 2)
  BY <1>1, Division, SmallMod
<1>6. (units * 2) % Short # units * 2 <=> units >= h
  BY <1>1, <1>5
<1> QED BY <1>2, <1>3, <1>4, <1>6 DEF Buffers!UnicodeWraps, Buffers!Triggered062, h

\* 100 (lines 8 to 33): the documented scratch is short of every longer slice.
LEMMA Scratch ==
    ASSUME NEW v_len \in Nat, NEW small \in Nat, NEW pivot \in Nat
    PROVE  Buffers!ScratchShort(v_len, small, pivot)
<1>1. v_len \div 2 \in Nat /\ (v_len \div 2 > 0 <=> v_len >= 2)
  OBVIOUS
<1>2. Buffers!DocumentedScratch(v_len, small) < v_len <=> v_len >= 2 /\ v_len > small
  BY <1>1 DEF Buffers!DocumentedScratch, Buffers!Greater
<1> QED BY <1>2 DEF Buffers!ScratchShort, Buffers!Triggered100, Buffers!PartitionAborts

\* 004: the slots of the Vec are those of the second call, and what was lost.
LEMMA Handles ==
    ASSUME NEW told \in Nat \X Nat, told[2] <= told[1]
    PROVE  Buffers!HandlesWritten(told)
<1>1. told[1] \in Nat /\ told[2] \in Nat
  OBVIOUS
<1>2. /\ Buffers!Buggy(told) = Buffers!Slots(told, told[1])
      /\ Buffers!Patched(told) = Buffers!Slots(told, told[2])
  BY <1>1, Division, LengthsAssumption DEF Buffers!Buggy, Buffers!Patched, Buffers!HandleBytes
<1> DEFINE buggy == Buffers!Slots(told, told[1]) patched == Buffers!Slots(told, told[2])
           S == {"written", "stale"}
<1>3. buggy \in Seq(S) /\ Len(buggy) = told[1]
  BY <1>1 DEF Buffers!Slots
<1>4. patched \in Seq(S) /\ Len(patched) = told[2] /\ DOMAIN patched = 1 .. told[2]
  BY <1>1 DEF Buffers!Slots
<1>5. \A slot \in 1 .. told[2] : patched[slot] = "written" /\ buggy[slot] = "written"
  BY <1>1 DEF Buffers!Slots
<1>6. \A slot \in told[2] + 1 .. told[1] : buggy[slot] = "stale"
  BY <1>1 DEF Buffers!Slots
<1> HIDE DEF buggy, patched
<1>7. SubSeq(buggy, 1, told[2]) = patched
  <2>1. \A slot \in 1 .. told[2] : buggy[slot] \in S
    BY <1>5
  <2>2. /\ SubSeq(buggy, 1, told[2]) \in Seq(S)
        /\ Len(SubSeq(buggy, 1, told[2])) = IF 1 <= told[2] THEN told[2] - 1 + 1 ELSE 0
        /\ \A slot \in 1 .. told[2] - 1 + 1 : SubSeq(buggy, 1, told[2])[slot] = buggy[1 + slot - 1]
    <3> HIDE DEF S
    <3> QED BY <1>1, <2>1, SubSeqProperties
  <2>3. Len(SubSeq(buggy, 1, told[2])) = told[2]
    BY <1>1, <2>2
  <2>4. \A slot \in 1 .. told[2] : SubSeq(buggy, 1, told[2])[slot] = patched[slot]
    BY <1>1, <1>5, <2>2
  <2> HIDE DEF S
  <2> QED BY <1>4, <2>2, <2>3, <2>4, SeqEqual
<1> QED BY <1>2, <1>3, <1>4, <1>5, <1>6, <1>7 DEF Buffers!HandlesWritten, buggy, patched

\* Every length the programs are given is treated as is said of it.
THEOREM LengthsHold == Spec => []LengthsSound
<1>1. InputInv => LengthsSound
  <2> SUFFICES ASSUME InputInv PROVE LengthsSound
    OBVIOUS
  <2>0. program \in Pure => input \in Given(program)
    BY DEF InputInv, Running, Pure
  <2> USE <2>0 DEF Pure, Given, LengthsSound
  <2>1. CASE program = "name_length"
    BY <2>1, NameLength
  <2>2. CASE program = "reparse"
    BY <2>2, Reparse
  <2>3. CASE program = "entry"
    BY <2>3, Entry
  <2>4. CASE program = "transfer"
    BY <2>4, Transfers
  <2>5. CASE program = "name"
    <3>1. input \in Seq(Nat) \X Seq(Nat)
      BY <2>5
    <3>2. Buffers!NamesCollide(input[1], input[2])
      BY <3>1, Names
    <3> QED BY <2>5, <3>2
  <2>6. CASE program = "reply"
    BY <2>6, Replies
  <2>7. CASE program = "unicode"
    BY <2>7, Unicode
  <2>8. CASE program = "scratch"
    BY <2>8, Scratch
  <2>9. CASE program = "handles"
    BY <2>9, Handles
  <2> QED BY <2>1, <2>2, <2>3, <2>4, <2>5, <2>6, <2>7, <2>8, <2>9
<1> QED BY <1>1, InputsKept, PTL DEF Spec

-----------------------------------------------------------------------------
\* The threads of 041, 123 and 066.

ListenerPlaces == {"count_stream", "alloc_stream", "count_new", "alloc_new", "store", "close"}

\* The threads that have counted a stream they have not closed, and the rebinds
\* whose listener is counted.
Streaming == {t \in Threads : at[t] # "count_stream"}
Rebound == {e \in Threads \X (1 .. Accepts) :
                \/ e[2] <= accepted[e[1]]
                \/ e[2] = accepted[e[1]] + 1 /\ at[e[1]] \in {"alloc_new", "store", "close"}}

ListenerTypes ==
    /\ at \in [Threads -> ListenerPlaces] /\ accepted \in [Threads -> 0 .. Accepts]
    /\ fd_allocator \in Nat /\ live_fds \in Int /\ listener_fd \in Nat
    /\ new_fd \in [Threads -> Nat] /\ leaked \in Int
    /\ \A t \in Threads : at[t] # "count_stream" => accepted[t] < Accepts

\* LIVE_FDS is the listener, the open streams and every listener rebound so far.
CountInv ==
    IF leaked = -1
    THEN live_fds = 1 + Cardinality(Streaming) + Cardinality(Rebound)
    ELSE /\ leaked = Accepts * Cardinality(Threads)
         /\ \A t \in Threads : accepted[t] = Accepts

\* A descriptor that is about to be stored is no other thread's and was not stored.
HandedInv ==
    /\ listener_fd < fd_allocator
    /\ \A t \in Threads : at[t] = "store" =>
        /\ new_fd[t] < fd_allocator /\ new_fd[t] # listener_fd
        /\ \A u \in Threads \ {t} : at[u] = "store" => new_fd[t] # new_fd[u]

ListenerInv == ListenerTypes /\ CountInv /\ HandedInv

\* What is counted can be.
LEMMA CountedFinite ==
    ASSUME ListenerTypes
    PROVE  /\ IsFiniteSet(Streaming) /\ IsFiniteSet(Rebound)
           /\ Cardinality(Streaming) \in Nat /\ Cardinality(Rebound) \in Nat
<1>1. IsFiniteSet(1 .. Accepts)
  BY SuiteAssumption, FS_Interval
<1>2. IsFiniteSet(Threads \X (1 .. Accepts))
  BY <1>1, SuiteAssumption, FS_Product
<1>3. Streaming \subseteq Threads /\ Rebound \subseteq Threads \X (1 .. Accepts)
  BY DEF Streaming, Rebound
<1>4. IsFiniteSet(Streaming) /\ IsFiniteSet(Rebound)
  BY <1>2, <1>3, SuiteAssumption, FS_Subset
<1> QED BY <1>4, FS_CardinalityType

LEMMA CountToAccepts == IsFiniteSet(1 .. Accepts) /\ Cardinality(1 .. Accepts) = Accepts
<1>1. Accepts \in Nat /\ Accepts \in Int /\ 1 \in Int
  BY SuiteAssumption
<1>2. /\ IsFiniteSet(1 .. Accepts)
      /\ Cardinality(1 .. Accepts) = IF 1 > Accepts THEN 0 ELSE Accepts - 1 + 1
  BY <1>1, FS_Interval
<1> QED BY <1>1, <1>2

LEMMA ListenerInit == Listener!Init => ListenerInv
<1> SUFFICES ASSUME Listener!Init PROVE ListenerInv
  OBVIOUS
<1> USE SuiteAssumption DEF Listener!Init
<1>1. ListenerTypes /\ HandedInv
  BY DEF ListenerTypes, ListenerPlaces, HandedInv
<1>2. Streaming = {} /\ Rebound = {}
  BY DEF Streaming, Rebound
<1>3. CountInv
  BY <1>2, FS_EmptySet DEF CountInv
<1> QED BY <1>1, <1>3 DEF ListenerInv

LEMMA ListenerStep == ListenerInv /\ [Listener!Next]_listenerVars => ListenerInv'
<1> SUFFICES ASSUME ListenerInv, [Listener!Next]_listenerVars PROVE ListenerInv'
  OBVIOUS
<1> USE SuiteAssumption DEF ListenerInv
<1>a. /\ IsFiniteSet(Streaming) /\ IsFiniteSet(Rebound)
      /\ Cardinality(Streaming) \in Nat /\ Cardinality(Rebound) \in Nat
  BY CountedFinite
<1>1. ASSUME NEW t \in Threads, Listener!CountStream(t) PROVE ListenerInv'
  <2> USE <1>1 DEF Listener!CountStream, Listener!Goto
  <2>1. ListenerTypes' /\ HandedInv'
    BY DEF ListenerTypes, ListenerPlaces, HandedInv
  <2>2. Streaming' = Streaming \cup {t} /\ t \notin Streaming /\ Rebound' = Rebound
    BY DEF ListenerTypes, Streaming, Rebound
  <2>3. Cardinality(Streaming') = Cardinality(Streaming) + 1
    BY <1>a, <2>2, FS_AddElement
  <2>4. leaked = -1 /\ leaked' = -1 /\ live_fds' = live_fds + 1
    BY DEF CountInv, ListenerTypes
  <2>5. CountInv'
    BY <1>a, <2>2, <2>3, <2>4 DEF CountInv
  <2> QED BY <2>1, <2>5
<1>2. ASSUME NEW t \in Threads, Listener!AllocStream(t) \/ Listener!AllocNew(t) \/ Listener!Store(t)
      PROVE  ListenerInv'
  <2> USE <1>2 DEF Listener!AllocStream, Listener!AllocNew, Listener!Store, Listener!Goto
  <2>1. ListenerTypes'
    BY DEF ListenerTypes, ListenerPlaces
  <2>2. HandedInv'
    BY DEF ListenerTypes, HandedInv
  <2>3. Streaming' = Streaming /\ Rebound' = Rebound
    BY DEF ListenerTypes, Streaming, Rebound
  <2>4. leaked' = leaked /\ live_fds' = live_fds /\ accepted' = accepted
    OBVIOUS
  <2>5. CountInv'
    BY <2>3, <2>4 DEF CountInv
  <2> QED BY <2>1, <2>2, <2>5
<1>3. ASSUME NEW t \in Threads, Listener!CountNew(t) PROVE ListenerInv'
  <2> USE <1>3 DEF Listener!CountNew, Listener!Goto
  <2> DEFINE e == <<t, accepted[t] + 1>>
  <2>1. ListenerTypes' /\ HandedInv'
    BY DEF ListenerTypes, ListenerPlaces, HandedInv
  <2>2. Streaming' = Streaming
    BY DEF ListenerTypes, Streaming
  <2>3. e \in Threads \X (1 .. Accepts) /\ e \notin Rebound
    BY DEF ListenerTypes, Rebound
  <2>4. Rebound' = Rebound \cup {e}
    <3>1. ASSUME NEW f \in Threads \X (1 .. Accepts) PROVE f \in Rebound' <=> f \in Rebound \/ f = e
      BY DEF ListenerTypes, Rebound
    <3> QED BY <2>3, <3>1 DEF Rebound
  <2>5. Cardinality(Rebound') = Cardinality(Rebound) + 1
    BY <1>a, <2>3, <2>4, FS_AddElement
  <2>6. leaked = -1 /\ leaked' = -1 /\ live_fds' = live_fds + 1
    BY DEF CountInv, ListenerTypes
  <2>7. CountInv'
    BY <1>a, <2>2, <2>5, <2>6 DEF CountInv
  <2> QED BY <2>1, <2>7
<1>4. ASSUME NEW t \in Threads, Listener!Close(t) PROVE ListenerInv'
  <2> USE <1>4 DEF Listener!Close, Listener!Goto
  <2>1. ListenerTypes' /\ HandedInv'
    BY DEF ListenerTypes, ListenerPlaces, HandedInv
  <2>2. Streaming' = Streaming \ {t} /\ t \in Streaming
    BY DEF ListenerTypes, Streaming
  <2>3. Rebound' = Rebound
    <3>1. ASSUME NEW f \in Threads \X (1 .. Accepts) PROVE f \in Rebound' <=> f \in Rebound
      BY DEF ListenerTypes, Rebound
    <3> QED BY <3>1 DEF Rebound
  <2>4. Cardinality(Streaming') = Cardinality(Streaming) - 1
    BY <1>a, <2>2, FS_RemoveElement
  <2>5. leaked = -1 /\ leaked' = -1 /\ live_fds' = live_fds - 1
    BY DEF CountInv, ListenerTypes
  <2>6. CountInv'
    BY <1>a, <2>3, <2>4, <2>5 DEF CountInv
  <2> QED BY <2>1, <2>6
<1>5. CASE Listener!Finish
  <2> USE <1>5 DEF Listener!Finish
  <2>1. Streaming = {} /\ Rebound = Threads \X (1 .. Accepts)
    BY DEF ListenerTypes, Streaming, Rebound
  <2>2. Cardinality(Streaming) = 0
    BY <2>1, FS_EmptySet
  <2>3. IsFiniteSet(1 .. Accepts) /\ Cardinality(1 .. Accepts) = Accepts
    BY CountToAccepts
  <2>4. Cardinality(Rebound) = Cardinality(Threads) * Accepts
    BY <2>1, <2>3, FS_Product
  <2>5. Cardinality(Threads) \in Nat
    BY FS_CardinalityType
  <2>6. leaked' = Accepts * Cardinality(Threads) /\ leaked' # -1
    <3> DEFINE c == Cardinality(Threads)
    <3>1. leaked' = c * Accepts /\ c \in Nat
      BY <2>2, <2>4, <2>5 DEF CountInv
    <3> HIDE DEF c
    <3>2. c * Accepts = Accepts * c /\ c * Accepts \in Nat
      BY <3>1
    <3> QED BY <3>1, <3>2 DEF c
  <2>7. ListenerTypes' /\ HandedInv' /\ CountInv'
    BY <2>5, <2>6 DEF ListenerTypes, HandedInv, CountInv
  <2> QED BY <2>7
<1>6. CASE UNCHANGED listenerVars
  BY <1>6 DEF listenerVars, ListenerTypes, CountInv, HandedInv, Streaming, Rebound
<1> QED BY <1>1, <1>2, <1>3, <1>4, <1>5, <1>6 DEF Listener!Next

\* 123: main() has the write end open while it reads, so that a read which
\* returns was interrupted.
ReadInv ==
    /\ reader \in {"called", "blocked", "returned"} => write_end
    /\ result # "Ok"

LEMMA ReadStep ==
    /\ Read!Init => ReadInv
    /\ ReadInv /\ [Read!Next]_readVars => ReadInv'
<1>1. Read!Init => ReadInv
  BY DEF Read!Init, ReadInv
<1>2. ReadInv /\ [Read!Next]_readVars => ReadInv'
  BY DEF ReadInv, readVars, Read!Next, Read!MainStep, Read!OtherStep, Read!Setup, Read!Block,
         Read!Kill, Read!Handle, Read!Return, Read!Finish
<1> QED BY <1>1, <1>2

\* 066: what main() has seen is inheritable until it tells so.
InheritInv ==
    /\ observed = IF cloner = "create" THEN 0
                  ELSE Inherit!wsasocketw_mock(Inherit!WSA_FLAG_OVERLAPPED)
    /\ cloner = "published" => inheritable
    /\ cloner = "cleared" => ~inheritable
    /\ child_spawned <=> observer \in {"told", "joined"}
    /\ cloner = "cleared" => child_spawned
    /\ observer # "poll" => view
    /\ observer = "viewed" => cloner = "published"
    /\ observer = "joined" => cloner = "cleared"
    /\ cloner \in {"create", "published", "cleared"}
    /\ observer \in {"poll", "viewed", "told", "joined"}

LEMMA InheritStep ==
    /\ Inherit!Init => InheritInv
    /\ InheritInv /\ [Inherit!Next]_inheritVars => InheritInv'
<1>1. Inherit!Init => InheritInv
  BY DEF Inherit!Init, InheritInv
<1>2. InheritInv /\ [Inherit!Next]_inheritVars => InheritInv'
  <2> SUFFICES ASSUME InheritInv, [Inherit!Next]_inheritVars PROVE InheritInv'
    OBVIOUS
  <2> USE DEF InheritInv, Inherit!wsasocketw_mock, Inherit!WSA_FLAG_OVERLAPPED
  <2>1. CASE Inherit!View
    <3>1. observed = 4097
      BY <2>1 DEF Inherit!View
    <3>2. (observed \div Inherit!WSA_FLAG_NO_HANDLE_INHERIT) % 2 = 0
      BY <3>1 DEF Inherit!WSA_FLAG_NO_HANDLE_INHERIT
    <3>3. view'
      BY <2>1, <3>2, Zenon DEF Inherit!View
    <3> QED BY <2>1, <3>3 DEF Inherit!View
  <2>2. CASE Inherit!Publish \/ Inherit!Clear \/ Inherit!StoreSpawned \/ Inherit!Join
    BY <2>2 DEF Inherit!Publish, Inherit!Clear, Inherit!StoreSpawned, Inherit!Join
  <2>3. CASE UNCHANGED inheritVars
    BY <2>3 DEF inheritVars
  <2> QED BY <2>1, <2>2, <2>3 DEF Inherit!Next, Inherit!MainStep, Inherit!OtherStep
<1> QED BY <1>1, <1>2

\* With any number of threads and of accepts every accept leaks a listener; what
\* the other two programs say is so in every schedule.
THEOREM ThreadVerdictsHold == Spec => []ThreadVerdicts
<1> DEFINE Inv == ListenerInv /\ ReadInv /\ InheritInv
<1>1. Init => Inv
  BY ListenerInit, ReadStep, InheritStep DEF Init
<1>2. Inv /\ [Next]_vars => Inv'
  BY ListenerStep, ReadStep, InheritStep, Parts
<1>3. Inv => ThreadVerdicts
  BY DEF ListenerInv, CountInv, HandedInv, ReadInv, InheritInv, ThreadVerdicts,
         Listener!LeakIsExact, Listener!HandedOutOnce, Read!EofNeverSeen, Inherit!ViewInsideWindow
<1> QED BY <1>1, <1>2, <1>3, PTL DEF Spec

-----------------------------------------------------------------------------
\* The descriptors of 025, 026 and 122.

\* The descriptors beyond those inherited, and those of the scan that are free.
Extra == DOMAIN table \ inherited
Scan == 3 .. ScanEnd - 1
Unseen == Scan \ DOMAIN table
TwoFree == Cardinality(Scan \ inherited) >= 2

FdTypes ==
    /\ task \in {"none", "spawn", "restore", "read_file"}
    /\ 0 .. 2 \subseteq inherited /\ inherited \subseteq DOMAIN table
    /\ DOMAIN table \subseteq Fds!Fds
    /\ rounds \in Nat
    /\ task = "none" => step = "start" /\ leaks = {} /\ rounds = 0 /\ counted = -1

\* The copy of stdin is kept aside, and the one of the faux spawn stays open.
SavedKept == saved \in Extra /\ table[saved] = "inherited"
OrigOpen == orig \in DOMAIN table /\ orig # saved

\* 025: each of its calls has opened one descriptor more.
SpawnInv ==
    task = "spawn" =>
        /\ step \in {"start", "opened", "saved", "spawned", "probed", "triggered", "panicked"}
        /\ step \in {"start", "opened", "saved"} => table[0] = "inherited"
        /\ step = "start" => Cardinality(Extra) = 0
        /\ step = "opened" => Cardinality(Extra) = 1
        /\ step = "saved" => Cardinality(Extra) = 2 /\ SavedKept
        /\ step = "spawned" =>
            /\ SavedKept
            /\ \/ Fds!Free = {}
               \/ Cardinality(Extra) = 3 /\ OrigOpen /\ table[0] = "redirect"
        /\ step = "probed" =>
            Cardinality(Extra) = 4 /\ SavedKept /\ OrigOpen /\ observed_in = "redirect"
        /\ step = "triggered" =>
            /\ table[0] = "inherited" /\ saved \notin DOMAIN table /\ orig \in DOMAIN table
            /\ Cardinality(Fds!Fds \ inherited) >= 4

\* 026: every round leaks a descriptor until the table is full.
RestoreInv ==
    task = "restore" =>
        /\ step \in {"start", "triggered", "unexpected"}
        /\ leaks \subseteq Fds!Fds \ inherited
        /\ step = "start" =>
            /\ DOMAIN table = inherited \cup leaks /\ rounds <= Rounds
            /\ Cardinality(leaks) <= rounds
            /\ Cardinality(leaks) = rounds \/ Fds!Free = {}
        /\ step # "start" =>
            IF Cardinality(Fds!Fds \ inherited) >= Rounds
            THEN step = "triggered" /\ DOMAIN table = inherited
            ELSE step = "unexpected"

\* 122: the first call takes one descriptor of the scan, if one is free; of the
\* other calls one does, if two were.
ScanInv ==
    task = "read_file" =>
        /\ step \in {"start", "triggered", "panicked"} /\ counted \in Int
        /\ step = "start" /\ rounds = 0 => DOMAIN table = inherited /\ counted = -1
        /\ step = "start" /\ rounds = 1 =>
            /\ Unseen = {} <=> ~TwoFree
            /\ counted \in {-1, Cardinality(DOMAIN table \cap Scan)}
        /\ step = "start" /\ rounds >= 2 =>
            IF TwoFree THEN Cardinality(DOMAIN table \cap Scan) > counted
            ELSE Unseen = {} /\ Cardinality(DOMAIN table \cap Scan) = counted
        /\ step # "start" => (step = "triggered" <=> TwoFree)

FdInv == FdTypes /\ SpawnInv /\ RestoreInv /\ ScanInv

LEMMA FdsFinite ==
    /\ Fds!Fds \subseteq Nat /\ IsFiniteSet(Fds!Fds) /\ IsFiniteSet(Scan)
    /\ Scan \subseteq Fds!Fds
    /\ \A S : S \subseteq Fds!Fds => IsFiniteSet(S) /\ Cardinality(S) \in Nat
<1>1. TableSize - 1 \in Int /\ ScanEnd - 1 \in Int /\ 0 \in Int /\ 3 \in Int
  BY DescriptorsAssumption
<1>2. IsFiniteSet(0 .. TableSize - 1) /\ IsFiniteSet(3 .. ScanEnd - 1)
  BY <1>1, FS_Interval
<1>3. Scan \subseteq Fds!Fds /\ Fds!Fds \subseteq Nat
  BY DescriptorsAssumption DEF Scan, Fds!Fds
<1> QED BY <1>2, <1>3, FS_Subset, FS_CardinalityType DEF Fds!Fds, Scan

\* What a call that makes a descriptor does with the table.
LowestFree == Fds!Lowest(Fds!Free)

LEMMA OpenedOne ==
    ASSUME FdTypes, Fds!Free # {}, NEW file
    PROVE  /\ LowestFree \in Fds!Fds \ DOMAIN table /\ LowestFree # 0
           /\ \A other \in Fds!Free : LowestFree <= other
           /\ DOMAIN Fds!Opened(file) = DOMAIN table \cup {LowestFree}
           /\ DOMAIN Fds!Opened(file) \subseteq Fds!Fds
           /\ inherited \subseteq DOMAIN Fds!Opened(file)
           /\ \A fd \in DOMAIN table : Fds!Opened(file)[fd] = table[fd]
           /\ Fds!Opened(file)[LowestFree] = file
           /\ LowestFree \in DOMAIN Fds!Opened(file) \ inherited
           /\ Cardinality(DOMAIN Fds!Opened(file) \ inherited) = Cardinality(Extra) + 1
<1> DEFINE new == LowestFree next == Fds!Opened(file)
<1>1. Fds!Free \in SUBSET Nat /\ Fds!Free \subseteq Fds!Fds
  BY FdsFinite DEF Fds!Free
<1>2. new \in Fds!Free /\ \A other \in Fds!Free : new <= other
  BY <1>1, LowestIs DEF LowestFree
<1>3. /\ DOMAIN next = DOMAIN table \cup {new}
      /\ \A fd \in DOMAIN table \cup {new} : next[fd] = IF fd \in DOMAIN table THEN table[fd] ELSE file
  BY DEF Fds!Opened, LowestFree
<1>4. /\ new \notin DOMAIN table /\ new \in Fds!Fds /\ inherited \subseteq DOMAIN table
      /\ DOMAIN table \subseteq Fds!Fds /\ 0 \in inherited
  BY <1>1, <1>2 DEF Fds!Free, FdTypes
<1> HIDE DEF new, next
<1>5. DOMAIN next \ inherited = Extra \cup {new} /\ new \notin Extra
  BY <1>3, <1>4 DEF Extra
<1>6. IsFiniteSet(Extra)
  BY <1>4, FdsFinite DEF Extra
<1>7. Cardinality(DOMAIN next \ inherited) = Cardinality(Extra) + 1
  BY <1>5, <1>6, FS_AddElement
<1>8. /\ new # 0 /\ inherited \subseteq DOMAIN next /\ DOMAIN next \subseteq Fds!Fds
      /\ new \in DOMAIN next \ inherited
      /\ next[new] = file /\ \A fd \in DOMAIN table : next[fd] = table[fd]
  BY <1>3, <1>4
<1> QED BY <1>2, <1>3, <1>4, <1>7, <1>8 DEF new, next

LEMMA FdInit == Fds!Init => FdInv
<1> SUFFICES ASSUME Fds!Init PROVE FdInv
  OBVIOUS
<1> USE DescriptorsAssumption DEF Fds!Init
<1>1. DOMAIN table = 0 .. 2
  OBVIOUS
<1>2. FdTypes
  BY <1>1 DEF FdTypes, Fds!Fds
<1> QED BY <1>2 DEF FdInv, SpawnInv, RestoreInv, ScanInv

\* exec leaves the table as the process inherits it.
LEMMA ExecStep == FdInv /\ Fds!Exec => FdInv'
<1> SUFFICES ASSUME FdInv, Fds!Exec PROVE FdInv'
  OBVIOUS
<1> USE DescriptorsAssumption DEF FdInv, Fds!Exec
<1>1. /\ task' \in {"spawn", "restore", "read_file"} /\ step' = "start" /\ rounds' = 0
      /\ leaks' = {} /\ counted' = -1
      /\ 0 .. 2 \subseteq inherited' /\ inherited' \subseteq Fds!Fds
      /\ table' = [fd \in inherited' |-> "inherited"]
  BY DEF FdTypes, Fds!Fds
<1>2. DOMAIN table' = inherited' /\ table'[0] = "inherited"
  BY <1>1
<1>3. FdTypes'
  BY <1>1, <1>2 DEF FdTypes, Fds!Fds
<1>4. Extra' = {}
  BY <1>2 DEF Extra
<1>5. Cardinality({}) = 0
  BY FS_EmptySet
<1>6. SpawnInv'
  BY <1>1, <1>2, <1>4, <1>5 DEF SpawnInv
<1>7. RestoreInv'
  BY <1>1, <1>2, <1>5 DEF RestoreInv
<1>8. ScanInv'
  BY <1>1, <1>2 DEF ScanInv
<1> QED BY <1>3, <1>6, <1>7, <1>8

\* 025.
LEMMA SpawnStep ==
    /\ FdInv
    /\ Fds!OpenRedirect \/ Fds!SaveStdin \/ Fds!FauxSpawn \/ Fds!Probe \/ Fds!Restore
    => FdInv'
<1> SUFFICES ASSUME FdInv, task = "spawn", task' = "spawn", inherited' = inherited,
                    rounds' = rounds,
                    Fds!OpenRedirect \/ Fds!SaveStdin \/ Fds!FauxSpawn \/ Fds!Probe \/ Fds!Restore
             PROVE  FdInv'
  BY DEF Fds!OpenRedirect, Fds!SaveStdin, Fds!FauxSpawn, Fds!Probe, Fds!Restore
<1> USE DEF FdInv
<1>1. RestoreInv' /\ ScanInv'
  BY DEF RestoreInv, ScanInv
<1>2. 0 \in inherited /\ 0 \in DOMAIN table /\ inherited \subseteq DOMAIN table
  BY DEF FdTypes
<1>3. SUFFICES FdTypes' /\ SpawnInv'
  BY <1>1
<1>4. FdTypes
  OBVIOUS
<1>5. CASE Fds!OpenRedirect
  <2>1. CASE Fds!Free = {}
    BY <1>5, <2>1 DEF Fds!OpenRedirect, FdTypes, SpawnInv
  <2>2. CASE Fds!Free # {}
    <3> DEFINE next == Fds!Opened("redirect")
    <3>1. table' = next /\ step = "start" /\ step' = "opened"
      BY <1>5, <2>2 DEF Fds!OpenRedirect
    <3>2. /\ DOMAIN next \subseteq Fds!Fds /\ inherited \subseteq DOMAIN next
          /\ next[0] = table[0]
          /\ Cardinality(DOMAIN next \ inherited) = Cardinality(Extra) + 1
      BY <1>2, <1>4, <2>2, OpenedOne
    <3> HIDE DEF next
    <3>3. Cardinality(Extra') = 1 /\ table'[0] = "inherited"
      BY <3>1, <3>2 DEF SpawnInv, Extra
    <3> QED BY <3>1, <3>2, <3>3 DEF FdTypes, SpawnInv
  <2> QED BY <2>1, <2>2
<1>6. CASE Fds!SaveStdin
  <2>1. CASE Fds!Free = {}
    BY <1>6, <2>1 DEF Fds!SaveStdin, FdTypes, SpawnInv
  <2>2. CASE Fds!Free # {}
    <3> DEFINE next == Fds!Opened(table[0])
    <3>1. table' = next /\ step = "opened" /\ step' = "saved" /\ saved' = LowestFree
      BY <1>6, <2>2 DEF Fds!SaveStdin, LowestFree
    <3>2. /\ DOMAIN next \subseteq Fds!Fds /\ inherited \subseteq DOMAIN next
          /\ next[0] = table[0] /\ next[LowestFree] = table[0] /\ LowestFree \in DOMAIN next \ inherited
          /\ Cardinality(DOMAIN next \ inherited) = Cardinality(Extra) + 1
      BY <1>2, <1>4, <2>2, OpenedOne
    <3> HIDE DEF next
    <3>3. Cardinality(Extra') = 2 /\ table'[0] = "inherited" /\ SavedKept'
      BY <3>1, <3>2 DEF SpawnInv, Extra, SavedKept
    <3> QED BY <3>1, <3>2, <3>3 DEF FdTypes, SpawnInv
  <2> QED BY <2>1, <2>2
<1>7. CASE Fds!FauxSpawn
  <2>1. step = "saved" /\ step' = "spawned" /\ saved' = saved
    BY <1>7 DEF Fds!FauxSpawn
  <2>2. CASE Fds!Free = {}
    <3>1. table' = table
      BY <1>7, <2>2 DEF Fds!FauxSpawn
    <3> QED BY <2>1, <2>2, <3>1 DEF FdTypes, SpawnInv, SavedKept, Extra, Fds!Free
  <2>3. CASE Fds!Free # {}
    <3> DEFINE next == Fds!Opened(table[0])
    <3>1. table' = [next EXCEPT ![0] = "redirect"] /\ orig' = LowestFree
      BY <1>7, <2>3 DEF Fds!FauxSpawn, LowestFree
    <3>2. /\ DOMAIN next \subseteq Fds!Fds /\ inherited \subseteq DOMAIN next
          /\ LowestFree \in DOMAIN next /\ LowestFree \notin DOMAIN table
          /\ \A fd \in DOMAIN table : next[fd] = table[fd]
          /\ DOMAIN next = DOMAIN table \cup {LowestFree}
          /\ Cardinality(DOMAIN next \ inherited) = Cardinality(Extra) + 1
      BY <1>2, <1>4, <2>3, OpenedOne
    <3> HIDE DEF next
    <3>3. DOMAIN table' = DOMAIN next /\ table'[0] = "redirect"
      BY <1>2, <3>1, <3>2
    <3>4. saved \in Extra /\ table[saved] = "inherited" /\ saved \in DOMAIN table /\ saved # 0
      BY <1>2, <2>1 DEF SpawnInv, SavedKept, Extra
    <3>5. SavedKept' /\ OrigOpen'
      BY <2>1, <3>1, <3>2, <3>3, <3>4 DEF SavedKept, OrigOpen, Extra
    <3>6. Cardinality(Extra') = 3
      BY <2>1, <3>2, <3>3 DEF SpawnInv, Extra
    <3> QED BY <2>1, <3>2, <3>3, <3>5, <3>6 DEF FdTypes, SpawnInv
  <2> QED BY <2>2, <2>3
<1>8. CASE Fds!Probe
  <2>1. step = "spawned" /\ saved' = saved /\ orig' = orig
    BY <1>8 DEF Fds!Probe
  <2>2. CASE Fds!Free = {}
    BY <1>8, <2>2 DEF Fds!Probe, FdTypes, SpawnInv
  <2>3. CASE Fds!Free # {}
    <3> DEFINE next == Fds!Opened(table[0])
    <3>1. table' = next /\ step' = "probed" /\ observed_in' = table[0]
      BY <1>8, <2>3 DEF Fds!Probe
    <3>2. /\ DOMAIN next \subseteq Fds!Fds /\ inherited \subseteq DOMAIN next
          /\ \A fd \in DOMAIN table : next[fd] = table[fd]
          /\ DOMAIN next = DOMAIN table \cup {LowestFree}
          /\ Cardinality(DOMAIN next \ inherited) = Cardinality(Extra) + 1
      BY <1>2, <1>4, <2>3, OpenedOne
    <3> HIDE DEF next
    <3>3. SavedKept /\ Cardinality(Extra) = 3 /\ OrigOpen /\ table[0] = "redirect"
      BY <2>1, <2>3 DEF SpawnInv
    <3>4. SavedKept' /\ OrigOpen'
      BY <2>1, <3>1, <3>2, <3>3 DEF SavedKept, OrigOpen, Extra
    <3>5. Cardinality(Extra') = 4
      BY <3>1, <3>2, <3>3 DEF Extra
    <3> QED BY <3>1, <3>2, <3>3, <3>4, <3>5 DEF FdTypes, SpawnInv
  <2> QED BY <2>2, <2>3
<1>9. CASE Fds!Restore
  <2>1. /\ step = "probed" /\ saved' = saved /\ orig' = orig
        /\ step' = IF observed_in = "redirect" THEN "triggered" ELSE "unexpected"
        /\ table' = [Fds!Closed({saved}) EXCEPT ![0] = table[saved]]
    BY <1>9 DEF Fds!Restore
  <2>2. SavedKept /\ Cardinality(Extra) = 4 /\ OrigOpen /\ observed_in = "redirect"
    BY <2>1 DEF SpawnInv
  <2>3. saved \notin inherited /\ saved # 0 /\ table[saved] = "inherited"
    BY <1>2, <2>2 DEF SavedKept, Extra
  <2>4. DOMAIN table' = DOMAIN table \ {saved} /\ table'[0] = "inherited"
    BY <1>2, <2>1, <2>3 DEF Fds!Closed
  <2>5. Cardinality(Fds!Fds \ inherited) >= 4
    <3>1. Extra \subseteq Fds!Fds \ inherited
      BY DEF Extra, FdTypes
    <3>2. IsFiniteSet(Fds!Fds \ inherited) /\ Cardinality(Fds!Fds \ inherited) \in Nat
      BY FdsFinite
    <3>3. Cardinality(Extra) <= Cardinality(Fds!Fds \ inherited)
      BY <3>1, <3>2, FS_Subset
    <3> QED BY <2>2, <3>2, <3>3
  <2> QED BY <2>1, <2>2, <2>3, <2>4, <2>5 DEF FdTypes, SpawnInv, OrigOpen
<1> QED BY <1>5, <1>6, <1>7, <1>8, <1>9

\* 026.
LEMMA RestoreStep == FdInv /\ (Fds!RestoreRound \/ Fds!CloseLeaks) => FdInv'
<1> SUFFICES ASSUME FdInv, task = "restore", task' = "restore", inherited' = inherited,
                    step = "start", Fds!RestoreRound \/ Fds!CloseLeaks
             PROVE  FdInv'
  BY DEF Fds!RestoreRound, Fds!CloseLeaks
<1> USE DescriptorsAssumption DEF FdInv
<1>1. SpawnInv' /\ ScanInv'
  BY DEF SpawnInv, ScanInv
<1>2. /\ inherited \subseteq Fds!Fds /\ 0 .. 2 \subseteq inherited /\ rounds \in Nat
      /\ leaks \subseteq Fds!Fds \ inherited /\ DOMAIN table = inherited \cup leaks
      /\ rounds <= Rounds /\ Cardinality(leaks) <= rounds
      /\ Cardinality(leaks) = rounds \/ Fds!Free = {}
  BY DEF FdTypes, RestoreInv
<1>3. IsFiniteSet(leaks) /\ Cardinality(leaks) \in Nat
  BY <1>2, FdsFinite
<1>4. CASE Fds!RestoreRound
  <2>1. rounds' = rounds + 1 /\ rounds < Rounds /\ step' = "start"
    BY <1>4 DEF Fds!RestoreRound
  <2>2. CASE Fds!Free = {}
    <3>1. UNCHANGED <<table, leaks>>
      BY <1>4, <2>2 DEF Fds!RestoreRound
    <3> QED BY <1>1, <1>2, <1>3, <2>1, <2>2, <3>1 DEF FdTypes, RestoreInv, Fds!Free
  <2>3. CASE Fds!Free # {}
    <3> DEFINE next == Fds!Opened(table[0])
    <3>1. table' = next /\ leaks' = leaks \cup {LowestFree}
      BY <1>4, <2>3 DEF Fds!RestoreRound, LowestFree
    <3>2. /\ LowestFree \in Fds!Fds \ DOMAIN table
          /\ DOMAIN next = DOMAIN table \cup {LowestFree}
      BY <2>3, OpenedOne
    <3> HIDE DEF next
    <3>3. LowestFree \notin leaks /\ LowestFree \notin inherited
      BY <1>2, <3>2
    <3>4. Cardinality(leaks') = Cardinality(leaks) + 1
      BY <1>3, <3>1, <3>3, FS_AddElement
    <3>5. Cardinality(leaks') = rounds'
      BY <1>2, <2>1, <2>3, <3>4
    <3>6. /\ DOMAIN table' = inherited \cup leaks'
          /\ leaks' \subseteq Fds!Fds \ inherited
      BY <1>2, <3>1, <3>2, <3>3
    <3>7. RestoreInv'
      BY <1>2, <2>1, <3>5, <3>6 DEF RestoreInv
    <3>8. FdTypes'
      BY <1>2, <2>1, <3>6 DEF FdTypes
    <3> QED BY <1>1, <3>7, <3>8
  <2> QED BY <2>2, <2>3
<1>5. CASE Fds!CloseLeaks
  <2>1. /\ UNCHANGED <<leaks, rounds>> /\ rounds = Rounds
        /\ IF Fds!Cardinality(leaks) = Rounds /\ \A fd \in leaks : fd > 2
           THEN step' = "triggered" /\ table' = Fds!Closed(leaks)
           ELSE step' = "unexpected" /\ UNCHANGED table
    BY <1>5 DEF Fds!CloseLeaks
  <2>2. \A fd \in leaks : fd > 2
    BY <1>2, FdsFinite
  <2>3. Fds!Cardinality(leaks) = Cardinality(leaks)
    BY SameCardinality
  <2>4. DOMAIN Fds!Closed(leaks) = inherited
    BY <1>2 DEF Fds!Closed
  <2>5. Cardinality(Fds!Fds \ inherited) >= Rounds <=> Cardinality(leaks) = Rounds
    <3>1. IsFiniteSet(Fds!Fds \ inherited) /\ Cardinality(Fds!Fds \ inherited) \in Nat
      BY FdsFinite
    <3>2. Cardinality(leaks) <= Cardinality(Fds!Fds \ inherited)
      BY <1>2, <3>1, FS_Subset
    <3>3. Fds!Free = {} => leaks = Fds!Fds \ inherited
      BY <1>2 DEF Fds!Free
    <3> QED BY <1>2, <1>3, <2>1, <3>1, <3>2, <3>3
  <2>6. CASE Cardinality(leaks) = Rounds
    <3>1. step' = "triggered" /\ DOMAIN table' = inherited
      BY <2>1, <2>2, <2>3, <2>4, <2>6
    <3> QED BY <1>1, <1>2, <2>1, <2>5, <2>6, <3>1 DEF FdTypes, RestoreInv
  <2>7. CASE Cardinality(leaks) # Rounds
    <3>1. step' = "unexpected" /\ table' = table
      BY <2>1, <2>3, <2>7
    <3> QED BY <1>1, <1>2, <2>1, <2>5, <2>7, <3>1 DEF FdTypes, RestoreInv
  <2> QED BY <2>6, <2>7
<1> QED BY <1>4, <1>5

\* A descriptor is taken from the scan as long as one of it is free.
LEMMA ScanOnce ==
    ASSUME FdTypes, Fds!Free # {}, NEW next, DOMAIN next = DOMAIN table \cup {LowestFree}
    PROVE  /\ Unseen = {} => /\ Scan \ DOMAIN next = {}
                             /\ DOMAIN next \cap Scan = DOMAIN table \cap Scan
           /\ Unseen # {} => /\ LowestFree \in Unseen
                             /\ Scan \ DOMAIN next = Unseen \ {LowestFree}
                             /\ Cardinality(DOMAIN next \cap Scan)
                                    = Cardinality(DOMAIN table \cap Scan) + 1
<1>1. /\ LowestFree \in Fds!Fds \ DOMAIN table
      /\ \A other \in Fds!Free : LowestFree <= other
  BY OpenedOne
<1>2. CASE Unseen = {}
  BY <1>1, <1>2 DEF Unseen
<1>3. CASE Unseen # {}
  <2>1. PICK fd \in Scan : fd \in Fds!Free
    BY <1>3, FdsFinite DEF Unseen, Fds!Free
  <2>2. LowestFree \in Nat /\ LowestFree <= fd /\ LowestFree \notin 0 .. 2
    BY <1>1, <2>1, FdsFinite DEF FdTypes
  <2>3. LowestFree \in Scan
    BY <2>1, <2>2, DescriptorsAssumption DEF Scan
  <2>4. LowestFree \in Unseen /\ Scan \ DOMAIN next = Unseen \ {LowestFree}
    BY <1>1, <2>3 DEF Unseen
  <2>5. DOMAIN next \cap Scan = (DOMAIN table \cap Scan) \cup {LowestFree}
    BY <2>3
  <2>6. LowestFree \notin DOMAIN table \cap Scan /\ IsFiniteSet(DOMAIN table \cap Scan)
    BY <1>1, FdsFinite
  <2>7. Cardinality(DOMAIN next \cap Scan) = Cardinality(DOMAIN table \cap Scan) + 1
    BY <2>5, <2>6, FS_AddElement
  <2> QED BY <1>3, <2>4, <2>7
<1> QED BY <1>2, <1>3

\* 122.
LEMMA ScanStep == FdInv /\ (Fds!ReadFile \/ Fds!Count \/ Fds!CountAgain) => FdInv'
<1> SUFFICES ASSUME FdInv, task = "read_file", task' = "read_file", inherited' = inherited,
                    step = "start", Fds!ReadFile \/ Fds!Count \/ Fds!CountAgain
             PROVE  FdInv'
  BY DEF Fds!ReadFile, Fds!Count, Fds!CountAgain
<1> USE DescriptorsAssumption DEF FdInv
<1> DEFINE seen == Cardinality(DOMAIN table \cap Scan)
<1>1. SpawnInv' /\ RestoreInv'
  BY DEF SpawnInv, RestoreInv
<1>2. /\ DOMAIN table \subseteq Fds!Fds /\ inherited \subseteq DOMAIN table
      /\ 0 .. 2 \subseteq inherited /\ rounds \in Nat /\ counted \in Int
  BY DEF FdTypes, ScanInv
<1>3. seen \in Nat /\ Fds!Scanned = seen
  BY <1>2, FdsFinite, SameCardinality DEF Fds!Scanned, Scan
<1>4. TwoFree' <=> TwoFree
  BY DEF TwoFree, Scan
<1>5. CASE Fds!ReadFile
  <2>1. counted' = counted /\ rounds' = rounds + 1 /\ (rounds = 0 \/ counted # -1)
    BY <1>5 DEF Fds!ReadFile
  <2>2. CASE Fds!Free = {}
    <3>1. table' = table /\ step' = IF rounds = 0 THEN "panicked" ELSE step
      BY <1>5, <2>2 DEF Fds!ReadFile
    <3>2. Unseen = {} /\ Unseen' = {}
      BY <2>2, <3>1, FdsFinite DEF Unseen, Scan, Fds!Free
    <3>3. rounds = 0 => ~TwoFree
      <4> SUFFICES ASSUME rounds = 0 PROVE ~TwoFree
        OBVIOUS
      <4>1. Scan \ inherited = {}
        BY <3>2 DEF ScanInv, Unseen
      <4> QED BY <4>1, FS_EmptySet DEF TwoFree
    <3>4. ScanInv'
      <4>1. CASE rounds = 0
        BY <1>2, <1>4, <2>1, <3>1, <3>3, <4>1 DEF ScanInv
      <4>2. CASE rounds # 0
        BY <1>2, <1>3, <1>4, <2>1, <3>1, <3>2, <4>2 DEF ScanInv, Scan
      <4> QED BY <4>1, <4>2
    <3>5. FdTypes'
      BY <1>2, <2>1, <3>1 DEF FdTypes
    <3> QED BY <1>1, <3>4, <3>5
  <2>3. CASE Fds!Free # {}
    <3> DEFINE next == Fds!Opened("file")
    <3>1. table' = next /\ step' = "start"
      BY <1>5, <2>3 DEF Fds!ReadFile
    <3>2. /\ DOMAIN next = DOMAIN table \cup {LowestFree} /\ LowestFree \in Fds!Fds
      BY <2>3, OpenedOne
    <3> HIDE DEF next
    <3>3. /\ Unseen = {} => /\ Scan \ DOMAIN next = {}
                            /\ DOMAIN next \cap Scan = DOMAIN table \cap Scan
          /\ Unseen # {} => /\ LowestFree \in Unseen
                            /\ Scan \ DOMAIN next = Unseen \ {LowestFree}
                            /\ Cardinality(DOMAIN next \cap Scan) = seen + 1
      BY <2>3, <3>2, ScanOnce
    <3>4. Unseen' = Scan \ DOMAIN next /\ Scan' = Scan
      BY <3>1 DEF Unseen, Scan
    <3>a. /\ Unseen = {} => Cardinality(DOMAIN next \cap Scan) = seen
          /\ Cardinality(DOMAIN next \cap Scan) >= seen
      <4>1. CASE Unseen = {}
        <5>1. DOMAIN next \cap Scan = DOMAIN table \cap Scan
          BY <3>3, <4>1
        <5>2. Cardinality(DOMAIN next \cap Scan) = seen
          BY <5>1
        <5> QED BY <1>3, <5>2
      <4>2. CASE Unseen # {}
        <5>1. Cardinality(DOMAIN next \cap Scan) = seen + 1
          BY <3>3, <4>2
        <5> HIDE DEF seen
        <5> QED BY <1>3, <4>2, <5>1
      <4> QED BY <4>1, <4>2
    <3>5. FdTypes'
      BY <1>2, <2>1, <3>1, <3>2 DEF FdTypes
    <3>6. CASE rounds = 0
      <4>1. DOMAIN table = inherited /\ counted = -1
        BY <3>6 DEF ScanInv
      <4>2. Unseen = Scan \ inherited /\ IsFiniteSet(Unseen)
        BY <4>1, FdsFinite DEF Unseen
      <4>3. Unseen' = {} <=> ~TwoFree
        <5>1. CASE Unseen = {}
          BY <3>3, <3>4, <4>2, <5>1, FS_EmptySet DEF TwoFree
        <5>2. CASE Unseen # {}
          <6>1. Unseen' = Unseen \ {LowestFree} /\ LowestFree \in Unseen
            BY <3>3, <3>4, <5>2
          <6>2. IsFiniteSet(Unseen') /\ Cardinality(Unseen') = Cardinality(Unseen) - 1
            BY <4>2, <6>1, FS_RemoveElement
          <6>3. Unseen' = {} <=> Cardinality(Unseen') = 0
            BY <6>2, FS_EmptySet
          <6>4. Cardinality(Unseen') \in Nat /\ Cardinality(Unseen) \in Nat
            BY <4>2, <6>2, FS_CardinalityType
          <6> QED BY <4>2, <6>2, <6>3, <6>4 DEF TwoFree
        <5> QED BY <5>1, <5>2
      <4>4. rounds' = 1 /\ counted' = -1
        BY <2>1, <3>6, <4>1
      <4>5. ScanInv'
        BY <1>4, <3>1, <4>3, <4>4 DEF ScanInv
      <4> QED BY <1>1, <3>5, <4>5
    <3>7. CASE rounds # 0
      <4>1. rounds' >= 2 /\ rounds >= 1
        BY <1>2, <2>1, <3>7
      <4>2. /\ TwoFree => Cardinality(DOMAIN next \cap Scan) > counted
            /\ ~TwoFree => /\ Scan \ DOMAIN next = {}
                           /\ Cardinality(DOMAIN next \cap Scan) = counted
        <5>1. CASE rounds = 1
          <6>1. (Unseen = {} <=> ~TwoFree) /\ counted = seen
            BY <2>1, <5>1 DEF ScanInv
          <6> HIDE DEF seen
          <6> QED BY <1>2, <1>3, <3>3, <3>a, <6>1
        <5>2. CASE rounds >= 2
          <6>1. IF TwoFree THEN seen > counted ELSE Unseen = {} /\ seen = counted
            BY <5>2 DEF ScanInv
          <6> HIDE DEF seen
          <6> QED BY <1>2, <1>3, <3>3, <3>a, <6>1
        <5> QED BY <1>2, <4>1, <5>1, <5>2
      <4>3. ScanInv'
        BY <1>2, <1>4, <2>1, <3>1, <3>4, <4>1, <4>2 DEF ScanInv
      <4> QED BY <1>1, <3>5, <4>3
    <3> QED BY <3>6, <3>7
  <2> QED BY <2>2, <2>3
<1>6. CASE Fds!Count
  <2>1. /\ counted' = seen /\ rounds = 1
        /\ UNCHANGED <<step, table, leaks, rounds>>
    BY <1>3, <1>6 DEF Fds!Count
  <2>2. FdTypes'
    BY <1>2, <2>1 DEF FdTypes
  <2>3. Unseen' = Unseen /\ Scan' = Scan
    BY <2>1 DEF Unseen, Scan
  <2>4. ScanInv'
    BY <1>3, <1>4, <2>1, <2>3 DEF ScanInv
  <2> QED BY <1>1, <2>2, <2>4
<1>7. CASE Fds!CountAgain
  <2>1. /\ step' = (IF seen > counted THEN "triggered" ELSE "panicked")
        /\ rounds = 3 /\ UNCHANGED <<table, rounds, counted>>
    BY <1>3, <1>7 DEF Fds!CountAgain
  <2>2. FdTypes'
    BY <1>2, <2>1 DEF FdTypes
  <2>3. TwoFree <=> seen > counted
    BY <1>2, <1>3, <2>1 DEF ScanInv
  <2>4. ScanInv'
    BY <1>2, <1>4, <2>1, <2>3 DEF ScanInv
  <2> QED BY <1>1, <2>2, <2>4
<1> QED BY <1>5, <1>6, <1>7

LEMMA FdStep == FdInv /\ [Fds!Next]_fdVars => FdInv'
<1> SUFFICES ASSUME FdInv, UNCHANGED fdVars PROVE FdInv'
  BY ExecStep, SpawnStep, RestoreStep, ScanStep DEF Fds!Next
<1> USE DEF fdVars
<1>1. FdTypes'
  BY DEF FdInv, FdTypes
<1>2. SpawnInv'
  BY DEF FdInv, SpawnInv, SavedKept, OrigOpen, Extra, Fds!Free
<1>3. RestoreInv'
  BY DEF FdInv, RestoreInv, Fds!Free
<1>4. ScanInv'
  BY DEF FdInv, ScanInv, Unseen, TwoFree, Scan
<1> QED BY <1>1, <1>2, <1>3, <1>4 DEF FdInv

-----------------------------------------------------------------------------
\* What 030, 031, 032 and 010 open, close and lose.

LedgerTypes ==
    /\ opens \in Nat /\ calls \in Nat
    /\ closes \in [1 .. opens -> Nat]
    /\ owned \subseteq {h \in 1 .. opens : closes[h] = 0}
    /\ \A h \in 1 .. opens : closes[h] <= 1

\* Nothing is owned but the child that 030 has open; a mkdir and the unpatched
\* get_stack close nothing, the patched one the last mapping alone.
LedgerInv ==
    /\ LedgerTypes
    /\ ledger = "none" => phase = "start" /\ opens = 0 /\ owned = {} /\ calls = 0
    /\ ledger = "from_path" =>
        /\ phase = "start" => opens = 0 /\ owned = {}
        /\ phase = "open" => opens = 2 /\ owned = {2} /\ closes[1] = 0 /\ closes[2] = 0
        /\ phase \notin {"start", "open"} =>
            opens = 2 /\ owned = {} /\ closes[1] = 0 /\ closes[2] = 1
    /\ ledger \in {"mkdir_exists", "mkdir_create"} =>
        owned = {} /\ opens = calls /\ \A h \in 1 .. opens : closes[h] = 0
    /\ ledger = "get_stack" =>
        /\ owned = {}
        /\ phase = "start" => opens = 0
        /\ phase = "buggy" => opens = calls /\ \A h \in 1 .. opens : closes[h] = 0
        /\ phase = "patched" =>
            /\ opens = calls \/ (opens = calls + 1 /\ closes[opens] = 1)
            /\ \A h \in 1 .. calls : closes[h] = 0
    /\ ledger \in {"none", "from_path", "mkdir_exists", "mkdir_create", "get_stack"}
    /\ phase = "patched" => ledger = "get_stack"

LEMMA LedgerStep ==
    /\ Owners!Init => LedgerInv
    /\ LedgerInv /\ [Owners!Next]_ownerVars => LedgerInv'
<1>1. Owners!Init => LedgerInv
  <2>1. 1 .. 0 = {} /\ DOMAIN <<>> = {}
    OBVIOUS
  <2>2. <<>> \in [1 .. 0 -> Nat]
    BY <2>1
  <2> QED BY <2>1, <2>2 DEF Owners!Init, LedgerInv, LedgerTypes
<1>2. LedgerInv /\ [Owners!Next]_ownerVars => LedgerInv'
  <2> SUFFICES ASSUME LedgerInv, [Owners!Next]_ownerVars PROVE LedgerInv'
    OBVIOUS
  <2> USE DEF LedgerInv, LedgerTypes, Owners!Ever
  <2>1. ASSUME NEW k \in {1, 2}, Owners!Make(k)
        PROVE  /\ opens' \in Nat /\ opens' = opens + k /\ closes' \in [1 .. opens' -> Nat]
               /\ \A h \in 1 .. opens : closes'[h] = closes[h]
               /\ \A h \in opens + 1 .. opens' : closes'[h] = 0
    BY <2>1 DEF Owners!Make
  <2>2. CASE Owners!Begin
    BY <2>2 DEF Owners!Begin
  <2>3. CASE Owners!FromPath
    BY <2>1, <2>3 DEF Owners!FromPath
  <2>4. CASE Owners!DropFile
    BY <2>4 DEF Owners!DropFile, Owners!Drop
  <2>5. CASE Owners!JudgeVolume
    BY <2>5 DEF Owners!JudgeVolume
  <2>6. CASE Owners!MkdirExists \/ Owners!MkdirCreate
    <3> USE <2>6 DEF Owners!MkdirExists, Owners!MkdirCreate
    <3>1. /\ Owners!Make(1) /\ calls' = calls + 1 /\ UNCHANGED <<ledger, phase, owned>>
          /\ ledger \in {"mkdir_exists", "mkdir_create"} /\ phase = "start"
      OBVIOUS
    <3>2. /\ opens' \in Nat /\ opens' = opens + 1 /\ closes' \in [1 .. opens' -> Nat]
          /\ \A h \in 1 .. opens : closes'[h] = closes[h]
          /\ closes'[opens + 1] = 0
      BY <2>1, <3>1
    <3>3. \A h \in 1 .. opens' : closes'[h] = 0
      BY <3>1, <3>2
    <3> QED BY <3>1, <3>2, <3>3
  <2>7. CASE Owners!JudgeMkdir
    BY <2>7 DEF Owners!JudgeMkdir
  <2>8. CASE Owners!BuggyGetStack
    <3>1. CASE phase' = "buggy" /\ UNCHANGED <<opens, closes>>
      BY <2>8, <3>1 DEF Owners!BuggyGetStack
    <3>2. CASE phase' \in {"buggy", "panicked"} /\ Owners!Make(1)
      <4>1. /\ opens = 0 /\ calls' = opens' /\ ledger' = "get_stack" /\ owned' = {}
            /\ ledger = "get_stack"
        BY <2>8 DEF Owners!BuggyGetStack
      <4>2. opens' = 1 /\ closes' \in [1 .. opens' -> Nat] /\ closes'[1] = 0
        BY <2>1, <3>2, <4>1
      <4>3. \A h \in 1 .. opens' : closes'[h] = 0
        BY <4>2
      <4> QED BY <3>2, <4>1, <4>2, <4>3
    <3> QED BY <2>8, <3>1, <3>2 DEF Owners!BuggyGetStack
  <2>9. CASE Owners!PatchedGetStack
    <3>1. CASE phase' = "patched" /\ UNCHANGED <<opens, closes>>
      BY <2>9, <3>1 DEF Owners!PatchedGetStack
    <3>2. CASE /\ phase' = "patched" /\ opens' = opens + 1
               /\ closes' = [h \in 1 .. opens + 1 |-> IF h \in 1 .. opens THEN closes[h] ELSE 1]
      BY <2>9, <3>2 DEF Owners!PatchedGetStack
    <3>3. CASE phase' = "panicked" /\ Owners!Make(1)
      BY <2>1, <2>9, <3>3 DEF Owners!PatchedGetStack
    <3> QED BY <2>9, <3>1, <3>2, <3>3 DEF Owners!PatchedGetStack
  <2>10. CASE UNCHANGED ownerVars
    BY <2>10 DEF ownerVars
  <2> QED BY <2>2, <2>3, <2>4, <2>5, <2>6, <2>7, <2>8, <2>9, <2>10 DEF Owners!Next
<1> QED BY <1>1, <1>2

LEMMA LedgerLost == ASSUME LedgerInv PROVE Owners!LostExactly
<1> USE DEF LedgerInv, LedgerTypes, Owners!Ever, Owners!Live, Owners!Lost
<1>1. owned \subseteq Owners!Live /\ \A h \in Owners!Ever : closes[h] <= 1
  OBVIOUS
<1>2. ledger = "from_path" /\ phase # "start" => Owners!Lost = {1}
  <2> SUFFICES ASSUME ledger = "from_path", phase # "start" PROVE Owners!Lost = {1}
    OBVIOUS
  <2>1. opens = 2 /\ 1 .. 2 = {1, 2} /\ closes[1] = 0
    OBVIOUS
  <2> QED BY <2>1
<1>3. ledger \in {"mkdir_exists", "mkdir_create"} => Owners!Lost = 1 .. calls
  OBVIOUS
<1>4. phase = "patched" => Owners!Lost = 1 .. calls
  <2> SUFFICES ASSUME phase = "patched" PROVE Owners!Lost = 1 .. calls
    OBVIOUS
  <2>1. /\ owned = {} /\ \A h \in 1 .. calls : closes[h] = 0
        /\ opens = calls \/ (opens = calls + 1 /\ closes[opens] = 1)
    OBVIOUS
  <2> QED BY <2>1
<1> QED BY <1>1, <1>2, <1>3, <1>4 DEF Owners!LostExactly

\* In tables of any size, with any descriptors inherited and for any number of
\* rounds, what is opened is closed or lost exactly as is said.
THEOREM DescriptorsAreKept == Spec => []DescriptorsKept
<1> DEFINE Inv == FdInv /\ LedgerInv
<1>1. Init => Inv
  BY FdInit, LedgerStep DEF Init
<1>2. Inv /\ [Next]_vars => Inv'
  BY FdStep, LedgerStep, Parts
<1>3. Inv => DescriptorsKept
  <2> SUFFICES ASSUME Inv PROVE DescriptorsKept
    OBVIOUS
  <2>1. Owners!LostExactly
    BY LedgerLost
  <2>2. \A k : Fds!Room(k) <=> Cardinality(Fds!Fds \ inherited) >= k
    BY SameCardinality DEF Fds!Room
  <2>3. Fds!StdinRestored /\ Fds!SpawnVerdict
    BY <2>2 DEF FdInv, SpawnInv, Fds!StdinRestored, Fds!SpawnVerdict
  <2>4. Fds!LeaksClosed
    BY <2>2 DEF FdInv, RestoreInv, Fds!LeaksClosed, Fds!Ended
  <2>5. Fds!LeakSeen
    BY SameCardinality DEF FdInv, ScanInv, TwoFree, Scan, Fds!LeakSeen, Fds!Ended
  <2> QED BY <2>1, <2>3, <2>4, <2>5 DEF DescriptorsKept
<1> QED BY <1>1, <1>2, <1>3, PTL DEF Spec

-----------------------------------------------------------------------------
\* The blocks of 061 and 102; fix names the predicate of realloc.

UsesLibc(fix, size, align, new_size) ==
    CASE fix = "061" -> Alloc!Fixed061UsesLibc(size, align, new_size)
      [] fix = "102" -> Alloc!Fixed102UsesLibc(size, align, new_size)
      [] OTHER -> Alloc!BuggyUsesLibc(size, align, new_size)

Final(fix, size, align, sizes) ==
    CASE fix = "061" -> Alloc!Reallocs(size, align, sizes, Alloc!Fixed061UsesLibc)
      [] fix = "102" -> Alloc!Reallocs(size, align, sizes, Alloc!Fixed102UsesLibc)
      [] OTHER -> Alloc!Reallocs(size, align, sizes, Alloc!BuggyUsesLibc)

After(fix, b, align, new_size) ==
    Alloc!Realloc(b, align, new_size, UsesLibc(fix, b.size, align, new_size))

BlockStates == [size : Nat, aligned : BOOLEAN, misused : BOOLEAN]

IsBlocks(b, fix, size, align, sizes) ==
    b = [k \in 0 .. Len(sizes) |->
            IF k = 0 THEN Alloc!Block(size, align) ELSE After(fix, b[k - 1], align, sizes[k])]

BlocksOf(fix, size, align, sizes) == CHOOSE b : IsBlocks(b, fix, size, align, sizes)

\* The last block is that of the recursion.
LEMMA FinalIs ==
    ASSUME NEW fix \in {"061", "102", "none"}, NEW size, NEW align, NEW sizes
    PROVE  Final(fix, size, align, sizes)
               = BlocksOf(fix, size, align, sizes)[Len(sizes)]
<1>1. CASE fix = "061"
  BY <1>1 DEF Final, Alloc!Reallocs, BlocksOf, IsBlocks, After, UsesLibc
<1>2. CASE fix = "102"
  BY <1>2 DEF Final, Alloc!Reallocs, BlocksOf, IsBlocks, After, UsesLibc
<1>3. CASE fix = "none"
  BY <1>3 DEF Final, Alloc!Reallocs, BlocksOf, IsBlocks, After, UsesLibc
<1> QED BY <1>1, <1>2, <1>3

LEMMA BlocksExist ==
    ASSUME NEW fix, NEW size \in Nat, NEW align, NEW sizes \in Seq(Nat)
    PROVE  \E b : IsBlocks(b, fix, size, align, sizes)
<1> DEFINE N == Len(sizes)
           next == [p \in BlockStates \X (1 .. N) |-> After(fix, p[1], align, sizes[p[2]])]
<1>1. Alloc!Block(size, align) \in BlockStates
  BY DEF Alloc!Block, Alloc!AllocUsesAligned, BlockStates
<1>2. ASSUME NEW s \in BlockStates, NEW k \in 1 .. N PROVE After(fix, s, align, sizes[k]) \in BlockStates
  <2>1. sizes[k] \in Nat /\ s.aligned \in BOOLEAN /\ s.misused \in BOOLEAN
    BY DEF BlockStates
  <2> DEFINE libc == UsesLibc(fix, s.size, align, sizes[k])
  <2> HIDE DEF libc
  <2>2. After(fix, s, align, sizes[k])
            = [size |-> sizes[k],
               aligned |-> IF libc THEN s.aligned ELSE Alloc!AllocUsesAligned(sizes[k], align),
               misused |-> s.misused \/ (libc /\ s.aligned)]
    BY DEF After, Alloc!Realloc, libc
  <2>3. (IF libc THEN s.aligned ELSE Alloc!AllocUsesAligned(sizes[k], align)) \in BOOLEAN
    BY <2>1 DEF Alloc!AllocUsesAligned
  <2>4. (s.misused \/ (libc /\ s.aligned)) \in BOOLEAN
    OBVIOUS
  <2> QED BY <2>1, <2>2, <2>3, <2>4 DEF BlockStates
<1>3. next \in [BlockStates \X (1 .. N) -> BlockStates]
  BY <1>2
<1>4. N \in Nat
  OBVIOUS
<1> HIDE DEF next
<1>5. PICK f : Walks(f, BlockStates, Alloc!Block(size, align), N, next)
  <2> HIDE DEF N
  <2> QED BY <1>1, <1>3, <1>4, WalkExists
<1>8. /\ f \in [0 .. N -> BlockStates] /\ f[0] = Alloc!Block(size, align)
      /\ \A k \in 1 .. N : f[k] = next[<<f[k - 1], k>>]
  BY <1>5 DEF Walks
<1>6. ASSUME NEW k \in 0 .. N
      PROVE  f[k] = IF k = 0 THEN Alloc!Block(size, align) ELSE After(fix, f[k - 1], align, sizes[k])
  <2>1. CASE k = 0
    BY <1>8, <2>1
  <2>2. CASE k # 0
    <3>1. k \in 1 .. N /\ k - 1 \in 0 .. N
      BY <2>2
    <3>2. f[k - 1] \in BlockStates
      BY <1>8, <3>1
    <3>3. f[k] = next[<<f[k - 1], k>>]
      BY <1>8, <3>1
    <3>4. next[<<f[k - 1], k>>] = After(fix, f[k - 1], align, sizes[k])
      BY <3>1, <3>2 DEF next
    <3> QED BY <2>2, <3>3, <3>4
  <2> QED BY <2>1, <2>2
<1>7. IsBlocks(f, fix, size, align, sizes)
  <2>1. f = [k \in 0 .. N |-> f[k]]
    BY <1>8
  <2> QED BY <1>6, <2>1 DEF IsBlocks
<1> QED BY <1>7

Steps(b, fix, size, align, sizes) ==
    /\ b[0] = Alloc!Block(size, align)
    /\ \A k \in Nat : k < Len(sizes) => b[k + 1] = After(fix, b[k], align, sizes[k + 1])
    /\ Final(fix, size, align, sizes) = b[Len(sizes)]

\* The reallocs as a walk from the block that was allocated, a call at a time.
LEMMA ReallocsWalk ==
    ASSUME NEW fix \in {"061", "102", "none"}, NEW size \in Nat, NEW align, NEW sizes \in Seq(Nat)
    PROVE  \E b : Steps(b, fix, size, align, sizes)
<1> DEFINE b == BlocksOf(fix, size, align, sizes)
<1>1. IsBlocks(b, fix, size, align, sizes) /\ Len(sizes) \in Nat
  <2>1. \E c : IsBlocks(c, fix, size, align, sizes)
    BY BlocksExist
  <2> QED BY <2>1 DEF BlocksOf
<1>2. Final(fix, size, align, sizes) = b[Len(sizes)]
  BY FinalIs
<1> HIDE DEF b
<1>3. \A k \in 0 .. Len(sizes) :
          b[k] = IF k = 0 THEN Alloc!Block(size, align) ELSE After(fix, b[k - 1], align, sizes[k])
  BY <1>1 DEF IsBlocks
<1>4. b[0] = Alloc!Block(size, align)
  BY <1>1, <1>3
<1>5. ASSUME NEW k \in Nat, k < Len(sizes)
      PROVE  b[k + 1] = After(fix, b[k], align, sizes[k + 1])
  <2>1. k + 1 \in 0 .. Len(sizes) /\ k + 1 # 0 /\ k + 1 - 1 = k
    BY <1>1, <1>5
  <2> QED BY <1>3, <2>1
<1> QED BY <1>2, <1>4, <1>5 DEF Steps

\* The sizes of a block over its reallocs, from that of alloc.
LEMMA AllSizes ==
    ASSUME NEW size \in Nat, NEW sizes \in Seq(Nat)
    PROVE  LET all == <<size>> \o sizes IN
           /\ Len(all) = Len(sizes) + 1 /\ all[1] = size
           /\ \A k \in Nat : k < Len(sizes) => all[k + 2] = sizes[k + 1]
OBVIOUS

IsWalk(b, fix, size, align, sizes) ==
    /\ b[0].aligned = (IF Alloc!AllocUsesAligned(size, align) THEN TRUE ELSE FALSE)
    /\ b[0].misused = FALSE /\ b[0].size = size
    /\ Final(fix, size, align, sizes) = b[Len(sizes)]
    /\ \A k \in Nat : k < Len(sizes) =>
        LET libc == UsesLibc(fix, b[k].size, align, sizes[k + 1]) IN
        /\ b[k + 1].size = sizes[k + 1]
        /\ libc => b[k + 1].aligned = b[k].aligned
        /\ ~libc => b[k + 1].aligned = IF Alloc!AllocUsesAligned(sizes[k + 1], align)
                                       THEN TRUE ELSE FALSE
        /\ b[k + 1].misused = IF b[k].misused \/ (libc /\ b[k].aligned) THEN TRUE ELSE FALSE

\* A walk by the fields of the block.
LEMMA BlockWalk ==
    ASSUME NEW fix \in {"061", "102", "none"}, NEW size \in Nat, NEW align \in Nat,
           NEW sizes \in Seq(Nat)
    PROVE  \E b : IsWalk(b, fix, size, align, sizes)
<1>1. PICK b : Steps(b, fix, size, align, sizes)
  BY ReallocsWalk
<1>2. /\ b[0].aligned = (IF Alloc!AllocUsesAligned(size, align) THEN TRUE ELSE FALSE)
      /\ b[0].misused = FALSE /\ b[0].size = size
  <2> DEFINE uses == Alloc!AllocUsesAligned(size, align)
  <2>1. uses \in BOOLEAN
    BY DEF Alloc!AllocUsesAligned
  <2>2. b[0].aligned = uses /\ b[0].misused = FALSE /\ b[0].size = size
    BY <1>1 DEF Steps, Alloc!Block
  <2> HIDE DEF uses
  <2>3. b[0].aligned = IF uses THEN TRUE ELSE FALSE
    BY <2>1, <2>2
  <2> QED BY <2>2, <2>3 DEF uses
<1>3. ASSUME NEW k \in Nat, k < Len(sizes)
      PROVE  LET libc == UsesLibc(fix, b[k].size, align, sizes[k + 1]) IN
             /\ b[k + 1].size = sizes[k + 1]
             /\ libc => b[k + 1].aligned = b[k].aligned
             /\ ~libc => b[k + 1].aligned = IF Alloc!AllocUsesAligned(sizes[k + 1], align)
                                            THEN TRUE ELSE FALSE
             /\ b[k + 1].misused = IF b[k].misused \/ (libc /\ b[k].aligned) THEN TRUE ELSE FALSE
  <2>1. b[k + 1] = After(fix, b[k], align, sizes[k + 1])
    BY <1>1, <1>3 DEF Steps
  <2> DEFINE libc == UsesLibc(fix, b[k].size, align, sizes[k + 1])
             uses == Alloc!AllocUsesAligned(sizes[k + 1], align)
  <2>2. /\ b[k + 1].size = sizes[k + 1]
        /\ b[k + 1].aligned = (IF libc THEN b[k].aligned ELSE uses)
        /\ b[k + 1].misused = (b[k].misused \/ (libc /\ b[k].aligned))
    BY <2>1 DEF After, Alloc!Realloc
  <2>3. uses \in BOOLEAN
    BY DEF Alloc!AllocUsesAligned
  <2> HIDE DEF libc, uses
  <2>4. b[k + 1].misused = IF b[k].misused \/ (libc /\ b[k].aligned) THEN TRUE ELSE FALSE
    BY <2>2
  <2>5. ~libc => b[k + 1].aligned = IF uses THEN TRUE ELSE FALSE
    BY <2>2, <2>3
  <2> QED BY <2>2, <2>4, <2>5 DEF libc, uses
<1> QED BY <1>1, <1>2, <1>3 DEF IsWalk, Steps

\* The fix of 061: what is aligned is of a size for which it would be allocated so.
LEMMA Kept061 ==
    ASSUME NEW size \in Nat, NEW align \in Nat, NEW sizes \in Seq(Nat)
    PROVE  LET fixed061 == Final("061", size, align, sizes) all == <<size>> \o sizes IN
           /\ ~fixed061.misused
           /\ Alloc!AllocUsesAligned(fixed061.size, align) /\ ~fixed061.aligned
                => \E k \in 1 .. Len(all) - 1 : all[k] > all[k + 1]
<1>1. PICK b : IsWalk(b, "061", size, align, sizes)
  BY BlockWalk
<1> DEFINE all == <<size>> \o sizes
           Good(k) == /\ b[k].size \in Nat /\ b[k].size = all[k + 1]
                      /\ b[k].misused = FALSE /\ b[k].aligned \in BOOLEAN
                      /\ b[k].aligned => Alloc!AllocUsesAligned(b[k].size, align)
                      /\ Alloc!AllocUsesAligned(b[k].size, align) /\ ~b[k].aligned =>
                            k >= 1 /\ all[k] > all[k + 1]
           A == {k \in Nat : k <= Len(sizes) => Good(k)}
<1>2. /\ Len(all) = Len(sizes) + 1 /\ all[1] = size /\ Len(sizes) \in Nat
      /\ \A k \in Nat : k < Len(sizes) => all[k + 2] = sizes[k + 1] /\ sizes[k + 1] \in Nat
  BY AllSizes
<1> HIDE DEF all
<1>3. 0 \in A
  <2>1. /\ b[0].aligned = (IF Alloc!AllocUsesAligned(size, align) THEN TRUE ELSE FALSE)
        /\ b[0].misused = FALSE /\ b[0].size = size
    BY <1>1 DEF IsWalk
  <2>2. Good(0)
    <3>1. CASE Alloc!AllocUsesAligned(size, align)
      BY <1>2, <2>1, <3>1
    <3>2. CASE ~Alloc!AllocUsesAligned(size, align)
      BY <1>2, <2>1, <3>2
    <3> QED BY <3>1, <3>2
  <2> HIDE DEF Good
  <2> QED BY <2>2
<1>4. ASSUME NEW k \in Nat, k \in A PROVE k + 1 \in A
  <2> HIDE DEF Good
  <2> SUFFICES ASSUME k < Len(sizes) PROVE Good(k + 1)
    BY <1>2
  <2>1. Good(k)
    BY <1>2, <1>4
  <2> USE DEF Good
  <2>2. b[k + 1].size = sizes[k + 1] /\ sizes[k + 1] \in Nat /\ all[k + 1 + 1] = sizes[k + 1]
    <3>1. b[k + 1].size = sizes[k + 1]
      BY <1>1 DEF IsWalk
    <3>2. k + 1 + 1 = k + 2 /\ all[k + 2] = sizes[k + 1] /\ sizes[k + 1] \in Nat
      BY <1>2
    <3> QED BY <3>1, <3>2
  <2>3. UsesLibc("061", b[k].size, align, sizes[k + 1]) <=> align <= MinAlign /\ align <= b[k].size
    BY DEF UsesLibc, Alloc!Fixed061UsesLibc
  <2>4. CASE align <= MinAlign /\ align <= b[k].size
    <3>1. b[k].aligned = FALSE
      BY <2>1, <2>4 DEF Alloc!AllocUsesAligned
    <3>2. b[k + 1].aligned = FALSE /\ b[k + 1].misused = FALSE
      BY <1>1, <2>1, <2>3, <2>4, <3>1 DEF IsWalk
    <3>3. Alloc!AllocUsesAligned(sizes[k + 1], align) => b[k].size > sizes[k + 1]
      BY <2>1, <2>2, <2>4 DEF Alloc!AllocUsesAligned
    <3>4. Alloc!AllocUsesAligned(b[k + 1].size, align) => k + 1 >= 1 /\ all[k + 1] > all[k + 1 + 1]
      BY <2>1, <2>2, <3>3
    <3> QED BY <2>2, <3>2, <3>4
  <2>5. CASE ~(align <= MinAlign /\ align <= b[k].size)
    <3>1. /\ b[k + 1].aligned = (IF Alloc!AllocUsesAligned(sizes[k + 1], align) THEN TRUE ELSE FALSE)
          /\ b[k + 1].misused = FALSE
      BY <1>1, <2>1, <2>3, <2>5 DEF IsWalk
    <3>2. CASE Alloc!AllocUsesAligned(sizes[k + 1], align)
      BY <2>2, <3>1, <3>2
    <3>3. CASE ~Alloc!AllocUsesAligned(sizes[k + 1], align)
      BY <2>2, <3>1, <3>3
    <3> QED BY <3>2, <3>3
  <2> QED BY <2>4, <2>5
<1>5. Nat \subseteq A
  <2> HIDE DEF A
  <2> QED BY <1>3, <1>4, SetInduction
<1>6. Good(Len(sizes))
  BY <1>2, <1>5
<1>7. Len(sizes) >= 1 => Len(sizes) \in 1 .. Len(all) - 1
  BY <1>2
<1> QED BY <1>1, <1>2, <1>6, <1>7 DEF all, IsWalk

\* The fix of 102: a block is with the allocator that alloc would take for its size.
LEMMA Kept102 ==
    ASSUME NEW size \in Nat, NEW align \in Nat, NEW sizes \in Seq(Nat)
    PROVE  LET fixed102 == Final("102", size, align, sizes) IN
           ~fixed102.misused /\ (fixed102.aligned <=> Alloc!AllocUsesAligned(fixed102.size, align))
<1>1. PICK b : IsWalk(b, "102", size, align, sizes)
  BY BlockWalk
<1> DEFINE Uses(z) == Alloc!AllocUsesAligned(z, align)
           Good(k) == /\ b[k].size \in Nat /\ b[k].misused = FALSE
                      /\ b[k].aligned = IF Uses(b[k].size) THEN TRUE ELSE FALSE
           A == {k \in Nat : k <= Len(sizes) => Good(k)}
<1>2. Len(sizes) \in Nat /\ \A k \in Nat : k < Len(sizes) => sizes[k + 1] \in Nat
  OBVIOUS
<1>3. 0 \in A
  BY <1>1, <1>2 DEF IsWalk
<1>4. ASSUME NEW k \in Nat, k \in A PROVE k + 1 \in A
  <2> HIDE DEF Good
  <2> SUFFICES ASSUME k < Len(sizes) PROVE Good(k + 1)
    BY <1>2
  <2>1. Good(k)
    BY <1>2, <1>4
  <2>2. b[k + 1].size = sizes[k + 1] /\ sizes[k + 1] \in Nat
    BY <1>1, <1>2 DEF IsWalk
  <2>3. UsesLibc("102", b[k].size, align, sizes[k + 1])
            <=> ~Uses(b[k].size) /\ ~Uses(sizes[k + 1])
    BY DEF UsesLibc, Alloc!Fixed102UsesLibc, Alloc!AllocUsesAligned
  <2> HIDE DEF Uses
  <2>4. /\ b[k].size \in Nat /\ b[k].misused = FALSE
        /\ b[k].aligned = IF Uses(b[k].size) THEN TRUE ELSE FALSE
    BY <2>1 DEF Good
  <2>5. CASE ~Uses(b[k].size) /\ ~Uses(sizes[k + 1])
    <3>1. b[k].aligned = FALSE
      BY <2>4, <2>5
    <3>2. b[k + 1].aligned = FALSE /\ b[k + 1].misused = FALSE
      BY <1>1, <2>3, <2>4, <2>5, <3>1 DEF IsWalk
    <3> QED BY <2>2, <2>5, <3>2 DEF Good
  <2>6. CASE ~(~Uses(b[k].size) /\ ~Uses(sizes[k + 1]))
    <3>1. /\ b[k + 1].aligned = (IF Uses(sizes[k + 1]) THEN TRUE ELSE FALSE)
          /\ b[k + 1].misused = FALSE
      BY <1>1, <2>3, <2>4, <2>6 DEF IsWalk, Uses
    <3> QED BY <2>2, <3>1 DEF Good
  <2> QED BY <2>5, <2>6
<1>5. Nat \subseteq A
  <2> HIDE DEF A
  <2> QED BY <1>3, <1>4, SetInduction
<1>6. Good(Len(sizes))
  <2>1. Len(sizes) \in A
    <3> HIDE DEF A
    <3> QED BY <1>2, <1>5
  <2> HIDE DEF Good
  <2> QED BY <1>2, <2>1
<1> QED BY <1>1, <1>6 DEF IsWalk

\* The code before the fixes: until a block is misused it is as with the fix of
\* 102, and it is misused by the first call that triggers.
LEMMA MisusedBefore ==
    ASSUME NEW size \in Nat, NEW align \in Nat, NEW sizes \in Seq(Nat)
    PROVE  LET all == <<size>> \o sizes IN
           Final("none", size, align, sizes).misused <=>
               \E k \in 1 .. Len(all) - 1 : Alloc!Triggered061(all[k], align, all[k + 1])
<1>1. PICK b : IsWalk(b, "none", size, align, sizes)
  BY BlockWalk
<1> DEFINE all == <<size>> \o sizes
           Uses(z) == Alloc!AllocUsesAligned(z, align)
           Comes(k) == \E j \in 1 .. k : Alloc!Triggered061(all[j], align, all[j + 1])
           Good(k) == /\ b[k].size \in Nat /\ b[k].size = all[k + 1]
                      /\ b[k].misused = IF Comes(k) THEN TRUE ELSE FALSE
                      /\ ~Comes(k) => b[k].aligned = IF Uses(b[k].size) THEN TRUE ELSE FALSE
           A == {k \in Nat : k <= Len(sizes) => Good(k)}
<1>2. /\ Len(all) = Len(sizes) + 1 /\ all[1] = size /\ Len(sizes) \in Nat
      /\ \A k \in Nat : k < Len(sizes) => all[k + 2] = sizes[k + 1] /\ sizes[k + 1] \in Nat
  BY AllSizes
<1> HIDE DEF all, Uses
<1>3. 0 \in A
  <2>1. ~Comes(0)
    OBVIOUS
  <2>2. /\ b[0].aligned = (IF Uses(size) THEN TRUE ELSE FALSE)
        /\ b[0].misused = FALSE /\ b[0].size = size
    BY <1>1 DEF IsWalk, Uses
  <2> HIDE DEF Comes
  <2>3. b[0].size \in Nat /\ b[0].size = all[0 + 1]
    BY <1>2, <2>2
  <2>4. b[0].misused = IF Comes(0) THEN TRUE ELSE FALSE
    BY <2>1, <2>2
  <2>5. b[0].aligned = IF Uses(b[0].size) THEN TRUE ELSE FALSE
    BY <2>2
  <2>6. Good(0)
    BY <2>3, <2>4, <2>5
  <2> HIDE DEF Good
  <2> QED BY <2>6
<1>4. ASSUME NEW k \in Nat, k \in A PROVE k + 1 \in A
  <2>1. Comes(k + 1) <=> Comes(k) \/ Alloc!Triggered061(all[k + 1], align, all[k + 1 + 1])
    <3>1. \A j : j \in 1 .. k + 1 <=> j \in 1 .. k \/ j = k + 1
      OBVIOUS
    <3> QED BY <3>1
  <2> HIDE DEF Good, Comes
  <2> SUFFICES ASSUME k < Len(sizes) PROVE Good(k + 1)
    BY <1>2
  <2>2. Good(k)
    BY <1>2, <1>4
  <2>3. /\ b[k].size \in Nat /\ b[k].size = all[k + 1]
        /\ b[k].misused = (IF Comes(k) THEN TRUE ELSE FALSE)
        /\ ~Comes(k) => b[k].aligned = IF Uses(b[k].size) THEN TRUE ELSE FALSE
    BY <2>2 DEF Good
  <2>4. b[k + 1].size = sizes[k + 1] /\ sizes[k + 1] \in Nat /\ all[k + 1 + 1] = sizes[k + 1]
    <3>1. b[k + 1].size = sizes[k + 1]
      BY <1>1 DEF IsWalk
    <3>2. k + 1 + 1 = k + 2 /\ all[k + 2] = sizes[k + 1] /\ sizes[k + 1] \in Nat
      BY <1>2
    <3> QED BY <3>1, <3>2
  <2>5. UsesLibc("none", b[k].size, align, sizes[k + 1]) <=> ~Uses(sizes[k + 1])
    BY DEF UsesLibc, Alloc!BuggyUsesLibc, Alloc!AllocUsesAligned, Uses
  <2>6. Alloc!Triggered061(all[k + 1], align, all[k + 1 + 1])
            <=> Uses(b[k].size) /\ ~Uses(sizes[k + 1])
    BY <2>3, <2>4 DEF Alloc!Triggered061, Alloc!BuggyUsesLibc, Alloc!Fixed061UsesLibc,
                      Alloc!AllocUsesAligned, Uses
  <2>7. /\ Uses(sizes[k + 1]) =>
            b[k + 1].aligned = TRUE /\ b[k + 1].misused = IF b[k].misused THEN TRUE ELSE FALSE
        /\ ~Uses(sizes[k + 1]) =>
            /\ b[k + 1].aligned = b[k].aligned
            /\ b[k + 1].misused = IF b[k].misused \/ b[k].aligned THEN TRUE ELSE FALSE
    BY <1>1, <2>5 DEF IsWalk, Uses
  <2>8. CASE Comes(k)
    <3>1. b[k].misused = TRUE /\ Comes(k + 1)
      BY <2>1, <2>3, <2>8
    <3>2. b[k + 1].misused = TRUE
      BY <2>7, <3>1
    <3> QED BY <2>4, <3>1, <3>2 DEF Good
  <2>9. CASE ~Comes(k)
    <3>1. b[k].misused = FALSE /\ b[k].aligned = (IF Uses(b[k].size) THEN TRUE ELSE FALSE)
      BY <2>3, <2>9
    <3>2. Comes(k + 1) <=> Uses(b[k].size) /\ ~Uses(sizes[k + 1])
      BY <2>1, <2>6, <2>9
    <3>3. CASE Uses(sizes[k + 1])
      BY <2>4, <2>7, <3>1, <3>2, <3>3 DEF Good
    <3>4. CASE ~Uses(sizes[k + 1])
      BY <2>4, <2>7, <3>1, <3>2, <3>4 DEF Good
    <3> QED BY <3>3, <3>4
  <2> QED BY <2>8, <2>9
<1>5. Nat \subseteq A
  <2> HIDE DEF A
  <2> QED BY <1>3, <1>4, SetInduction
<1>6. Good(Len(sizes))
  <2>1. Len(sizes) \in A
    <3> HIDE DEF A
    <3> QED BY <1>2, <1>5
  <2> HIDE DEF Good
  <2> QED BY <1>2, <2>1
<1>7. Final("none", size, align, sizes).misused = IF Comes(Len(sizes)) THEN TRUE ELSE FALSE
  BY <1>1, <1>6 DEF IsWalk
<1>8. Len(all) - 1 = Len(sizes)
  BY <1>2
<1> QED BY <1>7, <1>8 DEF all

LEMMA Blocks ==
    ASSUME NEW size \in Nat, NEW align \in Nat, NEW sizes \in Seq(Nat)
    PROVE  Alloc!BlocksKept(size, align, sizes)
<1>1. /\ Final("061", size, align, sizes)
             = Alloc!Reallocs(size, align, sizes, Alloc!Fixed061UsesLibc)
      /\ Final("102", size, align, sizes)
             = Alloc!Reallocs(size, align, sizes, Alloc!Fixed102UsesLibc)
      /\ Final("none", size, align, sizes)
             = Alloc!Reallocs(size, align, sizes, Alloc!BuggyUsesLibc)
  BY DEF Final
<1> QED BY <1>1, Kept061, Kept102, MisusedBefore DEF Alloc!BlocksKept

\* Any calls of realloc, on blocks of any size and alignment, are as is said of them.
THEOREM AllocatorsAlwaysMatch == Spec => []AllocatorsMatch
<1>1. InputInv => AllocatorsMatch
  <2> SUFFICES ASSUME InputInv PROVE AllocatorsMatch
    OBVIOUS
  <2>0. program \in Pure => input \in Given(program)
    BY DEF InputInv, Running, Pure
  <2> USE DEF AllocatorsMatch
  <2>1. CASE program = "layout"
    <3>1. input \in Nat \X Nat \X Nat
      BY <2>0, <2>1 DEF Pure, Given
    <3>2. input[1] \in Nat /\ input[2] \in Nat /\ input[3] \in Nat /\ MinAlign \in Nat
      BY <3>1, LoopsAssumption
    <3>3. Alloc!FamiliesAgree(input[1], input[2], input[3])
      BY <3>2 DEF Alloc!FamiliesAgree, Alloc!AllocUsesAligned, Alloc!BuggyUsesLibc,
                  Alloc!Fixed061UsesLibc, Alloc!Fixed102UsesLibc, Alloc!Triggered061,
                  Alloc!Triggered102
    <3> QED BY <2>1, <3>3
  <2>2. CASE program = "blocks"
    <3>1. input \in Nat \X Nat \X Seq(Nat)
      BY <2>0, <2>2 DEF Pure, Given
    <3>2. input[1] \in Nat /\ input[2] \in Nat /\ input[3] \in Seq(Nat)
      BY <3>1
    <3>3. Alloc!BlocksKept(input[1], input[2], input[3])
      BY <3>2, Blocks
    <3> QED BY <2>2, <3>3
  <2> QED BY <2>1, <2>2
<1> QED BY <1>1, InputsKept, PTL DEF Spec
-----------------------------------------------------------------------------
\* Machine words: the arithmetic of ten reproducers, for words of any width.

\* To divide any number, by what it is in terms of quotient and remainder.
LEMMA IntDivision ==
    ASSUME NEW a \in Int, NEW m \in Nat \ {0}
    PROVE  /\ a = m * (a \div m) + (a % m)
           /\ a \div m \in Int /\ a % m \in Nat /\ a % m < m
OBVIOUS

LEMMA Quotients ==
    ASSUME NEW m \in Nat \ {0}, NEW q \in Int, NEW r \in Nat, r < m
    PROVE  (m * q + r) % m = r /\ (m * q + r) \div m = q
<1> DEFINE x == m * q + r
<1>1. x \in Int
  OBVIOUS
<1> DEFINE p == x \div m s == x % m
<1>2. x = m * p + s /\ p \in Int /\ s \in Nat /\ s < m
  <2> HIDE DEF x
  <2> QED BY <1>1, IntDivision
<1>3. m * q + r = m * p + s
  BY <1>2
<1> HIDE DEF p, s
<1>4. p = q
  <2>1. ASSUME NEW e \in Int, NEW f \in Int, NEW b \in Nat, NEW c \in Nat, b < m,
               m * e + b = m * f + c, e > f
        PROVE  c >= m
    <3>1. e - f \in Nat \ {0} /\ m * (e - f) = c - b
      BY <2>1
    <3>2. m * (e - f) >= m
      BY <3>1
    <3> QED BY <3>1, <3>2
  <2>2. ~(q > p)
    BY <1>2, <1>3, <2>1
  <2>3. ~(p > q)
    BY <1>2, <1>3, <2>1
  <2> QED BY <1>2, <2>2, <2>3
<1>5. s = r
  BY <1>2, <1>3, <1>4
<1> QED BY <1>4, <1>5 DEF p, s

\* What differs by multiples has the same remainder.
LEMMA SameRemainder ==
    ASSUME NEW m \in Nat \ {0}, NEW a \in Int, NEW q \in Int
    PROVE  (a + m * q) % m = a % m /\ (a + m * q) \div m = a \div m + q
<1> DEFINE p == a \div m r == a % m
<1>1. a = m * p + r /\ p \in Int /\ r \in Nat /\ r < m
  BY IntDivision
<1> HIDE DEF p, r
<1>2. a + m * q = m * (p + q) + r
  BY <1>1
<1>3. (m * (p + q) + r) % m = r /\ (m * (p + q) + r) \div m = p + q
  BY <1>1, Quotients
<1> QED BY <1>2, <1>3 DEF p, r

LEMMA SmallRemainder ==
    ASSUME NEW m \in Nat \ {0}, NEW a \in Nat, a < m PROVE a % m = a
OBVIOUS

\* Two multiples that are not the same are a whole apart.
LEMMA Multiples ==
    ASSUME NEW m \in Nat \ {0}, NEW a \in Int, NEW b \in Int, a % m = 0, b % m = 0, a < b
    PROVE  a + m <= b
<1> DEFINE p == a \div m q == b \div m
<1>1. a = m * p /\ b = m * q /\ p \in Int /\ q \in Int
  BY IntDivision
<1> HIDE DEF p, q
<1>2. q > p
  <2>1. ASSUME q <= p PROVE FALSE
    <3>1. m * (p - q) >= 0
      BY <1>1, <2>1
    <3> QED BY <1>1, <3>1
  <2> QED BY <1>1, <2>1
<1>3. q - p \in Nat \ {0} /\ m * (q - p) = b - a
  BY <1>1, <1>2
<1>4. m * (q - p) >= m
  BY <1>3
<1> QED BY <1>3, <1>4

LEMMA WordParts ==
    /\ Arith!Half \in Nat \ {0} /\ Machine = 2 * Arith!Half /\ Machine \in Nat \ {0}
    /\ Page \in Nat \ {0} /\ Machine >= 4 * Page /\ Machine % Page = 0
    /\ Machine \in Int /\ Page \in Int
BY WordsAssumption DEF Arith!Half

\* 043: unless it is in the last page, a stack is rounded up; if it is, to nothing.
LEMMA RoundedUp ==
    ASSUME NEW stack \in 0 .. Machine - 1
    PROVE  LET size == Arith!BuggyRound(stack) asked == Arith!StackSize(stack) IN
           /\ size \in Nat /\ size % Page = 0
           /\ stack > Machine - Page => size = 0 /\ Arith!RoundPanics(stack)
           /\ stack <= Machine - Page =>
                /\ ~Arith!RoundPanics(stack)
                /\ size >= asked /\ size < asked + Page /\ size <= Machine - Page
<1> DEFINE asked == Arith!StackSize(stack) r == asked % Page q == asked \div Page
<1>1. asked \in Nat /\ asked >= Page /\ asked >= stack /\ asked < Machine
  BY WordParts DEF Arith!StackSize
<1>8. stack > Page => asked = stack
  BY DEF Arith!StackSize
<1>9. stack <= Page => asked = Page
  BY WordParts DEF Arith!StackSize
<1> HIDE DEF asked
<1>2. asked = Page * q + r /\ q \in Nat /\ r \in Nat /\ r < Page
  BY <1>1, WordParts, Division
<1>3. Arith!RoundPanics(stack) <=> r # 0 /\ asked + Page > Machine
  BY <1>1, WordParts DEF Arith!RoundPanics, Arith!Top, asked, r
<1>4. CASE r = 0
  <2>1. Arith!BuggyRound(stack) = asked
    BY <1>4 DEF Arith!BuggyRound, asked, r
  <2>2. asked + Page <= Machine
    BY <1>1, <1>4, WordParts, Multiples DEF r
  <2>3. stack <= Machine - Page
    BY <1>1, <2>2, WordParts
  <2> QED BY <1>1, <1>3, <1>4, <2>1, <2>2, <2>3, WordParts DEF r, asked
<1>5. CASE r # 0 /\ asked + Page > Machine
  <2> DEFINE x == asked + Page - 1
  <2>1. x \in Nat /\ x - Machine \in Nat /\ x - Machine < Page /\ x - Machine < Machine
    BY <1>1, <1>5, WordParts
  <2>2. x % Machine = x - Machine
    <3>1. ((x - Machine) + Machine * 1) % Machine = (x - Machine) % Machine
      BY <2>1, WordParts, SameRemainder
    <3>2. (x - Machine) % Machine = x - Machine
      BY <2>1, WordParts, SmallRemainder
    <3>3. (x - Machine) + Machine * 1 = x
      BY <2>1, WordParts
    <3> QED BY <3>1, <3>2, <3>3
  <2>3. (x - Machine) % Page = x - Machine
    BY <2>1, WordParts, SmallRemainder
  <2>4. Arith!BuggyRound(stack) = 0
    <3>1. Arith!BuggyRound(stack) = Arith!RoundDown(x % Machine)
      BY <1>5 DEF Arith!BuggyRound, asked, r
    <3> HIDE DEF x
    <3> QED BY <2>1, <2>2, <2>3, <3>1, WordParts DEF Arith!RoundDown
  <2>5. stack > Machine - Page
    <3>1. asked # Page
      BY <1>5, WordParts
    <3> QED BY <1>1, <1>5, <1>8, <1>9, <3>1, WordParts
  <2>6. 0 % Page = 0
    BY WordParts, SmallRemainder
  <2> QED BY <1>3, <1>5, <2>4, <2>5, <2>6, WordParts
<1>6. CASE r # 0 /\ asked + Page <= Machine
  <2> DEFINE x == asked + Page - 1
  <2>1. x \in Nat /\ x < Machine
    BY <1>1, <1>6, WordParts
  <2>2. x % Machine = x
    BY <2>1, WordParts, SmallRemainder
  <2>3. x = Page * (q + 1) + (r - 1) /\ r - 1 \in Nat /\ r - 1 < Page /\ q + 1 \in Int
    <3> HIDE DEF r, q
    <3>1. Page * (q + 1) = Page * q + Page
      BY <1>2, WordParts
    <3> QED BY <1>2, <1>6, <3>1, WordParts
  <2>4. x % Page = r - 1
    <3>1. (Page * (q + 1) + (r - 1)) % Page = r - 1
      <4> HIDE DEF r, q
      <4> QED BY <2>3, WordParts, Quotients
    <3> QED BY <2>3, <3>1
  <2>5. Arith!BuggyRound(stack) = x - (r - 1)
    <3>1. Arith!BuggyRound(stack) = Arith!RoundDown(x % Machine)
      BY <1>6 DEF Arith!BuggyRound, asked, r
    <3> HIDE DEF x, r
    <3> QED BY <2>2, <2>4, <3>1 DEF Arith!RoundDown
  <2>6. x - (r - 1) = asked + Page - r /\ x - (r - 1) = Page * (q + 1)
    BY <1>1, <1>2, <2>3, WordParts
  <2>7. (Page * (q + 1)) % Page = 0
    <3>1. (Page * (q + 1) + 0) % Page = 0
      <4> HIDE DEF q
      <4> QED BY <2>3, WordParts, Quotients
    <3>2. Page * (q + 1) + 0 = Page * (q + 1)
      BY <1>2, WordParts
    <3> QED BY <3>1, <3>2
  <2> DEFINE size == Arith!BuggyRound(stack)
  <2>8. size \in Nat /\ size % Page = 0 /\ size >= asked /\ size < asked + Page
    <3> HIDE DEF x, r, q
    <3> QED BY <1>1, <1>2, <1>6, <2>5, <2>6, <2>7, WordParts
  <2> HIDE DEF size
  <2>9. size <= Machine - Page
    <3>1. size < Machine
      BY <1>1, <1>6, <2>8, WordParts
    <3>2. size + Page <= Machine
      <4>1. size \in Int /\ size % Page = 0 /\ size < Machine
        BY <2>8, <3>1
      <4>2. Machine \in Int /\ Machine % Page = 0 /\ Page \in Nat \ {0}
        BY WordParts
      <4> QED BY <4>1, <4>2, Multiples
    <3> QED BY <2>8, <3>2, WordParts
  <2>10. stack <= Machine - Page
    BY <1>1, <1>6, WordParts
  <2> HIDE DEF x, r, q
  <2>11. ~Arith!RoundPanics(stack)
    BY <1>1, <1>3, <1>6, WordParts
  <2> QED BY <2>8, <2>9, <2>10, <2>11, WordParts DEF size, asked
<1> HIDE DEF r
<1>7. asked + Page > Machine \/ asked + Page <= Machine
  BY <1>1, WordParts
<1> QED BY <1>4, <1>5, <1>6, <1>7 DEF asked

\* 044: what is mapped for a stack of whole pages.
LEMMA Mapping ==
    ASSUME NEW size \in Nat, size % Page = 0
    PROVE  /\ size <= Machine - 3 * Page => Arith!BuggyMappingLength(size) = size + 2 * Page
           /\ size = Machine - 2 * Page => Arith!BuggyMappingLength(size) = 0
           /\ size = Machine - Page => Arith!BuggyMappingLength(size) = Page /\ Arith!StackEnd(size) = 0
           /\ size <= Machine - 2 * Page => Arith!StackEnd(size) # 0
           /\ size = 0 => Arith!BuggyMappingLength(size) = 2 * Page
<1>1. /\ size + Page < Machine => (Page + size) % Machine = Page + size
      /\ size + 2 * Page < Machine => (Page + size + Page) % Machine = size + 2 * Page
      /\ Page % Machine = Page
  BY WordParts, SmallRemainder
<1>2. Machine % Machine = 0
  <2>1. (0 + Machine * 1) % Machine = 0 % Machine /\ 0 % Machine = 0
    BY WordParts, SameRemainder, SmallRemainder
  <2> QED BY <2>1, WordParts
<1>3. CASE size + 2 * Page < Machine
  <2>1. Arith!BuggyMappingLength(size) = size + 2 * Page /\ Arith!StackEnd(size) = Page + size
    BY <1>1, <1>3, WordParts DEF Arith!BuggyMappingLength, Arith!StackEnd
  <2> QED BY <1>3, <2>1, WordParts
<1>4. CASE size = Machine - 2 * Page
  <2>1. Page + size + Page = Machine /\ size + Page < Machine /\ Page + size # 0
    BY <1>4, WordParts
  <2>2. Arith!BuggyMappingLength(size) = 0 /\ Arith!StackEnd(size) = Page + size
    BY <1>1, <1>2, <2>1 DEF Arith!BuggyMappingLength, Arith!StackEnd
  <2> QED BY <1>4, <2>1, <2>2, WordParts
<1>5. CASE size = Machine - Page
  <2>1. Page + size = Machine /\ 0 + Page = Page
    BY <1>5, WordParts
  <2>2. Arith!BuggyMappingLength(size) = Page /\ Arith!StackEnd(size) = 0
    BY <1>1, <1>2, <2>1 DEF Arith!BuggyMappingLength, Arith!StackEnd
  <2> QED BY <1>5, <2>2, WordParts
<1> QED BY <1>3, <1>4, <1>5, WordParts

LEMMA Stack == ASSUME NEW stack \in 0 .. Machine - 1 PROVE Arith!StackMapped(stack)
<1> DEFINE size == Arith!BuggyRound(stack) asked == Arith!StackSize(stack)
           mapped == Arith!BuggyMappingLength(size)
<1>1. /\ size \in Nat /\ size % Page = 0
      /\ stack > Machine - Page => size = 0 /\ Arith!RoundPanics(stack)
      /\ stack <= Machine - Page =>
            /\ ~Arith!RoundPanics(stack)
            /\ size >= asked /\ size < asked + Page /\ size <= Machine - Page
  BY RoundedUp
<1>2. /\ asked \in Nat /\ asked >= Page /\ asked >= stack /\ stack \in Nat /\ stack < Machine
      /\ asked = stack \/ asked = Page
  BY WordParts DEF Arith!StackSize
<1> HIDE DEF size, asked
<1>3. \A c \in {1, 2, 3} : (Machine - c * Page) % Page = 0
  <2> SUFFICES ASSUME NEW c \in {1, 2, 3} PROVE (Machine - c * Page) % Page = 0
    OBVIOUS
  <2>1. (Machine + Page * (-c)) % Page = Machine % Page
    <3>1. -c \in Int /\ Machine \in Int /\ Page \in Nat \ {0}
      BY WordParts
    <3> QED BY <3>1, SameRemainder
  <2>2. Machine + Page * (-c) = Machine - c * Page
    BY WordParts
  <2> QED BY <2>1, <2>2, WordParts
<1>4. ASSUME NEW c \in {1, 2, 3}, size > Machine - (c + 1) * Page, size <= Machine - c * Page, c < 3
      PROVE  size = Machine - c * Page
  <2>1. ASSUME size < Machine - c * Page PROVE FALSE
    <3>1. size \in Int /\ Machine - c * Page \in Int /\ Page \in Nat \ {0}
      BY <1>1, WordParts
    <3>2. size + Page <= Machine - c * Page
      BY <1>1, <1>3, <2>1, <3>1, Multiples
    <3>3. size <= Machine - (c + 1) * Page
      BY <1>1, <1>4, <3>2, WordParts
    <3> QED BY <1>1, <1>4, <3>3, WordParts
  <2> QED BY <1>1, <1>4, <2>1, WordParts
<1>5. CASE stack > Machine - Page
  <2>1. size = 0 /\ Arith!RoundPanics(stack) /\ mapped = 2 * Page /\ Arith!StackEnd(size) # 0
    BY <1>1, <1>5, Mapping, WordParts
  <2> QED BY <1>1, <1>2, <1>5, <2>1, WordParts
          DEF Arith!StackMapped, Arith!Triggered043, Arith!Triggered044, size, asked
<1>6. CASE stack <= Machine - Page
  <2>0. /\ ~Arith!RoundPanics(stack) /\ size # 0
        /\ size >= asked /\ size < asked + Page /\ size <= Machine - Page
    BY <1>1, <1>2, <1>6, WordParts
  <2>1. CASE stack <= Machine - 3 * Page
    <3>1. size < Machine - 2 * Page
      BY <1>1, <1>2, <2>0, <2>1, WordParts
    <3>2. size <= Machine - 3 * Page
      <4>1. size + Page <= Machine - 2 * Page
        <5>1. size \in Int /\ Machine - 2 * Page \in Int /\ Page \in Nat \ {0}
          BY <1>1, WordParts
        <5>2. (Machine - 2 * Page) % Page = 0
          BY <1>3
        <5> QED BY <1>1, <3>1, <5>1, <5>2, Multiples
      <4> QED BY <1>1, <4>1, WordParts
    <3>3. mapped = size + 2 * Page /\ Arith!StackEnd(size) # 0
      BY <1>1, <3>2, Mapping, WordParts
    <3> QED BY <1>1, <1>2, <1>6, <2>0, <2>1, <3>3, WordParts
            DEF Arith!StackMapped, Arith!Triggered043, Arith!Triggered044, size, asked
  <2>2. CASE stack > Machine - 3 * Page /\ stack <= Machine - 2 * Page
    <3>1. size > Machine - 3 * Page
      BY <1>1, <1>2, <2>0, <2>2, WordParts
    <3>2. size < Machine - Page
      BY <1>1, <1>2, <2>0, <2>2, WordParts
    <3>3. size <= Machine - 2 * Page
      <4>1. size + Page <= Machine - Page
        <5>1. size \in Int /\ Machine - 1 * Page \in Int /\ Page \in Nat \ {0}
          BY <1>1, WordParts
        <5>2. (Machine - 1 * Page) % Page = 0
          BY <1>3
        <5>3. size < Machine - 1 * Page
          BY <3>2, WordParts
        <5>4. size + Page <= Machine - 1 * Page
          BY <1>1, <5>1, <5>2, <5>3, Multiples
        <5> QED BY <5>4, WordParts
      <4> QED BY <1>1, <4>1, WordParts
    <3>4. size = Machine - 2 * Page
      BY <1>4, <3>1, <3>3
    <3>5. mapped = 0 /\ Arith!StackEnd(size) # 0
      BY <1>1, <3>4, Mapping, WordParts
    <3> QED BY <1>1, <1>2, <1>6, <2>0, <2>2, <3>5, WordParts
            DEF Arith!StackMapped, Arith!Triggered043, Arith!Triggered044, size, asked
  <2>3. CASE stack > Machine - 2 * Page
    <3>1. size > Machine - 2 * Page
      BY <1>1, <1>2, <2>0, <2>3, WordParts
    <3>2. size = Machine - 1 * Page
      <4>1. size <= Machine - 1 * Page /\ size > Machine - (1 + 1) * Page
        BY <2>0, <3>1, WordParts
      <4> QED BY <1>4, <4>1
    <3>3. mapped = Page /\ Arith!StackEnd(size) = 0
      BY <1>1, <3>2, Mapping, WordParts
    <3> QED BY <1>1, <1>2, <1>6, <2>0, <2>3, <3>3, WordParts
            DEF Arith!StackMapped, Arith!Triggered043, Arith!Triggered044, size, asked
  <2> QED BY <1>2, <2>1, <2>2, <2>3, WordParts
<1> QED BY <1>2, <1>5, <1>6, WordParts

\* A number as a signed word: those that are one stay, and others wrap round.
LEMMA SignedIs ==
    ASSUME NEW a \in Int
    PROVE  /\ Arith!Signed(a) \in -Arith!Half .. Arith!Half - 1
           /\ a \in -Arith!Half .. Arith!Half - 1 => Arith!Signed(a) = a
           /\ Arith!Signed(Arith!Half) = -Arith!Half
           /\ Arith!Signed(Arith!Signed(a) + 4) = Arith!Signed(a + 4)
<1> DEFINE h == Arith!Half w == Machine b == a + h
<1>0. h \in Nat \ {0} /\ w = 2 * h /\ w \in Nat \ {0} /\ b \in Int /\ h \in Int
  BY WordParts
<1>1. \A c \in Int : Arith!Signed(c) = ((c + h) % w) - h
  BY DEF Arith!Signed
<1> HIDE DEF h, w
<1>2. b % w \in Nat /\ b % w < w /\ b = w * (b \div w) + (b % w) /\ b \div w \in Int
  BY <1>0, IntDivision
<1>3. a \in -h .. h - 1 => b % w = b
  <2> SUFFICES ASSUME a \in -h .. h - 1 PROVE b % w = b
    OBVIOUS
  <2>1. b \in Nat /\ b < w
    BY <1>0
  <2> QED BY <1>0, <2>1, SmallRemainder
<1>4. (h + h) % w = 0
  <2>1. (0 + w * 1) % w = 0 % w /\ 0 % w = 0
    BY <1>0, SameRemainder, SmallRemainder
  <2>2. 0 + w * 1 = h + h
    BY <1>0
  <2> QED BY <2>1, <2>2
<1> DEFINE q == b \div w r == b % w
<1>5. (b + 4) % w = (r + 4) % w
  <2>1. b + 4 = (r + 4) + w * q /\ r + 4 \in Int /\ q \in Int
    BY <1>0, <1>2
  <2> HIDE DEF q, r, b
  <2>2. ((r + 4) + w * q) % w = (r + 4) % w
    BY <1>0, <2>1, SameRemainder
  <2> QED BY <2>1, <2>2
<1>6. Arith!Signed(a) = r - h /\ Arith!Signed(a + 4) = ((b + 4) % w) - h
  <2>1. a + 4 \in Int /\ a + 4 + h = b + 4
    BY <1>0
  <2> QED BY <1>1, <2>1
<1>7. Arith!Signed(r - h + 4) = ((r + 4) % w) - h
  <2>1. r - h + 4 \in Int /\ r - h + 4 + h = r + 4
    BY <1>0, <1>2
  <2> QED BY <1>1, <2>1
<1>8. Arith!Signed(h) = -h
  BY <1>0, <1>1, <1>4
<1>9. Arith!Signed(Arith!Signed(a) + 4) = Arith!Signed(a + 4)
  BY <1>5, <1>6, <1>7
<1>10. Arith!Signed(a) \in -h .. h - 1
  BY <1>0, <1>2, <1>6
<1>11. a \in -h .. h - 1 => Arith!Signed(a) = a
  BY <1>0, <1>3, <1>6
<1> QED BY <1>8, <1>9, <1>10, <1>11 DEF h

LEMMA SignedFits ==
    ASSUME NEW a \in Int, a >= -Arith!Half, a < Arith!Half PROVE Arith!Signed(a) = a
BY WordParts, SignedIs

IsExponents(e, start, extra) ==
    e = [k \in 0 .. extra |-> IF k = 0 THEN start ELSE Arith!Signed(e[k - 1] + 4)]

ExponentsOf(start, extra) == CHOOSE e : IsExponents(e, start, extra)

LEMMA AdvanceIs ==
    ASSUME NEW start, NEW extra
    PROVE  Arith!AdvanceExp(start, extra) = ExponentsOf(start, extra)[extra]
BY DEF Arith!AdvanceExp, ExponentsOf, IsExponents

\* 046: the exponent is the exact one, as a word.
LEMMA Advanced ==
    ASSUME NEW start \in -Arith!Half .. Arith!Half - 1, NEW extra \in Nat
    PROVE  Arith!AdvanceExp(start, extra) = Arith!Signed(start + 4 * extra)
<1> DEFINE c == [k \in 0 .. extra |-> Arith!Signed(start + 4 * k)]
<1>0. start \in Int /\ start + 4 * 0 = start
  BY WordParts
<1>1. IsExponents(c, start, extra)
  <2>1. ASSUME NEW k \in 0 .. extra
        PROVE  Arith!Signed(start + 4 * k) = IF k = 0 THEN start ELSE Arith!Signed(c[k - 1] + 4)
    <3>1. CASE k = 0
      BY <1>0, <3>1, SignedIs
    <3>2. CASE k # 0
      <4>1. k - 1 \in 0 .. extra /\ start + 4 * (k - 1) \in Int
             /\ start + 4 * (k - 1) + 4 = start + 4 * k
        BY <1>0, <3>2
      <4>2. c[k - 1] = Arith!Signed(start + 4 * (k - 1))
        BY <4>1
      <4> HIDE DEF c
      <4> QED BY <3>2, <4>1, <4>2, SignedIs
    <3> QED BY <3>1, <3>2
  <2> QED BY <2>1 DEF IsExponents
<1> DEFINE e == ExponentsOf(start, extra)
<1>2. IsExponents(e, start, extra)
  <2>1. \E x : IsExponents(x, start, extra)
    <3> HIDE DEF c
    <3> QED BY <1>1
  <2> QED BY <2>1 DEF ExponentsOf
<1>3. Arith!AdvanceExp(start, extra) = e[extra]
  BY AdvanceIs
<1> HIDE DEF e, c
<1>4. \A k \in 0 .. extra : e[k] = IF k = 0 THEN start ELSE Arith!Signed(e[k - 1] + 4)
  BY <1>2 DEF IsExponents
<1> DEFINE G == {k \in 0 .. extra : e[k] = Arith!Signed(start + 4 * k)}
<1>5. 0 \in G
  BY <1>0, <1>4, SignedIs
<1>6. ASSUME NEW k \in Nat, k < extra, k \in G PROVE k + 1 \in G
  <2>1. k + 1 \in 0 .. extra /\ k + 1 # 0 /\ k + 1 - 1 = k
         /\ start + 4 * k \in Int /\ start + 4 * k + 4 = start + 4 * (k + 1)
    BY <1>0, <1>6
  <2>2. e[k + 1] = Arith!Signed(e[k] + 4)
    BY <1>4, <2>1
  <2> QED BY <1>6, <2>1, <2>2, SignedIs
<1>7. 0 .. extra \subseteq G /\ extra \in 0 .. extra
  <2> HIDE DEF G
  <2> QED BY <1>5, <1>6, Upwards
<1> QED BY <1>3, <1>7

LEMMA Advance ==
    ASSUME NEW start \in -Arith!Half .. Arith!Half - 1, NEW extra \in Nat
    PROVE  Arith!AdvanceExact(start, extra)
<1> DEFINE h == Arith!Half exact == start + 4 * extra
<1>0. h \in Nat \ {0} /\ start \in Int /\ start >= -h /\ start < h /\ exact \in Int
  BY WordParts
<1>1. \A k \in Nat : Arith!AdvanceExp(start, k) = Arith!Signed(start + 4 * k)
  BY Advanced
<1> HIDE DEF h
<1>3. ASSUME Arith!AdvancePanics(start, extra) PROVE exact >= h
  <2>1. PICK k \in 0 .. extra - 1 : Arith!AdvanceExp(start, k) + 4 >= h
    BY <1>3 DEF Arith!AdvancePanics, h
  <2>2. k \in Nat /\ k + 1 <= extra /\ start + 4 * k \in Int
    BY <1>0
  <2>3. Arith!Signed(start + 4 * k) + 4 >= h
    BY <1>1, <2>1, <2>2
  <2>4. start + 4 * k >= -h
    BY <1>0, <2>2
  <2>5. CASE start + 4 * k < h
    <3>1. Arith!Signed(start + 4 * k) = start + 4 * k
      BY <1>0, <2>2, <2>4, <2>5, SignedFits DEF h
    <3> QED BY <1>0, <2>2, <2>3, <3>1
  <2>6. CASE start + 4 * k >= h
    BY <1>0, <2>2, <2>6
  <2> QED BY <1>0, <2>2, <2>5, <2>6
<1>4. ASSUME exact >= h PROVE Arith!AdvancePanics(start, extra)
  <2> DEFINE k == (h - 1 - start) \div 4
  <2>1. h - 1 - start \in Nat
    BY <1>0
  <2>2. k \in Nat /\ 4 * k <= h - 1 - start /\ h - 1 - start < 4 * k + 4
    <3> DEFINE y == h - 1 - start
    <3> HIDE DEF y
    <3>1. y \in Nat => y \div 4 \in Nat /\ 4 * (y \div 4) <= y /\ y < 4 * (y \div 4) + 4
      OBVIOUS
    <3> QED BY <2>1, <3>1 DEF y
  <2> HIDE DEF k
  <2>3. start + 4 * k >= -h /\ start + 4 * k < h /\ start + 4 * k + 4 >= h /\ start + 4 * k \in Int
    BY <1>0, <2>2
  <2>4. k \in 0 .. extra - 1
    BY <1>0, <1>4, <2>2
  <2>5. Arith!AdvanceExp(start, k) + 4 >= h
    <3>1. Arith!Signed(start + 4 * k) = start + 4 * k
      BY <1>0, <2>3, SignedFits DEF h
    <3>2. Arith!AdvanceExp(start, k) = start + 4 * k
      BY <1>1, <2>2, <3>1
    <3> QED BY <2>3, <3>2
  <2> QED BY <2>4, <2>5 DEF Arith!AdvancePanics, h
<1>5. ASSUME extra > 0 \/ start # -h, Arith!Signed(exact) = -h PROVE exact >= h
  <2>1. exact >= -h /\ (exact = -h => extra = 0 /\ start = -h)
    BY <1>0
  <2>2. exact < h => Arith!Signed(exact) = exact
    <3> HIDE DEF exact
    <3> SUFFICES ASSUME exact < h PROVE Arith!Signed(exact) = exact
      OBVIOUS
    <3> QED BY <1>0, <2>1, SignedFits DEF h
  <2> QED BY <1>0, <1>5, <2>1, <2>2
<1> HIDE DEF exact
<1>6. Arith!AdvanceExp(start, extra) = Arith!Signed(exact)
  BY <1>1 DEF exact
<1> QED BY <1>3, <1>4, <1>5, <1>6 DEF Arith!AdvanceExact, Arith!Triggered046, exact, h

-----------------------------------------------------------------------------
\* 045: the digits of an exponent.

IsAccumulated(p, digits) ==
    p = [k \in 0 .. Len(digits) |-> IF k = 0 THEN 0 ELSE Arith!AddDigit(p[k - 1], digits[k])]

IsRead(p, digits) ==
    p = [k \in 0 .. Len(digits) |-> IF k = 0 THEN 0 ELSE p[k - 1] * 10 + digits[k]]

LEMMA AccumulatedIs ==
    ASSUME NEW digits PROVE Arith!Accumulated(digits) = CHOOSE p : IsAccumulated(p, digits)
BY DEF Arith!Accumulated, IsAccumulated

NumberRead(digits) == (CHOOSE p : IsRead(p, digits))[Len(digits)]

\* Both recursions over the digits have a solution.
LEMMA BothExist ==
    ASSUME NEW digits \in Seq(0 .. 9)
    PROVE  (\E p : IsAccumulated(p, digits)) /\ (\E p : IsRead(p, digits))
<1> DEFINE N == Len(digits)
           add == [e \in Nat \X (1 .. N) |-> Arith!AddDigit(e[1], digits[e[2]])]
           read == [e \in Nat \X (1 .. N) |-> e[1] * 10 + digits[e[2]]]
<1>0. N \in Nat /\ 0 \in Nat
  OBVIOUS
<1>1. \A k \in 1 .. N : digits[k] \in 0 .. 9
  OBVIOUS
<1>2. \A a \in Nat, d \in 0 .. 9 : Arith!AddDigit(a, d) \in Nat /\ a * 10 + d \in Nat
  <2> SUFFICES ASSUME NEW a \in Nat, NEW d \in 0 .. 9
               PROVE  Arith!AddDigit(a, d) \in Nat /\ a * 10 + d \in Nat
    OBVIOUS
  <2>1. Arith!Times10(a) \in Nat
    BY WordParts DEF Arith!Times10, Arith!Lesser, Arith!Top
  <2> DEFINE x == Arith!Times10(a) + d
  <2>2. x \in Int
    BY <2>1
  <2>3. Arith!AddDigit(a, d) = x % Machine
    BY DEF Arith!AddDigit
  <2> HIDE DEF x
  <2>4. x % Machine \in Nat
    BY <2>2, WordParts, IntDivision
  <2> QED BY <2>3, <2>4
<1>3. add \in [Nat \X (1 .. N) -> Nat] /\ read \in [Nat \X (1 .. N) -> Nat]
  <2> HIDE DEF N
  <2> QED BY <1>1, <1>2
<1>4. ASSUME NEW next, NEW f, Walks(f, Nat, 0, N, next)
      PROVE  /\ \A k \in 0 .. N : f[k] \in Nat
             /\ f = [k \in 0 .. N |-> f[k]] /\ f[0] = 0
             /\ \A k \in 1 .. N : f[k] = next[<<f[k - 1], k>>]
  <2> HIDE DEF N
  <2>1. f \in [0 .. N -> Nat] /\ f[0] = 0 /\ \A k \in 1 .. N : f[k] = next[<<f[k - 1], k>>]
    BY <1>4 DEF Walks
  <2> QED BY <2>1
<1> HIDE DEF add, read
<1>5. PICK f : Walks(f, Nat, 0, N, add)
  <2> HIDE DEF N
  <2> QED BY <1>0, <1>3, WalkExists
<1>6. PICK g : Walks(g, Nat, 0, N, read)
  <2> HIDE DEF N
  <2> QED BY <1>0, <1>3, WalkExists
<1>7. IsAccumulated(f, digits)
  <2>1. ASSUME NEW k \in 0 .. N
        PROVE  f[k] = IF k = 0 THEN 0 ELSE Arith!AddDigit(f[k - 1], digits[k])
    <3> SUFFICES ASSUME k # 0 PROVE f[k] = Arith!AddDigit(f[k - 1], digits[k])
      BY <1>4, <1>5
    <3>1. k \in 1 .. N /\ k - 1 \in 0 .. N
      BY <1>0
    <3>2. f[k - 1] \in Nat
      BY <1>4, <1>5, <3>1
    <3> HIDE DEF N
    <3>3. add[<<f[k - 1], k>>] = Arith!AddDigit(f[k - 1], digits[k])
      BY <3>1, <3>2 DEF add
    <3> QED BY <1>4, <1>5, <3>1, <3>3
  <2> QED BY <1>4, <1>5, <2>1 DEF IsAccumulated
<1>8. IsRead(g, digits)
  <2>1. ASSUME NEW k \in 0 .. N
        PROVE  g[k] = IF k = 0 THEN 0 ELSE g[k - 1] * 10 + digits[k]
    <3> SUFFICES ASSUME k # 0 PROVE g[k] = g[k - 1] * 10 + digits[k]
      BY <1>4, <1>6
    <3>1. k \in 1 .. N /\ k - 1 \in 0 .. N
      BY <1>0
    <3>2. g[k - 1] \in Nat
      BY <1>4, <1>6, <3>1
    <3> HIDE DEF N
    <3>3. read[<<g[k - 1], k>>] = g[k - 1] * 10 + digits[k]
      BY <3>1, <3>2 DEF read
    <3> QED BY <1>4, <1>6, <3>1, <3>3
  <2> QED BY <1>4, <1>6, <2>1 DEF IsRead
<1> QED BY <1>7, <1>8

\* One digit: without a panic the smaller of the number and Top follows it; with
\* one the number is beyond Top.
LEMMA DigitStep ==
    ASSUME NEW p \in Nat, NEW number \in Nat, NEW digit \in 0 .. 9,
           NEW over \in BOOLEAN,
           ~over => p = Arith!Lesser(number, Arith!Top), over => number > Arith!Top
    PROVE  /\ ~over /\ Arith!Times10(p) + digit <= Arith!Top =>
                Arith!AddDigit(p, digit) = Arith!Lesser(number * 10 + digit, Arith!Top)
           /\ over \/ Arith!Times10(p) + digit > Arith!Top => number * 10 + digit > Arith!Top
           /\ number * 10 + digit \in Nat
<1> DEFINE top == Machine - 1
<1>0. top \in Nat /\ Machine \in Nat \ {0} /\ Arith!Top = top /\ top >= 3
  BY WordParts DEF Arith!Top
<1>1. \A a \in Nat, b \in Nat : Arith!Lesser(a, b) = IF a <= b THEN a ELSE b
  BY DEF Arith!Lesser
<1>2. Arith!Times10(p) = IF p * 10 <= top THEN p * 10 ELSE top
  BY <1>0 DEF Arith!Times10, Arith!Lesser
<1> DEFINE t == Arith!Times10(p)
<1>3. Arith!AddDigit(p, digit) = (t + digit) % Machine
  BY DEF Arith!AddDigit
<1>4. t \in Nat
  BY <1>0, <1>2
<1>5. t + digit <= top => Arith!AddDigit(p, digit) = t + digit
  <2> HIDE DEF t
  <2>1. t + digit \in Nat
    BY <1>4
  <2>2. t + digit <= top => t + digit < Machine
    BY <1>4, WordParts
  <2> QED BY <1>0, <1>3, <2>1, <2>2, SmallRemainder
<1> HIDE DEF t
<1>6. ASSUME ~over, t + digit <= top
      PROVE  Arith!AddDigit(p, digit) = Arith!Lesser(number * 10 + digit, top)
  <2>0. number * 10 + digit \in Nat /\ digit \in Nat
    OBVIOUS
  <2>1. p = IF number <= top THEN number ELSE top
    BY <1>0, <1>1, <1>6
  <2>2. t = IF p * 10 <= top THEN p * 10 ELSE top
    BY <1>2 DEF t
  <2> HIDE DEF top
  <2>3. t + digit = IF number * 10 + digit <= top THEN number * 10 + digit ELSE top
    BY <1>0, <1>6, <2>1, <2>2
  <2> QED BY <1>0, <1>1, <1>5, <1>6, <2>0, <2>3
<1>7. ASSUME over \/ t + digit > top PROVE number * 10 + digit > top
  <2>1. over => number > top
    BY <1>0
  <2>2. ~over => p = IF number <= top THEN number ELSE top
    BY <1>0, <1>1
  <2>3. t = IF p * 10 <= top THEN p * 10 ELSE top
    BY <1>2 DEF t
  <2> HIDE DEF top
  <2> QED BY <1>0, <1>7, <2>1, <2>2, <2>3
<1> QED BY <1>0, <1>6, <1>7 DEF t

LEMMA NumberIs ==
    ASSUME NEW digits
    PROVE  NumberRead(digits)
               = LET read[k \in 0 .. Len(digits)] == IF k = 0 THEN 0 ELSE read[k - 1] * 10 + digits[k]
                 IN  read[Len(digits)]
BY DEF NumberRead, IsRead

\* 045: any digits.
LEMMA Exponent == ASSUME NEW digits \in Seq(0 .. 9) PROVE Arith!ExponentExact(digits)
<1> DEFINE N == Len(digits) p == Arith!Accumulated(digits)
           q == CHOOSE f : IsRead(f, digits)
           Over(k) == \E j \in 1 .. k : Arith!Times10(p[j - 1]) + digits[j] > Arith!Top
           Good(k) == /\ p[k] \in Nat /\ q[k] \in Nat
                      /\ ~Over(k) => p[k] = Arith!Lesser(q[k], Arith!Top)
                      /\ Over(k) => q[k] > Arith!Top
           G == {k \in 0 .. N : Good(k)}
<1>0. N \in Nat /\ \A k \in 1 .. N : digits[k] \in 0 .. 9
  OBVIOUS
<1>1. IsAccumulated(p, digits) /\ IsRead(q, digits)
  <2> HIDE DEF p
  <2>1. (\E f : IsAccumulated(f, digits)) /\ (\E f : IsRead(f, digits))
    BY BothExist
  <2> QED BY <2>1, AccumulatedIs DEF p
<1>2. Arith!Accumulate(digits) = p[N] /\ NumberRead(digits) = q[N]
  BY DEF Arith!Accumulate, NumberRead
<1>14. Arith!Top \in Nat /\ Arith!Top >= 3
  BY WordParts DEF Arith!Top
<1> HIDE DEF p, q
<1>3. p[0] = 0 /\ q[0] = 0
  BY <1>0, <1>1 DEF IsAccumulated, IsRead
<1>4. \A k \in 1 .. N : /\ p[k] = Arith!AddDigit(p[k - 1], digits[k])
                       /\ q[k] = q[k - 1] * 10 + digits[k]
  <2> SUFFICES ASSUME NEW k \in 1 .. N
      PROVE  p[k] = Arith!AddDigit(p[k - 1], digits[k]) /\ q[k] = q[k - 1] * 10 + digits[k]
    OBVIOUS
  <2>0. k \in 0 .. Len(digits) /\ k # 0
    BY <1>0
  <2>1. p[k] = Arith!AddDigit(p[k - 1], digits[k])
    <3>1. p = [m \in 0 .. Len(digits) |->
                IF m = 0 THEN 0 ELSE Arith!AddDigit(p[m - 1], digits[m])]
      BY <1>1 DEF IsAccumulated
    <3> QED BY <2>0, <3>1
  <2>2. q[k] = q[k - 1] * 10 + digits[k]
    <3>1. q = [m \in 0 .. Len(digits) |-> IF m = 0 THEN 0 ELSE q[m - 1] * 10 + digits[m]]
      BY <1>1 DEF IsRead
    <3> QED BY <2>0, <3>1
  <2> QED BY <2>1, <2>2
<1>5. 0 \in G
  <2>1. ~Over(0) /\ Arith!Lesser(0, Arith!Top) = 0
    BY <1>14 DEF Arith!Lesser
  <2>2. Good(0)
    <3> HIDE DEF Over
    <3> QED BY <1>3, <2>1
  <2> HIDE DEF Good
  <2> QED BY <1>0, <2>2
<1>6. ASSUME NEW k \in Nat, k < N, k \in G PROVE k + 1 \in G
  <2>1. k + 1 \in 1 .. N /\ k + 1 - 1 = k /\ k + 1 \in 0 .. N
    BY <1>0, <1>6
  <2> DEFINE more == Arith!Times10(p[k]) + digits[k + 1] > Arith!Top
  <2>2. Over(k + 1) <=> Over(k) \/ more
    <3>1. \A j : j \in 1 .. k + 1 <=> j \in 1 .. k \/ j = k + 1
      OBVIOUS
    <3> QED BY <2>1, <3>1
  <2>3. digits[k + 1] \in 0 .. 9
    BY <1>0, <2>1
  <2>4. p[k + 1] = Arith!AddDigit(p[k], digits[k + 1]) /\ q[k + 1] = q[k] * 10 + digits[k + 1]
    BY <1>4, <2>1
  <2> HIDE DEF Over
  <2> DEFINE o == IF Over(k) THEN TRUE ELSE FALSE
  <2>5. /\ p[k] \in Nat /\ q[k] \in Nat
        /\ ~o => p[k] = Arith!Lesser(q[k], Arith!Top)
        /\ o => q[k] > Arith!Top
    BY <1>6
  <2>6. o \in BOOLEAN /\ (o <=> Over(k))
    OBVIOUS
  <2>7. Arith!Times10(p[k]) \in Nat
    BY <2>5, <1>14 DEF Arith!Times10, Arith!Lesser
  <2> HIDE DEF o, Good
  <2>8. /\ ~o /\ Arith!Times10(p[k]) + digits[k + 1] <= Arith!Top =>
                p[k + 1] = Arith!Lesser(q[k + 1], Arith!Top)
        /\ o \/ Arith!Times10(p[k]) + digits[k + 1] > Arith!Top => q[k + 1] > Arith!Top
        /\ q[k + 1] \in Nat
    <3> DEFINE u == p[k] v == q[k] d == digits[k + 1]
    <3>1. /\ u \in Nat /\ v \in Nat /\ d \in 0 .. 9 /\ o \in BOOLEAN
          /\ ~o => u = Arith!Lesser(v, Arith!Top)
          /\ o => v > Arith!Top
      BY <2>3, <2>5, <2>6
    <3>2. p[k + 1] = Arith!AddDigit(u, d) /\ q[k + 1] = v * 10 + d
      BY <2>4
    <3> HIDE DEF u, v, d
    <3>3. /\ ~o /\ Arith!Times10(u) + d <= Arith!Top =>
                Arith!AddDigit(u, d) = Arith!Lesser(v * 10 + d, Arith!Top)
          /\ o \/ Arith!Times10(u) + d > Arith!Top => v * 10 + d > Arith!Top
          /\ v * 10 + d \in Nat
      BY <3>1, DigitStep
    <3> QED BY <3>2, <3>3 DEF u, v, d
  <2>9. more \/ Arith!Times10(p[k]) + digits[k + 1] <= Arith!Top
    BY <1>14, <2>3, <2>7
  <2>10. p[k + 1] \in Nat
    <3> DEFINE x == Arith!Times10(p[k]) + digits[k + 1]
    <3>1. x \in Int
      BY <2>3, <2>7
    <3>2. p[k + 1] = x % Machine
      BY <2>4 DEF Arith!AddDigit
    <3> HIDE DEF x
    <3> QED BY <3>1, <3>2, WordParts, IntDivision
  <2>11. Good(k + 1)
    BY <2>2, <2>6, <2>8, <2>9, <2>10 DEF Good
  <2> QED BY <2>1, <2>11
<1>7. N \in G
  <2>1. N \in 0 .. N
    BY <1>0
  <2> HIDE DEF G
  <2> QED BY <1>0, <1>5, <1>6, <2>1, Upwards
<1>8. Good(N)
  <2> HIDE DEF Good
  <2> QED BY <1>7
<1>9. Arith!AccumulatePanics(digits) <=> Over(N)
  <2>1. DOMAIN digits = 1 .. N
    OBVIOUS
  <2> QED BY <2>1 DEF Arith!AccumulatePanics, p
<1> HIDE DEF Over
<1> DEFINE number == NumberRead(digits)
<1>10. /\ number \in Nat /\ Arith!Accumulate(digits) \in Nat
       /\ ~Arith!AccumulatePanics(digits) => Arith!Accumulate(digits) = Arith!Lesser(number, Arith!Top)
       /\ Arith!AccumulatePanics(digits) => number > Arith!Top
  BY <1>2, <1>8, <1>9
<1>11. Arith!Triggered045(digits, TRUE) => Arith!AccumulatePanics(digits)
  BY DEF Arith!Triggered045
<1>12. number < Machine - 6 => Arith!Triggered045(digits, FALSE)
  <2> HIDE DEF number
  <2> SUFFICES ASSUME number < Machine - 6 PROVE Arith!Accumulate(digits) < Machine - 6
    BY DEF Arith!Triggered045
  <2>1. ~Arith!AccumulatePanics(digits) /\ number <= Arith!Top
    BY <1>10, WordParts DEF Arith!Top
  <2>2. Arith!Accumulate(digits) = number
    BY <1>10, <2>1 DEF Arith!Lesser
  <2> QED BY <2>2
<1>13. number = LET read[k \in 0 .. Len(digits)] == IF k = 0 THEN 0 ELSE read[k - 1] * 10 + digits[k]
                IN  read[Len(digits)]
  BY NumberIs
<1> HIDE DEF number
<1> QED BY <1>10, <1>11, <1>12, <1>13 DEF Arith!ExponentExact, Arith!NumberOf

\* 090 and 091: the lane of an index.
LEMMA Lanes ==
    ASSUME NEW idx \in Nat, NEW lanes \in Nat \ {0} PROVE Arith!LanesExact(idx, lanes)
<1> DEFINE q == idx \div lanes r == idx % lanes b == q % 2 c == q \div 2
<1>1. q \in Nat /\ r \in Nat /\ r < lanes /\ idx = lanes * q + r
  BY Division
<1>2. b \in {0, 1} /\ c \in Nat /\ q = 2 * c + b
  <2> HIDE DEF q
  <2> QED BY <1>1
<1>3. Arith!IdxInVecBuggy(idx, lanes) = b * lanes /\ Arith!IdxInVecFixed(idx, lanes) = r
  BY DEF Arith!IdxInVecBuggy, Arith!IdxInVecFixed
<1>4. idx % lanes = r
  OBVIOUS
<1> HIDE DEF b, c, q, r
<1>5. idx = (2 * lanes) * c + (b * lanes + r)
  <2>1. lanes * (2 * c + b) = (2 * lanes) * c + b * lanes
    BY <1>2
  <2> QED BY <1>1, <1>2, <2>1
<1>6. b * lanes + r \in Nat /\ b * lanes + r < 2 * lanes
  BY <1>1, <1>2
<1>7. idx % (2 * lanes) = b * lanes + r
  <2>1. 2 * lanes \in Nat \ {0} /\ c \in Int
    BY <1>2
  <2> DEFINE m == 2 * lanes s == b * lanes + r
  <2> HIDE DEF m, s
  <2>2. (m * c + s) % m = s
    BY <1>6, <2>1, Quotients DEF m, s
  <2> QED BY <1>5, <2>2 DEF m, s
<1>8. CASE b = 0
  <2>1. b * lanes = 0
    BY <1>8
  <2> QED BY <1>1, <1>3, <1>4, <1>7, <2>1 DEF Arith!LanesExact, Arith!Triggered090
<1>9. CASE b = 1
  <2>1. b * lanes = lanes
    BY <1>9
  <2> QED BY <1>1, <1>3, <1>4, <1>7, <2>1 DEF Arith!LanesExact, Arith!Triggered090
<1> QED BY <1>2, <1>8, <1>9

\* 099: the index of a power, for any exponent.
LEMMA Cached == ASSUME NEW gamma \in Int PROVE Arith!CachedIndex(gamma)
<1> DEFINE a == (gamma + 1081) * 80
<1>1. Arith!CachedPower(gamma) = Arith!Towards0(a, 2105)
  <2>1. /\ gamma - (-64 + 1 - 1018) = gamma + 1081 /\ 81 - 1 = 80 /\ 1018 - (-1087) = 2105
    OBVIOUS
  <2> QED BY <2>1, SMT DEF Arith!CachedPower, Arith!LastE, Arith!FirstE, Arith!TableLen
<1>2. ASSUME gamma >= -1081
      PROVE  /\ Arith!CachedPower(gamma) = a \div 2105
             /\ a \div 2105 \in 0 .. 80 <=> gamma <= 1050
             /\ gamma = -1081 => a \div 2105 = 0
  <2>1. a >= 0 /\ a \in Int
    BY <1>2
  <2>2. Arith!CachedPower(gamma) = a \div 2105
    BY <1>1, <2>1, SMT DEF Arith!Towards0
  <2> QED BY <1>2, <2>2, SMT
<1>3. ASSUME gamma < -1081
      PROVE  /\ Arith!CachedPower(gamma) = -((-a) \div 2105)
             /\ -((-a) \div 2105) \in 0 .. 80 <=> gamma >= -1107
             /\ gamma >= -1107 => -((-a) \div 2105) = 0
  <2>1. ~(a >= 0) /\ a \in Int
    BY <1>3
  <2>2. Arith!CachedPower(gamma) = -((-a) \div 2105)
    BY <1>1, <2>1, SMT DEF Arith!Towards0
  <2> QED BY <1>3, <2>2, SMT
<1>4. 0 .. Arith!TableLen - 1 = 0 .. 80
  BY SMT DEF Arith!TableLen
<1>5. Arith!Triggered099(gamma) <=> Arith!CachedPower(gamma) \notin 0 .. 80
  BY <1>4 DEF Arith!Triggered099
<1> HIDE DEF a
<1> QED BY <1>2, <1>3, <1>5, SMT DEF Arith!CachedIndex

\* 105 and 106: the negation of a word.
LEMMA Negates ==
    ASSUME NEW t \in -Arith!Half .. Arith!Half - 1, NEW int \in Nat \ {0}, NEW checks \in BOOLEAN
    PROVE  Arith!NegatesExact(t, int, checks)
<1> DEFINE h == Arith!Half
<1>0. h \in Nat \ {0} /\ t \in Int /\ t >= -h /\ t < h
  BY WordParts
<1>1. t < 0 => Arith!Signed(-t) = IF t = -h THEN -h ELSE -t
  <2>1. CASE t = -h
    <3>1. Arith!Signed(h) = -h /\ -t = h
      BY <1>0, <2>1, SignedIs
    <3> QED BY <2>1, <3>1
  <2>2. CASE t # -h
    BY <1>0, <2>2, SignedFits
  <2> QED BY <2>1, <2>2
<1>2. CASE t >= 0
  BY <1>0, <1>2 DEF Arith!NegatesExact, Arith!CvtPanics, Arith!Cvt
<1>3. CASE t < 0
  <2>1. Arith!Cvt(t) = [err |-> Arith!Signed(-t)]
    BY <1>3 DEF Arith!Cvt
  <2>2. Arith!Cvt(t).err = Arith!Signed(-t)
    BY <2>1
  <2>3. Arith!CvtPanics(t, int, checks) <=>
            (checks /\ t = -h) \/ Arith!Signed(-t) \notin -int .. int - 1
    BY <1>3 DEF Arith!CvtPanics, Arith!NegationPanics
  <2> HIDE DEF h
  <2>4. CASE t = -h
    <3>1. Arith!Signed(-t) = -h
      BY <1>1, <1>3, <2>4
    <3> QED BY <1>0, <1>3, <2>2, <2>3, <2>4, <3>1 DEF Arith!NegatesExact, h
  <2>5. CASE t # -h
    <3>1. Arith!Signed(-t) = -t
      BY <1>1, <1>3, <2>5
    <3> QED BY <1>0, <1>3, <2>2, <2>3, <2>5, <3>1 DEF Arith!NegatesExact, h
  <2> QED BY <2>4, <2>5
<1> QED BY <1>0, <1>2, <1>3
\* A product depends on its factors by their remainders only.
LEMMA ProductOfSums ==
    ASSUME NEW m \in Nat, NEW p \in Int, NEW q \in Int, NEW a \in Int, NEW b \in Int
    PROVE  /\ (a + m * p) * (b + m * q) = a * b + m * (a * q + b * p + m * (p * q))
           /\ a * q + b * p + m * (p * q) \in Int
<1>1. (a + m * p) * (b + m * q) = (a * b + a * (m * q)) + ((m * p) * b + (m * p) * (m * q))
  <2> DEFINE x == m * p y == m * q
  <2>1. x \in Int /\ y \in Int
    OBVIOUS
  <2> HIDE DEF x, y
  <2> QED BY <2>1
<1>2. a * (m * q) = m * (a * q) /\ (m * p) * b = m * (b * p)
  OBVIOUS
<1>3. (m * p) * (m * q) = m * (m * (p * q))
  OBVIOUS
<1> DEFINE u == a * q v == b * p w == m * (p * q)
<1>4. u \in Int /\ v \in Int /\ w \in Int
  OBVIOUS
<1> HIDE DEF u, v, w
<1>5. m * u + m * v + m * w = m * (u + v + w)
  BY <1>4
<1>6. (a + m * p) * (b + m * q) = a * b + (m * u + m * v + m * w)
  BY <1>1, <1>2, <1>3, <1>4 DEF u, v, w
<1> QED BY <1>4, <1>5, <1>6 DEF u, v, w

\* A whole of a multiple more is the same word, signed or not.
LEMMA SameSigned ==
    ASSUME NEW m \in Nat \ {0}, NEW h \in Int, NEW a \in Int, NEW q \in Int
    PROVE  ((a + m * q + h) % m) - h = ((a + h) % m) - h
<1> DEFINE b == a + h
<1>1. b \in Int /\ a + m * q + h = b + m * q
  OBVIOUS
<1> HIDE DEF b
<1>2. (b + m * q) % m = b % m
  BY <1>1, SameRemainder
<1> QED BY <1>1, <1>2 DEF b

WideSum(a, b, c, d) ==
    Arith8!Wide(Arith8!Wide(a) * Arith8!Wide(b) + Arith8!Wide(c) + Arith8!Wide(d))
WordsApart(u, x) == \E k \in Int : u = x + (Narrow * Narrow) * k

\* 182: the unsigned double word differs from the exact sum by double words.
LEMMA SameWide ==
    ASSUME NEW a \in Int, NEW b \in Int, NEW c \in Int, NEW d \in Int
    PROVE  WordsApart(WideSum(a, b, c, d), a * b + c + d)
<1> DEFINE m == Narrow * Narrow
<1>0. m \in Nat \ {0} /\ m \in Int /\ m \in Nat
  <2>1. Narrow \in Nat \ {0}
    BY WordsAssumption
  <2> QED BY <2>1
<1>1. \A x \in Int : Arith8!Wide(x) = x % m
  BY DEF Arith8!Wide
<1> HIDE DEF m
<1>2. ASSUME NEW x \in Int
      PROVE  \E k \in Int : x % m = x + m * k
  <2> DEFINE q == x \div m
  <2>1. x = m * q + (x % m) /\ q \in Int /\ x % m \in Int
    BY <1>0, IntDivision
  <2> HIDE DEF q
  <2>2. m * (-q) = -(m * q) /\ -q \in Int /\ m * q \in Int
    BY <1>0, <2>1
  <2>3. x % m = x + m * (-q)
    BY <2>1, <2>2
  <2> QED BY <2>2, <2>3
<1>10. \A e \in Int : \E k \in Int : Arith8!Wide(e) = e + m * k
  BY <1>1, <1>2
<1>11. PICK p \in Int : Arith8!Wide(a) = a + m * p
  BY <1>10
<1>12. PICK q \in Int : Arith8!Wide(b) = b + m * q
  BY <1>10
<1>13. PICK r \in Int : Arith8!Wide(c) = c + m * r
  BY <1>10
<1>14. PICK s \in Int : Arith8!Wide(d) = d + m * s
  BY <1>10
<1>3. /\ Arith8!Wide(a) = a + m * p /\ Arith8!Wide(b) = b + m * q
      /\ Arith8!Wide(c) = c + m * r /\ Arith8!Wide(d) = d + m * s
  BY <1>11, <1>12, <1>13, <1>14
<1> DEFINE t == a * q + b * p + m * (p * q) ab == a * b
<1>4. (a + m * p) * (b + m * q) = ab + m * t /\ t \in Int /\ ab \in Int
  BY <1>0, ProductOfSums
<1> HIDE DEF t, ab
<1> DEFINE x == ab + m * t + (c + m * r) + (d + m * s)
<1>5. x = ab + c + d + m * (t + r + s) /\ x \in Int /\ t + r + s \in Int
  <2>1. m * (t + r + s) = m * t + m * r + m * s
    BY <1>0, <1>4
  <2>2. m * t \in Int /\ m * r \in Int /\ m * s \in Int
    BY <1>0, <1>4
  <2> QED BY <1>4, <2>1, <2>2
<1>6. Arith8!Wide(a) * Arith8!Wide(b) + Arith8!Wide(c) + Arith8!Wide(d) = x
  BY <1>3, <1>4
<1> HIDE DEF x
<1>7. PICK k \in Int : x % m = x + m * k
  BY <1>2, <1>5
<1> DEFINE z == t + r + s
<1>8. x % m = ab + c + d + m * (z + k) /\ z + k \in Int
  <2>1. z \in Int
    BY <1>5
  <2>2. x = ab + c + d + m * z
    BY <1>5
  <2> HIDE DEF z
  <2>3. m * (z + k) = m * z + m * k /\ m * z \in Int /\ m * k \in Int
    BY <1>0, <2>1
  <2> QED BY <1>4, <1>7, <2>1, <2>2, <2>3
<1>9. Arith8!Wide(x) = x % m
  BY <1>1, <1>5
<1> HIDE DEF z
<1> QED BY <1>6, <1>8, <1>9 DEF m, ab, WordsApart, WideSum

\* 182: the two widenings are the same for all operands, so that the assertion of
\* its line 28 fails.
THEOREM Widens ==
    ASSUME NEW a \in Int, NEW b \in Int PROVE Arith8!WideningAgrees(a, b)
<1> DEFINE w == Narrow h == Arith8!Half
<1>0. w \in Nat \ {0} /\ w \in Int /\ h \in Int
  BY WordsAssumption DEF Arith8!Half
<1> SUFFICES ASSUME NEW c \in -h .. h - 1, NEW d \in -h .. h - 1
    PROVE  Arith8!UnsignedWidening(a, b, c, d) = Arith8!SignedWidening(a, b, c, d)
  BY DEF Arith8!WideningAgrees, Arith8!Triggered182
<1> DEFINE x == a * b + c + d
           u == Arith8!Wide(Arith8!Wide(a) * Arith8!Wide(b) + Arith8!Wide(c) + Arith8!Wide(d))
<1>1. c \in Int /\ d \in Int
  BY <1>0
<1>2. x \in Int
  <2>1. a * b \in Int
    OBVIOUS
  <2> HIDE DEF h
  <2> QED BY <1>1, <2>1
<1>3. PICK k \in Int : u = x + (w * w) * k
  <2>1. WordsApart(WideSum(a, b, c, d), a * b + c + d)
    BY <1>1, SameWide
  <2> QED BY <2>1 DEF WordsApart, WideSum
<1>4. Arith8!UnsignedWidening(a, b, c, d) = Arith8!Words2(u % w, u \div w)
  BY DEF Arith8!UnsignedWidening
<1>5. Arith8!SignedWidening(a, b, c, d) = Arith8!Words2(x % w, x \div w)
  BY DEF Arith8!SignedWidening
<1>6. u = x + w * (w * k) /\ w * k \in Int
  <2> HIDE DEF u, x, w
  <2>1. (w * w) * k = w * (w * k) /\ w * k \in Int
    BY <1>0
  <2> QED BY <1>3, <2>1
<1> HIDE DEF x, u, w, h
<1> DEFINE v == w * k
<1>7. u % w = x % w /\ u \div w = x \div w + v
  <2>1. v \in Int /\ u = x + w * v
    BY <1>6
  <2> HIDE DEF v
  <2> QED BY <1>0, <1>2, <2>1, SameRemainder
<1> DEFINE y == x \div w
<1>8. y \in Int
  BY <1>0, <1>2, IntDivision
<1> HIDE DEF y
<1>9. Arith8!Signed(y + w * k) = Arith8!Signed(y)
  <2>1. \A z : Arith8!Signed(z) = ((z + h) % w) - h
    BY DEF Arith8!Signed, h, w
  <2>2. ((y + w * k + h) % w) - h = ((y + h) % w) - h
    BY <1>0, <1>8, SameSigned
  <2> QED BY <2>1, <2>2
<1>10. Arith8!Words2(u % w, u \div w) = Arith8!Words2(x % w, y)
  BY <1>7, <1>9 DEF Arith8!Words2, y
<1> QED BY <1>4, <1>5, <1>10 DEF y
\* 143 and 144: what is accepted, by names that keep the provers from the numbers.
UefiYears == 1900 .. 9999
Hours == 0 .. 23
Minutes == 0 .. 60
Zones == -1440 .. 1440
LastDays == {28, 29}
Months == 1 .. 12

\* 143 and 144: the days of the months before one, from March on.
DaysBefore(month) ==
    CASE month = 1 -> 306 [] month = 2 -> 337 [] month = 3 -> 0 [] month = 4 -> 31
      [] month = 5 -> 61 [] month = 6 -> 92 [] month = 7 -> 122 [] month = 8 -> 153
      [] month = 9 -> 184 [] month = 10 -> 214 [] month = 11 -> 245 [] month = 12 -> 275

YearsFrom(y) == y * 365 + y \div 4 - y \div 100 + y \div 400

\* The year of a month, from March on.
YearOf(year, month) == IF month < 3 THEN year + 4799 ELSE year + 4800

LEMMA MonthsOf ==
    ASSUME NEW month \in 1 .. 12
    PROVE  ((IF month < 3 THEN month + 9 ELSE month - 3) * 62719 + 769) \div 2048 = DaysBefore(month)
<1>1. /\ (0 * 62719 + 769) \div 2048 = 0 /\ (1 * 62719 + 769) \div 2048 = 31
      /\ (2 * 62719 + 769) \div 2048 = 61 /\ (3 * 62719 + 769) \div 2048 = 92
      /\ (4 * 62719 + 769) \div 2048 = 122 /\ (5 * 62719 + 769) \div 2048 = 153
      /\ (6 * 62719 + 769) \div 2048 = 184 /\ (7 * 62719 + 769) \div 2048 = 214
      /\ (8 * 62719 + 769) \div 2048 = 245 /\ (9 * 62719 + 769) \div 2048 = 275
      /\ (10 * 62719 + 769) \div 2048 = 306 /\ (11 * 62719 + 769) \div 2048 = 337
  BY SMT
<1> DEFINE k == IF month < 3 THEN month + 9 ELSE month - 3
<1>2. month < 3 \/ month >= 3
  OBVIOUS
<1>3. CASE month < 3
  <2>1. (month = 1 /\ k = 10) \/ (month = 2 /\ k = 11)
    BY <1>3, SMT
  <2> HIDE DEF k
  <2>2. (k * 62719 + 769) \div 2048 = DaysBefore(month)
    BY <1>1, <2>1, SMT DEF DaysBefore
  <2> QED BY <2>2 DEF k
<1>4. CASE month >= 3
  <2>1. month \in 3 .. 12 /\ k = month - 3
    BY <1>4, SMT
  <2>2. \/ month = 3 \/ month = 4 \/ month = 5 \/ month = 6 \/ month = 7
        \/ month = 8 \/ month = 9 \/ month = 10 \/ month = 11 \/ month = 12
    BY <2>1, SMT
  <2> HIDE DEF k
  <2>3. (k * 62719 + 769) \div 2048 = DaysBefore(month)
    BY <1>1, <2>1, <2>2, SMT DEF DaysBefore
  <2> QED BY <2>3 DEF k
<1> QED BY <1>2, <1>3, <1>4

\* 144: the days of a date.
LEMMA DaysAre ==
    ASSUME NEW year \in Nat, NEW month \in Months, NEW day \in Int,
           NEW t, t.year = year, t.month = month, t.day = day
    PROVE  /\ Time!Days(t) = YearsFrom(YearOf(year, month)) + DaysBefore(month) + day - 2447066
           /\ YearsFrom(YearOf(year, month)) \in Int /\ DaysBefore(month) \in Int
<1>1. Time!YearFromMarch(t) = YearOf(year, month)
  BY SMT DEF Time!YearFromMarch, YearOf, Months
<1>2. (Time!MonthFromMarch(t) * 62719 + 769) \div 2048 = DaysBefore(month)
  BY MonthsOf DEF Time!MonthFromMarch, Months
<1>3. YearOf(year, month) \in Nat
  BY SMT DEF YearOf, Months
<1> DEFINE y == YearOf(year, month)
<1>4. YearsFrom(y) \in Int
  <2> HIDE DEF y
  <2> QED BY <1>3, SMT DEF YearsFrom, y
<1>5. DaysBefore(month) \in Int
  BY SMT DEF DaysBefore, Months
<1>6. Time!Days(t) = YearsFrom(y) + DaysBefore(month) + (t.day - 1) - 2447065
  <2> DEFINE from == Time!YearFromMarch(t) before == (Time!MonthFromMarch(t) * 62719 + 769) \div 2048
  <2>1. Time!Days(t) = from * 365 + from \div 4 - from \div 100 + from \div 400
                        + before + (t.day - 1) - 2447065
    BY DEF Time!Days
  <2>2. from = y /\ before = DaysBefore(month)
    BY <1>1, <1>2
  <2> HIDE DEF from, before, y
  <2> QED BY <2>1, <2>2, SMT DEF YearsFrom
<1> QED BY <1>4, <1>5, <1>6, SMT

\* The years from March on follow each other by the leap years.
LEMMA NextYear ==
    ASSUME NEW year \in Nat
    PROVE  YearsFrom(year + 4800) = YearsFrom(year + 4799) + (IF Time!Leap(year) THEN 366 ELSE 365)
<1> DEFINE y == year + 4800
<1>1. y \in Nat /\ y >= 4800 /\ year = y - 4800 /\ year + 4799 = y - 1
  BY SMT
<1> HIDE DEF y
<1>2. y \div 4 = (y - 1) \div 4 + (IF year % 4 = 0 THEN 1 ELSE 0)
  BY <1>1, SMT
<1>3. y \div 100 = (y - 1) \div 100 + (IF year % 100 = 0 THEN 1 ELSE 0)
  BY <1>1, SMT
<1>4. y \div 400 = (y - 1) \div 400 + (IF year % 400 = 0 THEN 1 ELSE 0)
  BY <1>1, SMT
<1>5. (year % 100 = 0 => year % 4 = 0) /\ (year % 400 = 0 => year % 100 = 0)
  BY <1>1, SMT
<1>6. YearsFrom(y) = YearsFrom(y - 1) + (IF Time!Leap(year) THEN 366 ELSE 365)
  BY <1>1, <1>2, <1>3, <1>4, <1>5, SMT DEF YearsFrom, Time!Leap
<1> QED BY <1>1, <1>6 DEF y

\* The first of a month is the day after the last of the one before.
LEMMA MonthsFollow ==
    ASSUME NEW year \in Nat, NEW month \in Months, NEW day \in Int
    PROVE  Time!Days(Time!NextMonth(year, month, day))
            = Time!Days(Time!Date(year, month, day)) + Time!MonthLength(year, month)
<1> DEFINE to == Time!Date(year, month, day) next == Time!NextMonth(year, month, day)
           nextYear == IF month = 12 THEN year + 1 ELSE year
           nextMonth == IF month = 12 THEN 1 ELSE month + 1
<1>1. to.year = year /\ to.month = month /\ to.day = day
  BY DEF Time!Date, Time!Clock
<1>2. next.year = nextYear /\ next.month = nextMonth /\ next.day = day
  BY DEF Time!NextMonth, Time!Date, Time!Clock
<1>3. nextYear \in Nat /\ nextMonth \in Months
  BY SMT DEF Months
<1> HIDE DEF to, next
<1>4. Time!Days(to) = YearsFrom(YearOf(year, month)) + DaysBefore(month) + day - 2447066
  BY <1>1, DaysAre
<1>5. Time!Days(next) = YearsFrom(YearOf(nextYear, nextMonth)) + DaysBefore(nextMonth) + day - 2447066
  <2> HIDE DEF nextYear, nextMonth
  <2> QED BY <1>2, <1>3, DaysAre
<1>6. /\ YearsFrom(YearOf(year, month)) \in Int /\ DaysBefore(month) \in Int
  BY <1>1, DaysAre
<1>7. CASE month = 2
  <2>1. nextYear = year /\ nextMonth = 3 /\ YearOf(year, 3) = year + 4800 /\ YearOf(year, 2) = year + 4799
    BY <1>7, SMT DEF YearOf
  <2>2. DaysBefore(2) = 337 /\ DaysBefore(3) = 0
    BY SMT DEF DaysBefore
  <2>3. Time!MonthLength(year, 2) = IF Time!Leap(year) THEN 29 ELSE 28
    BY DEF Time!MonthLength
  <2> HIDE DEF nextYear, nextMonth
  <2>4. YearsFrom(year + 4799) \in Int
    BY <1>6, <1>7, <2>1
  <2> QED BY <1>4, <1>5, <1>7, <2>1, <2>2, <2>3, <2>4, NextYear, SMT DEF to, next
<1>8. CASE month # 2
  <2>1. YearOf(nextYear, nextMonth) = YearOf(year, month)
    BY <1>8, SMT DEF YearOf, Months
  <2>2. DaysBefore(nextMonth) = DaysBefore(month) + Time!MonthLength(year, month)
    BY <1>8, SMT DEF DaysBefore, Time!MonthLength, Months
  <2> DEFINE y == YearsFrom(YearOf(year, month)) b == DaysBefore(month) l == Time!MonthLength(year, month)
  <2>3. y \in Int /\ b \in Int
    BY <1>6
  <2>4. l \in Int
    BY SMT DEF Time!MonthLength
  <2>5. Time!Days(next) = y + (b + l) + day - 2447066 /\ Time!Days(to) = y + b + day - 2447066
    BY <1>4, <1>5, <2>1, <2>2
  <2> HIDE DEF y, b, l
  <2> QED BY <2>3, <2>4, <2>5, SMT DEF l, to, next
<1> QED BY <1>7, <1>8

\* 144: within a month, the days follow each other.
LEMMA DayAfter ==
    ASSUME NEW year \in Nat, NEW month \in Months, NEW day \in Int, NEW other \in Int
    PROVE  /\ Time!Days(Time!Date(year, month, other))
                = Time!Days(Time!Date(year, month, day)) + (other - day)
           /\ Time!Days(Time!Date(year, month, day)) \in Int
<1> DEFINE to == Time!Date(year, month, day) next == Time!Date(year, month, other)
<1>1. to.year = year /\ to.month = month /\ to.day = day
  BY DEF Time!Date, Time!Clock
<1>2. next.year = year /\ next.month = month /\ next.day = other
  BY DEF Time!Date, Time!Clock
<1> HIDE DEF to, next
<1> DEFINE y == YearsFrom(YearOf(year, month)) b == DaysBefore(month)
<1>3. Time!Days(to) = y + b + day - 2447066 /\ y \in Int /\ b \in Int
  BY <1>1, DaysAre
<1>4. Time!Days(next) = y + b + other - 2447066
  BY <1>2, DaysAre
<1> HIDE DEF y, b
<1> QED BY <1>3, <1>4, SMT DEF to, next

\* 144: the dates of a year.
LEMMA DaysOfYear == ASSUME NEW year \in Nat, year \in UefiYears PROVE Time!DaysFollow(year)
<1>0. year \in Nat /\ 1 \in Months /\ 1 \in Int
  BY SMT DEF Months
<1>1. Time!Days(Time!Date(1900, 1, 1)) = 0
  <2> DEFINE t == Time!Date(1900, 1, 1)
  <2>1. t.year = 1900 /\ t.month = 1 /\ t.day = 1
    BY DEF Time!Date, Time!Clock
  <2> HIDE DEF t
  <2>2. Time!Days(t) = YearsFrom(YearOf(1900, 1)) + DaysBefore(1) + 1 - 2447066
    <3>1. 1900 \in Nat
      OBVIOUS
    <3> QED BY <1>0, <2>1, <3>1, DaysAre
  <2>3. YearOf(1900, 1) = 6699 /\ DaysBefore(1) = 306
    BY SMT DEF YearOf, DaysBefore
  <2>4. YearsFrom(6699) = 2446759
    BY SMT DEF YearsFrom
  <2> QED BY <2>2, <2>3, <2>4, SMT DEF t
<1>2. ASSUME NEW month \in Months
      PROVE  /\ \A day \in 1 .. Time!MonthLength(year, month) - 1 :
                  Time!Days(Time!Date(year, month, day + 1)) = Time!Days(Time!Date(year, month, day)) + 1
             /\ Time!Days(Time!NextMonth(year, month, 1))
                  = Time!Days(Time!Date(year, month, Time!MonthLength(year, month))) + 1
             /\ \A day \in Time!MonthLength(year, month) + 1 .. 31 :
                  /\ Time!Accepted(Time!Date(year, month, day))
                  /\ Time!Days(Time!Date(year, month, day))
                        = Time!Days(Time!NextMonth(year, month, day - Time!MonthLength(year, month)))
  <2> DEFINE last == Time!MonthLength(year, month) D(d) == Time!Days(Time!Date(year, month, d))
             M(d) == Time!Days(Time!NextMonth(year, month, d))
  <2>1. last \in Int /\ last >= 0
    BY SMT DEF Time!MonthLength
  <2> HIDE DEF last
  <2>2. \A d \in Int, e \in Int : D(e) = D(d) + (e - d) /\ D(d) \in Int
    BY <1>0, DayAfter
  <2>3. \A d \in Int : M(d) = D(d) + last
    BY <1>0, MonthsFollow DEF last
  <2>4. ASSUME NEW day \in 1 .. last - 1 PROVE D(day + 1) = D(day) + 1
    <3>1. day \in Int /\ day + 1 \in Int /\ day + 1 - day = 1
      BY <2>1
    <3> HIDE DEF D
    <3>2. D(day + 1) = D(day) + (day + 1 - day)
      BY <2>2, <3>1
    <3> QED BY <3>1, <3>2
  <2>5. M(1) = D(last) + 1
    <3> HIDE DEF M, D
    <3>1. M(1) = D(1) + last /\ D(1) \in Int
      BY <1>0, <2>2, <2>3
    <3>2. D(1) = D(last) + (1 - last) /\ D(last) \in Int
      BY <1>0, <2>1, <2>2
    <3> QED BY <2>1, <3>1, <3>2, SMT
  <2>6. ASSUME NEW day \in last + 1 .. 31
        PROVE  Time!Accepted(Time!Date(year, month, day)) /\ D(day) = M(day - last)
    <3>1. day \in Int /\ day - last \in Int /\ day \in 1 .. 31 /\ day - last + last = day
      BY <2>1
    <3>2. D(day) = M(day - last)
      <4> HIDE DEF M, D
      <4> QED BY <2>1, <2>2, <2>3, <3>1
    <3>3. Time!Accepted(Time!Date(year, month, day))
      <4> DEFINE t == Time!Date(year, month, day)
      <4>1. /\ t.year = year /\ t.month = month /\ t.day = day
            /\ t.hour = 0 /\ t.minute = 0 /\ t.second = 0 /\ t.timezone = 0
        BY DEF Time!Date, Time!Clock
      <4> HIDE DEF t
      <4>2. Time!Accepted(t)
        BY <3>1, <4>1, SMT DEF Time!Accepted, UefiYears, Months
      <4> QED BY <4>2 DEF t
    <3> QED BY <3>2, <3>3
  <2> QED BY <2>4, <2>5, <2>6 DEF last
<1> QED BY <1>1, <1>2 DEF Time!DaysFollow, Months

SecondsOf(hour, minute, zone) == minute * 60 + hour * 3600 + (zone + 1440) * 60
TimeAfter(days, seconds) == <<days + seconds \div Time!Day, seconds % Time!Day>>
InFebruary(year, day, hour, minute, zone) == Time!FromUefi(Time!Clock(year, 2, day, hour, minute, zone))

\* 143 and 144: the seconds of a time, and its days, if it is accepted.
LEMMA TimeIs ==
    ASSUME NEW year \in Nat, year \in UefiYears, NEW day \in LastDays, NEW hour \in Hours,
           NEW minute \in Minutes, NEW zone \in Zones
    PROVE  InFebruary(year, day, hour, minute, zone)
            = TimeAfter(Time!Days(Time!Date(year, 2, 28)) + (day - 28), SecondsOf(hour, minute, zone))
<1> DEFINE seconds == SecondsOf(hour, minute, zone)
<1>7. seconds = minute * 60 + hour * 3600 + (zone + 1440) * 60
  BY DEF SecondsOf
<1> HIDE DEF seconds
<1> DEFINE t == Time!Clock(year, 2, day, hour, minute, zone)
<1>1. /\ t.year = year /\ t.month = 2 /\ t.day = day /\ t.hour = hour /\ t.minute = minute
      /\ t.second = 0 /\ t.timezone = zone
  BY DEF Time!Clock
<1>2. day \in Int
  BY SMT DEF LastDays
<1> HIDE DEF t
<1>3. Time!Accepted(t)
  BY <1>1, SMT DEF Time!Accepted, UefiYears, LastDays, Hours, Minutes, Zones
<1>4. Time!Days(t) = Time!Days(Time!Date(year, 2, 28)) + (day - 28)
  <2> DEFINE u == Time!Date(year, 2, day)
  <2>1. u.year = year /\ u.month = 2 /\ u.day = day
    BY DEF Time!Date, Time!Clock
  <2> HIDE DEF u
  <2> DEFINE feb == 2
  <2>2. t.month = feb /\ u.month = feb /\ feb \in Months
    BY <1>1, <2>1, SMT DEF Months
  <2> HIDE DEF feb
  <2>3. Time!Days(t) = Time!Days(u)
    BY <1>1, <1>2, <2>1, <2>2, DaysAre
  <2> DEFINE eve == 28
  <2>4. Time!Days(u) = Time!Days(Time!Date(year, feb, eve)) + (day - eve)
    <3>1. eve \in Int
      OBVIOUS
    <3> HIDE DEF eve
    <3>2. Time!Days(Time!Date(year, feb, day)) = Time!Days(Time!Date(year, feb, eve)) + (day - eve)
      BY <1>2, <2>2, <3>1, DayAfter
    <3> QED BY <3>2 DEF u, feb
  <2> QED BY <2>3, <2>4 DEF feb
<1>5. t.second + t.minute * 60 + t.hour * 3600 + (t.timezone + 1440) * 60 = seconds
  <2>1. hour \in Int /\ minute \in Int /\ zone \in Int
    BY SMT DEF Hours, Minutes, Zones
  <2> QED BY <1>1, <1>7, <2>1, SMT
<1>6. Time!FromUefi(t) = <<Time!Days(t) + seconds \div Time!Day, seconds % Time!Day>>
  BY <1>3, <1>5 DEF Time!FromUefi
<1> QED BY <1>4, <1>6 DEF t, seconds, InFebruary, TimeAfter

\* 143: the 60th minute of an hour.
LEMMA LastMinute ==
    ASSUME NEW year \in Nat, year \in UefiYears, NEW hour \in Hours, NEW zone \in Zones, zone + 60 \in Zones
    PROVE  /\ InFebruary(year, 28, hour, 60, zone) = InFebruary(year, 28, hour, 0, zone + 60)
           /\ InFebruary(year, 28, hour, 60, zone)
                = IF hour < 23 THEN InFebruary(year, 28, hour + 1, 0, zone)
                  ELSE InFebruary(year, 29, 0, 0, zone)
<1> DEFINE days == Time!Days(Time!Date(year, 2, 28))
<1>1. days \in Int
  <2> DEFINE feb == 2 eve == 28
  <2>1. year \in Nat /\ feb \in Months /\ eve \in Int
    BY SMT DEF Months
  <2> HIDE DEF feb, eve
  <2>2. Time!Days(Time!Date(year, feb, eve)) \in Int
    BY <2>1, DayAfter
  <2> QED BY <2>2 DEF feb, eve
<1> DEFINE all == 60 none == 0 eve == 28 leap == 29 east == zone + 60 later == hour + 1
<1>2. /\ east \in Zones /\ (hour < 23 => later \in Hours)
      /\ all \in Minutes /\ none \in Minutes /\ none \in Hours
      /\ eve \in LastDays /\ leap \in LastDays /\ eve - 28 = 0 /\ leap - 28 = 1
  BY SMT DEF Hours, Minutes, LastDays
<1> DEFINE seconds == SecondsOf(hour, all, zone) rest == SecondsOf(none, none, zone)
<1>3. /\ seconds = SecondsOf(hour, none, east) /\ seconds = SecondsOf(later, none, zone)
      /\ rest \in Nat /\ (~(hour < 23) => seconds = rest + 86400)
  BY SMT DEF SecondsOf, Hours, Zones
<1> HIDE DEF days, all, none, eve, leap, east, later, seconds, rest
<1>9. seconds = SecondsOf(hour, none, east) /\ seconds = SecondsOf(later, none, zone)
  BY <1>3
<1>4. InFebruary(year, eve, hour, all, zone) = TimeAfter(days + (eve - 28), seconds)
  BY <1>2, TimeIs DEF days, seconds
<1>5. InFebruary(year, eve, hour, none, east) = TimeAfter(days + (eve - 28), seconds)
  <2>1. InFebruary(year, eve, hour, none, east) = TimeAfter(days + (eve - 28), SecondsOf(hour, none, east))
    <3>1. east \in Zones /\ none \in Minutes /\ eve \in LastDays
      BY <1>2
    <3> QED BY <3>1, TimeIs, Zenon DEF days
  <2> QED BY <1>9, <2>1
<1>6. hour < 23 => InFebruary(year, eve, later, none, zone) = TimeAfter(days + (eve - 28), seconds)
  <2>1. hour < 23 =>
            InFebruary(year, eve, later, none, zone)
                = TimeAfter(days + (eve - 28), SecondsOf(later, none, zone))
    <3>1. none \in Minutes /\ eve \in LastDays /\ (hour < 23 => later \in Hours)
      BY <1>2
    <3> QED BY <3>1, TimeIs, Zenon DEF days
  <2> QED BY <1>9, <2>1
<1>7. InFebruary(year, leap, none, none, zone) = TimeAfter(days + (leap - 28), rest)
  BY <1>2, TimeIs DEF days, rest
<1>8. ~(hour < 23) => TimeAfter(days + (leap - 28), rest) = TimeAfter(days + (eve - 28), seconds)
  <2> SUFFICES ASSUME ~(hour < 23)
      PROVE TimeAfter(days + (leap - 28), rest) = TimeAfter(days + (eve - 28), seconds)
    OBVIOUS
  <2>1. seconds % Time!Day = rest % Time!Day
    BY <1>3, SMT DEF Time!Day
  <2>2. days + (eve - 28) + seconds \div Time!Day = days + (leap - 28) + rest \div Time!Day
    <3>1. seconds \div Time!Day = rest \div Time!Day + 1 /\ rest \div Time!Day \in Int
      BY <1>3, SMT DEF Time!Day
    <3> QED BY <1>1, <1>2, <3>1, SMT
  <2> QED BY <2>1, <2>2 DEF TimeAfter
<1> QED BY <1>4, <1>5, <1>6, <1>7, <1>8 DEF all, none, eve, leap, east, later

\* 143: the clock of a year.
LEMMA ClockOfYear == ASSUME NEW year \in Nat, year \in UefiYears PROVE Time!ClockFollows(year)
<1> SUFFICES ASSUME NEW hour \in 0 .. 23, NEW zone \in {-1440, -720, -60, 0, 720, 1380}
    PROVE  /\ InFebruary(year, 28, hour, 60, zone) = InFebruary(year, 28, hour, 0, zone + 60)
           /\ InFebruary(year, 28, hour, 60, zone)
                = IF hour < 23 THEN InFebruary(year, 28, hour + 1, 0, zone)
                  ELSE InFebruary(year, 29, 0, 0, zone)
  BY DEF Time!ClockFollows, InFebruary
<1>1. hour \in Hours /\ zone \in Zones /\ zone + 60 \in Zones
  BY SMT DEF Hours, Zones
<1> QED BY <1>1, LastMinute
\* The arithmetic of machine words of any width, and of the calendar in every
\* year of UEFI, is as is said of it for any operands.
THEOREM ArithmeticHolds == Spec => []ArithmeticExact
<1>1. InputInv => ArithmeticExact
  <2> SUFFICES ASSUME InputInv PROVE ArithmeticExact
    OBVIOUS
  <2>0. program \in Pure => input \in Given(program)
    BY DEF InputInv, Running, Pure
  <2> USE DEF ArithmeticExact
  <2>1. CASE program = "stack"
    <3>1. input \in 0 .. Machine - 1
      BY <2>0, <2>1 DEF Pure, Given
    <3> QED BY <2>1, <3>1, Stack
  <2>2. CASE program = "digits"
    <3>1. input \in Seq(0 .. 9)
      BY <2>0, <2>2 DEF Pure, Given
    <3> QED BY <2>2, <3>1, Exponent
  <2>3. CASE program = "advance"
    <3>1. input \in (-Arith!Half .. Arith!Half - 1) \X Nat
      BY <2>0, <2>3 DEF Pure, Given
    <3>2. input[1] \in -Arith!Half .. Arith!Half - 1 /\ input[2] \in Nat
      BY <3>1
    <3> QED BY <2>3, <3>2, Advance
  <2>4. CASE program = "lanes"
    <3>1. input \in Nat \X (Nat \ {0})
      BY <2>0, <2>4 DEF Pure, Given
    <3>2. input[1] \in Nat /\ input[2] \in Nat \ {0}
      BY <3>1
    <3> QED BY <2>4, <3>2, Lanes
  <2>5. CASE program = "power"
    <3>1. input \in Int
      BY <2>0, <2>5 DEF Pure, Given
    <3> QED BY <2>5, <3>1, Cached
  <2>6. CASE program = "negate"
    <3>1. input \in (-Arith!Half .. Arith!Half - 1) \X (Nat \ {0}) \X BOOLEAN
      BY <2>0, <2>6 DEF Pure, Given
    <3>2. /\ input[1] \in -Arith!Half .. Arith!Half - 1 /\ input[2] \in Nat \ {0}
          /\ input[3] \in BOOLEAN
      BY <3>1
    <3> QED BY <2>6, <3>2, Negates
  <2>7. CASE program = "time"
    <3>1. input \in 1900 .. 9999
      BY <2>0, <2>7 DEF Pure, Given
    <3>2. input \in Nat /\ input \in UefiYears
      BY <3>1, SMT DEF UefiYears
    <3> QED BY <2>7, <3>2, DaysOfYear, ClockOfYear
  <2> QED BY <2>1, <2>2, <2>3, <2>4, <2>5, <2>6, <2>7
<1> QED BY <1>1, InputsKept, PTL DEF Spec
-----------------------------------------------------------------------------
\* The loops that print now and then.
RssTypes ==
    /\ probe \in {"none", "nested", "siblings"}
    /\ status \in {"looping", "printing", "final", "failed"}
    /\ n \in Nat /\ i \in Nat /\ last_print \in Nat /\ tags \in Nat /\ lines \in Nat /\ line \in Nat

RssFresh ==
    probe = "none" =>
        i = 0 /\ last_print = 0 /\ tags = 0 /\ lines = 0 /\ line = 0 /\ status = "looping"

\* Lines are a whole number of periods apart; a round that prints is one ahead
\* of the counter, and no line is more than a period behind it.
RssCounts(unit, apart, all) ==
    /\ last_print = apart * lines
    /\ status \in {"looping", "final"} => tags = unit * i
    /\ status = "printing" => tags = unit * (i + 1) /\ i - last_print \in 0 .. apart
    /\ status = "failed" => line = tags
    /\ status # "failed" /\ lines > 0 => line = unit * last_print
    /\ status = "looping" => IF i = 0 THEN lines = 0 ELSE i - last_print \in 1 .. apart
    /\ status = "final" => i = all

RssInv == RssTypes /\ RssFresh /\ RssCounts(Rss!Unit, Rss!Apart, Rss!LoopRounds)

LEMMA RssParts ==
    ASSUME RssTypes
    PROVE  Rss!Unit \in Nat \ {0} /\ Rss!Apart \in Nat \ {0} /\ Rss!LoopRounds \in Nat
<1>1. n \div Chunk \in Nat
  BY LoopsAssumption, Division DEF RssTypes
<1> QED BY <1>1, LoopsAssumption DEF RssTypes, Rss!Unit, Rss!Apart, Rss!LoopRounds

\* A write that is taken, and one that is not.
LEMMA RssWrite ==
    ASSUME RssInv, Rss!Write PROVE RssInv'
<1> DEFINE unit == Rss!Unit apart == Rss!Apart all == Rss!LoopRounds
<1>1. unit \in Nat \ {0} /\ apart \in Nat \ {0} /\ all \in Nat
  BY RssParts DEF RssInv
<1>2. unit' = unit /\ apart' = apart /\ all' = all
  BY DEF Rss!Write, Rss!Unit, Rss!Apart, Rss!LoopRounds
<1>3. /\ RssTypes /\ RssCounts(unit, apart, all) /\ probe # "none" /\ probe' = probe /\ status = "looping"
      /\ UNCHANGED <<n, i, last_print, lines>>
      /\ \/ status' = "printing" /\ tags' = tags + unit /\ line' = line
         \/ status' = "failed" /\ line' = i * unit /\ tags' = tags
  BY DEF RssInv, Rss!Write
<1> HIDE DEF unit, apart, all
<1>4. i * unit = unit * i /\ unit * (i + 1) = unit * i + unit /\ i * unit \in Nat
  BY <1>1, <1>3 DEF RssTypes
<1>5. apart * lines = last_print /\ tags = unit * i
  BY <1>3 DEF RssCounts
<1>6. RssTypes'
  BY <1>1, <1>3, <1>4 DEF RssTypes
<1>7. i - last_print \in 0 .. apart
  <2>1. CASE i = 0
    <3>1. lines = 0
      BY <1>3, <2>1 DEF RssCounts
    <3>2. last_print = 0
      BY <1>1, <1>5, <3>1
    <3> QED BY <1>1, <2>1, <3>2
  <2>2. CASE i # 0
    <3>1. i - last_print \in 1 .. apart
      BY <1>3, <2>2 DEF RssCounts
    <3> QED BY <1>1, <3>1
  <2> QED BY <2>1, <2>2
<1>8. RssCounts(unit, apart, all)'
  <2>1. CASE status' = "printing"
    <3>1. tags' = unit * (i + 1) /\ line' = line /\ status' # "failed"
      BY <1>3, <1>4, <1>5, <2>1
    <3>2. lines > 0 => line = unit * last_print
      BY <1>3 DEF RssCounts
    <3> QED BY <1>2, <1>3, <1>5, <1>7, <2>1, <3>1, <3>2 DEF RssCounts
  <2>2. CASE status' = "failed"
    <3>1. line' = tags'
      BY <1>3, <1>4, <1>5, <2>2
    <3> QED BY <1>2, <1>3, <1>5, <2>2, <3>1 DEF RssCounts
  <2> QED BY <1>3, <2>1, <2>2
<1>9. RssFresh'
  BY <1>3 DEF RssFresh
<1> QED BY <1>2, <1>6, <1>8, <1>9 DEF RssInv, unit, apart, all

\* The end of a round, with a line or without.
LEMMA RssPrint ==
    ASSUME RssInv, Rss!PrintLine PROVE RssInv'
<1> DEFINE unit == Rss!Unit apart == Rss!Apart all == Rss!LoopRounds
<1>1. unit \in Nat \ {0} /\ apart \in Nat \ {0} /\ all \in Nat
  BY RssParts DEF RssInv
<1>2. unit' = unit /\ apart' = apart /\ all' = all
  BY DEF Rss!PrintLine, Rss!Unit, Rss!Apart, Rss!LoopRounds
<1>3. /\ RssTypes /\ RssFresh /\ RssCounts(unit, apart, all) /\ status = "printing" /\ status' = "looping"
      /\ UNCHANGED <<probe, n, tags>> /\ i' = i + 1
      /\ \/ i - last_print >= apart /\ last_print' = i /\ lines' = lines + 1 /\ line' = i * unit
         \/ ~(i - last_print >= apart) /\ UNCHANGED <<last_print, lines, line>>
  BY DEF RssInv, Rss!PrintLine
<1> HIDE DEF unit, apart, all
<1>4. i * unit = unit * i /\ apart * (lines + 1) = apart * lines + apart /\ i * unit \in Nat
  BY <1>1, <1>3 DEF RssTypes
<1>5. /\ last_print = apart * lines /\ tags = unit * (i + 1) /\ i - last_print \in 0 .. apart
      /\ lines > 0 => line = unit * last_print
  BY <1>3 DEF RssCounts
<1>6. RssTypes'
  BY <1>1, <1>3, <1>4 DEF RssTypes
<1>7. i + 1 # 0 /\ i \in Int /\ last_print \in Int
  BY <1>3 DEF RssTypes
<1>8. RssCounts(unit, apart, all)'
  <2>1. CASE i - last_print >= apart
    <3>1. last_print' = i /\ lines' = lines + 1 /\ line' = unit * i
      BY <1>3, <1>4, <2>1
    <3>2. i = last_print + apart
      BY <1>1, <1>5, <1>7, <2>1
    <3>3. i = apart * (lines + 1)
      BY <1>4, <1>5, <3>2
    <3>4. i + 1 - i = 1 /\ 1 \in 1 .. apart
      BY <1>1, <1>7
    <3> QED BY <1>2, <1>3, <1>5, <1>7, <3>1, <3>3, <3>4 DEF RssCounts
  <2>2. CASE ~(i - last_print >= apart)
    <3>1. UNCHANGED <<last_print, lines, line>>
      BY <1>3, <2>2
    <3>2. i + 1 - last_print \in 1 .. apart
      BY <1>1, <1>5, <1>7, <2>2
    <3> QED BY <1>2, <1>3, <1>5, <1>7, <3>1, <3>2 DEF RssCounts
  <2> QED BY <2>1, <2>2
<1>9. RssFresh'
  BY <1>3 DEF RssFresh
<1> QED BY <1>2, <1>6, <1>8, <1>9 DEF RssInv, unit, apart, all

\* The argument, the end, and no step at all.
LEMMA RssOthers ==
    ASSUME RssInv, Rss!Start \/ Rss!Finish \/ UNCHANGED rssVars PROVE RssInv'
<1>1. CASE Rss!Start
  <2> DEFINE unit == Rss!Unit' apart == Rss!Apart' all == Rss!LoopRounds'
  <2>0. MaxTags \in Nat
    BY LoopsAssumption
  <2>1. RssTypes'
    BY <1>1, <2>0 DEF RssInv, RssTypes, Rss!Start
  <2>2. unit \in Nat \ {0} /\ apart \in Nat \ {0}
    BY <2>1, LoopsAssumption DEF Rss!Unit, Rss!Apart
  <2>3. /\ i' = 0 /\ last_print' = 0 /\ tags' = 0 /\ lines' = 0 /\ line' = 0 /\ status' = "looping"
        /\ probe' # "none"
    BY <1>1 DEF RssInv, RssFresh, Rss!Start
  <2> HIDE DEF unit, apart, all
  <2>5. unit * 0 = 0 /\ apart * 0 = 0
    BY <2>2
  <2>4. RssCounts(Rss!Unit, Rss!Apart, Rss!LoopRounds)'
    BY <2>3, <2>5 DEF RssCounts, unit, apart, all
  <2> QED BY <2>1, <2>3, <2>4 DEF RssInv, RssFresh
<1>2. CASE Rss!Finish
  <2>1. /\ UNCHANGED <<probe, n, i, last_print, tags, lines, line>> /\ status = "looping" /\ status' = "final"
        /\ i = Rss!LoopRounds /\ probe # "none"
    BY <1>2 DEF Rss!Finish
  <2>2. Rss!Unit' = Rss!Unit /\ Rss!Apart' = Rss!Apart /\ Rss!LoopRounds' = Rss!LoopRounds
    BY <2>1 DEF Rss!Unit, Rss!Apart, Rss!LoopRounds
  <2>3. RssCounts(Rss!Unit, Rss!Apart, Rss!LoopRounds)'
    BY <2>1, <2>2 DEF RssInv, RssCounts
  <2> QED BY <2>1, <2>3 DEF RssInv, RssTypes, RssFresh
<1>3. CASE UNCHANGED rssVars
  <2>1. UNCHANGED <<probe, n, i, last_print, tags, lines, line, status>>
    BY <1>3 DEF rssVars
  <2>2. Rss!Unit' = Rss!Unit /\ Rss!Apart' = Rss!Apart /\ Rss!LoopRounds' = Rss!LoopRounds
    BY <2>1 DEF Rss!Unit, Rss!Apart, Rss!LoopRounds
  <2>3. RssCounts(Rss!Unit, Rss!Apart, Rss!LoopRounds)'
    BY <2>1, <2>2 DEF RssInv, RssCounts
  <2> QED BY <2>1, <2>3 DEF RssInv, RssTypes, RssFresh
<1> QED BY <1>1, <1>2, <1>3

LEMMA RssKept ==
    /\ Init => RssInv
    /\ RssInv /\ [Next]_vars => RssInv'
<1>1. ASSUME Init PROVE RssInv
  <2>1. /\ probe = "none" /\ n = 0 /\ i = 0 /\ last_print = 0
        /\ tags = 0 /\ lines = 0 /\ line = 0 /\ status = "looping"
    BY <1>1 DEF Init, Rss!Init
  <2>2. RssTypes
    BY <2>1 DEF RssTypes
  <2>3. Rss!Unit * 0 = 0 /\ Rss!Apart * 0 = 0
    BY <2>2, RssParts
  <2>4. RssCounts(Rss!Unit, Rss!Apart, Rss!LoopRounds)
    BY <2>1, <2>3 DEF RssCounts
  <2> QED BY <2>1, <2>2, <2>4 DEF RssInv, RssFresh
<1>2. ASSUME RssInv, [Next]_vars PROVE RssInv'
  <2>1. Rss!Next \/ UNCHANGED rssVars
    BY <1>2 DEF Next, vars, rssVars
  <2> QED BY <1>2, <2>1, RssWrite, RssPrint, RssOthers DEF Rss!Next
<1> QED BY <1>1, <1>2

\* The lines are right to one write, and the last of them to none.
LEMMA RssHonest == ASSUME RssInv PROVE Rss!CountsHonest
<1> DEFINE unit == Rss!Unit apart == Rss!Apart all == Rss!LoopRounds
<1>1. unit \in Nat \ {0} /\ apart \in Nat \ {0} /\ all \in Nat
  BY RssParts DEF RssInv
<1>2. /\ RssTypes /\ RssCounts(unit, apart, all)
  BY DEF RssInv
<1>3. status = "final" => tags = n - (n % unit)
  <2> SUFFICES ASSUME status = "final" PROVE tags = n - (n % unit)
    OBVIOUS
  <2>1. tags = unit * all
    BY <1>2 DEF RssCounts
  <2>2. CASE probe = "nested"
    <3>1. unit = Chunk /\ all = n \div Chunk
      BY <2>2 DEF Rss!Unit, Rss!LoopRounds
    <3>2. n = Chunk * (n \div Chunk) + (n % Chunk) /\ n % Chunk \in Nat /\ n \div Chunk \in Nat /\ n \in Nat
      BY <1>2, LoopsAssumption, Division DEF RssTypes
    <3> DEFINE whole == Chunk * (n \div Chunk) rest == n % Chunk
    <3>3. whole \in Int
      BY <3>2, LoopsAssumption
    <3>4. tags = whole /\ n % unit = rest
      BY <2>1, <3>1
    <3> HIDE DEF whole, rest
    <3> QED BY <3>2, <3>3, <3>4 DEF whole, rest
  <2>3. CASE probe # "nested"
    <3>1. unit = 1 /\ all = n
      BY <2>3 DEF Rss!Unit, Rss!LoopRounds
    <3> QED BY <1>2, <2>1, <3>1 DEF RssTypes
  <2> QED BY <2>2, <2>3
<1> HIDE DEF unit, apart, all
<1>4. status = "looping" /\ lines > 0 => tags - line \in unit .. (apart * unit)
  <2> SUFFICES ASSUME status = "looping", lines > 0 PROVE tags - line \in unit .. (apart * unit)
    OBVIOUS
  <2>1. tags = unit * i /\ line = unit * last_print /\ i - last_print \in 1 .. apart /\ lines # 0
    BY <1>2 DEF RssCounts, RssTypes
  <2> DEFINE behind == i - last_print
  <2>2. behind \in Nat /\ behind >= 1 /\ behind <= apart /\ i \in Nat /\ last_print \in Nat
    BY <1>1, <1>2, <2>1 DEF RssTypes
  <2>3. unit * i - unit * last_print = unit * behind
    BY <1>1, <2>2
  <2> HIDE DEF behind
  <2>4. unit * behind >= unit /\ unit * behind <= apart * unit /\ unit * behind \in Int
    <3>1. PICK a \in Nat : behind = a + 1
      <4>1. behind - 1 \in Nat /\ behind = (behind - 1) + 1
        BY <2>2
      <4> QED BY <4>1
    <3>2. PICK b \in Nat : apart = behind + b
      <4>1. apart - behind \in Nat /\ apart = behind + (apart - behind)
        BY <1>1, <2>2
      <4> QED BY <4>1
    <3>3. unit * (a + 1) = unit * a + unit /\ unit * a \in Nat
      BY <1>1
    <3>4. (behind + b) * unit = unit * behind + unit * b /\ unit * b \in Nat /\ unit * behind \in Int
      BY <1>1, <2>2, <3>2
    <3> QED BY <1>1, <3>1, <3>2, <3>3, <3>4
  <2> QED BY <1>1, <2>1, <2>3, <2>4
<1>5. status = "looping" => lines = (IF i = 0 THEN 0 ELSE (i - 1) \div apart)
  <2> SUFFICES ASSUME status = "looping", i # 0 PROVE lines = (i - 1) \div apart
    BY <1>2 DEF RssCounts
  <2>1. last_print = apart * lines /\ i - last_print \in 1 .. apart /\ lines \in Nat /\ last_print \in Nat
    BY <1>2 DEF RssCounts, RssTypes
  <2> DEFINE r == i - 1 - last_print
  <2>2. r \in Nat /\ r < apart /\ i - 1 = last_print + r
    BY <1>1, <1>2, <2>1 DEF RssTypes
  <2> HIDE DEF r
  <2>3. (apart * lines + r) \div apart = lines
    <3>1. lines \in Int
      BY <2>1
    <3> QED BY <1>1, <2>2, <3>1, Quotients
  <2> QED BY <2>1, <2>2, <2>3
<1>6. status = "failed" => line = tags
  BY <1>2 DEF RssCounts
<1> QED BY <1>3, <1>4, <1>5, <1>6 DEF Rss!CountsHonest, unit, apart, all
-----------------------------------------------------------------------------
\* 063: extensions without SIMD.
LEMMA Gated ==
    ASSUME NEW reg \in [fp : 0 .. 15, asimd : 0 .. 15, aes : 0 .. 15, sha1 : 0 .. 15,
                        sha2 : 0 .. 15, rdm : 0 .. 15, dotprod : 0 .. 15, sve : 0 .. 15]
    PROVE  Simd!ExtensionsGated(reg)
<1> DEFINE Own(e) == Simd!Has(reg, e) /\ (e = "sha2" => Simd!Has(reg, "sha1"))
           E == Simd!Extensions
           plain == {e \in E : reg.asimd < 15 /\ Own(e)}
           simd == Simd!Simd(reg)
<1>0. /\ E = {"aes", "sha2", "rdm", "dotprod", "sve"} /\ "asimd" \notin E
      /\ DOMAIN Simd!Least = {"aes", "sha1", "sha2", "rdm", "dotprod", "sve"}
  BY DEF Simd!Extensions, Simd!Least
<1>1. Simd!ParseBuggy(reg) = plain \cup (IF simd THEN {"asimd"} ELSE {})
  BY DEF Simd!ParseBuggy
<1>2. Simd!ParseGated(reg) = {e \in E : simd /\ Own(e)} \cup (IF simd THEN {"asimd"} ELSE {})
  BY DEF Simd!ParseGated
<1>3. simd <=> reg.fp < 15 /\ reg.asimd < 15 /\ (reg.fp >= 1 => reg.asimd >= 1)
  BY DEF Simd!Simd
<1>4. /\ reg.fp \in 0 .. 15 /\ reg.asimd \in 0 .. 15
  OBVIOUS
<1>5. simd => reg.asimd < 15
  BY <1>3
<1>6. ~simd /\ reg.asimd < 15 <=> reg.asimd < 15 /\ (reg.fp = 15 \/ (reg.fp >= 1 /\ reg.asimd = 0))
  BY <1>3, <1>4
<1> DEFINE has == \A field \in DOMAIN Simd!Least : Simd!Has(reg, field)
<1>7. has <=> \A e \in E : Own(e)
  <2> HIDE DEF E
  <2>1. has <=> /\ Simd!Has(reg, "aes") /\ Simd!Has(reg, "sha1") /\ Simd!Has(reg, "sha2")
                /\ Simd!Has(reg, "rdm") /\ Simd!Has(reg, "dotprod") /\ Simd!Has(reg, "sve")
    BY <1>0
  <2>2. (\A e \in E : Own(e)) <=>
                /\ Simd!Has(reg, "aes") /\ Simd!Has(reg, "sha1") /\ Simd!Has(reg, "sha2")
                /\ Simd!Has(reg, "rdm") /\ Simd!Has(reg, "dotprod") /\ Simd!Has(reg, "sve")
    BY <1>0
  <2> QED BY <2>1, <2>2
<1> HIDE DEF has, E, Own, simd
<1>8. (Simd!ParseBuggy(reg) # {} /\ "asimd" \notin Simd!ParseBuggy(reg)) => ~simd /\ reg.asimd < 15
  BY <1>1
<1>9. Simd!Triggered063(reg) <=> ~simd /\ reg.asimd < 15 /\ has
  <2>1. Simd!Triggered063(reg) <=> Simd!ParseBuggy(reg) = E
    BY DEF Simd!Triggered063, E
  <2>2. ASSUME Simd!ParseBuggy(reg) = E PROVE ~simd /\ reg.asimd < 15 /\ has
    <3>1. "asimd" \notin E /\ "aes" \in E
      BY <1>0
    <3>2. ~simd
      BY <1>1, <2>2, <3>1
    <3>3. plain = E
      BY <1>1, <2>2, <3>2
    <3>4. reg.asimd < 15 /\ \A e \in E : Own(e)
      BY <3>1, <3>3
    <3> QED BY <1>7, <3>2, <3>4
  <2>3. ASSUME ~simd, reg.asimd < 15, has PROVE Simd!ParseBuggy(reg) = E
    <3>1. plain = E
      BY <1>7, <2>3
    <3> QED BY <1>1, <2>3, <3>1
  <2> QED BY <2>1, <2>2, <2>3
<1>10. simd => Simd!ParseBuggy(reg) = Simd!ParseGated(reg)
  BY <1>1, <1>2, <1>5
<1> QED BY <1>6, <1>8, <1>9, <1>10 DEF Simd!ExtensionsGated, simd, has

-----------------------------------------------------------------------------
IsInserted(f, keys) ==
    f = [k \in 0 .. Len(keys) |-> IF k = 0 THEN {} ELSE Order!Insert(f[k - 1], keys[k])]

LEMMA BTreeSetIs ==
    ASSUME NEW keys PROVE Order!BTreeSet(keys) = (CHOOSE f : IsInserted(f, keys))[Len(keys)]
BY DEF Order!BTreeSet, IsInserted

\* 162: what one more key makes of a set.
LEMMA InsertIs ==
    ASSUME NEW set \in SUBSET STRING, NEW x \in STRING
    PROVE  /\ x = Order!None => Order!Insert(set, x) = set \cup {x}
           /\ x # Order!None /\ (\E y \in set : y # Order!None) => Order!Insert(set, x) = set
           /\ x # Order!None /\ (\A y \in set : y = Order!None) => Order!Insert(set, x) = set \cup {x}
           /\ Order!Insert(set, x) \in SUBSET STRING
<1>1. \A y \in set : Order!Cmp(x, y) = 0 <=> (x = Order!None <=> y = Order!None)
  <2> SUFFICES ASSUME NEW y \in set PROVE Order!Cmp(x, y) = 0 <=> (x = Order!None <=> y = Order!None)
    OBVIOUS
  <2>1. Order!Cmp(x, y) = IF x = Order!None /\ y # Order!None THEN -1
                          ELSE IF x # Order!None /\ y = Order!None THEN 1 ELSE 0
    BY DEF Order!Cmp
  <2>2. -1 # 0 /\ 1 # 0
    BY SMT
  <2>3. CASE x = Order!None /\ y # Order!None
    <3>1. Order!Cmp(x, y) = -1
      BY <2>1, <2>3
    <3> QED BY <2>2, <2>3, <3>1
  <2>4. CASE x # Order!None /\ y = Order!None
    <3>1. Order!Cmp(x, y) = 1
      BY <2>1, <2>4
    <3> QED BY <2>2, <2>4, <3>1
  <2>5. CASE (x = Order!None) <=> (y = Order!None)
    <3>1. Order!Cmp(x, y) = 0
      BY <2>1, <2>5
    <3> QED BY <2>5, <3>1
  <2> QED BY <2>3, <2>4, <2>5
<1> QED BY <1>1 DEF Order!Insert

\* 162: any keys.
LEMMA FirstSome == ASSUME NEW keys \in Seq(STRING) PROVE Order!FirstSomeKept(keys)
<1> DEFINE N == Len(keys) none == Order!None
           next == [e \in (SUBSET STRING) \X (1 .. N) |-> Order!Insert(e[1], keys[e[2]])]
           First(k) == keys[k] # none /\ \A j \in 1 .. k - 1 : keys[j] = none
<1>0. N \in Nat /\ (\A k \in 1 .. N : keys[k] \in STRING) /\ DOMAIN keys = 1 .. N
  OBVIOUS
<1>1. \E f : IsInserted(f, keys) /\ f \in [0 .. N -> SUBSET STRING]
  <2>1. next \in [(SUBSET STRING) \X (1 .. N) -> SUBSET STRING]
    <3>1. \A e \in (SUBSET STRING) \X (1 .. N) : Order!Insert(e[1], keys[e[2]]) \in SUBSET STRING
      <4> SUFFICES ASSUME NEW e \in (SUBSET STRING) \X (1 .. N)
          PROVE Order!Insert(e[1], keys[e[2]]) \in SUBSET STRING
        OBVIOUS
      <4>1. e[1] \in SUBSET STRING /\ keys[e[2]] \in STRING
        BY <1>0
      <4> DEFINE set == e[1] x == keys[e[2]]
      <4>2. set \in SUBSET STRING /\ x \in STRING
        BY <4>1
      <4> HIDE DEF set, x
      <4>3. Order!Insert(set, x) \in SUBSET STRING
        BY <4>2, InsertIs
      <4> QED BY <4>3 DEF set, x
    <3> QED BY <3>1
  <2>2. {} \in SUBSET STRING
    OBVIOUS
  <2> HIDE DEF next
  <2>3. PICK f : Walks(f, SUBSET STRING, {}, N, next)
    BY <1>0, <2>1, <2>2, WalkExists
  <2>4. f \in [0 .. N -> SUBSET STRING] /\ f[0] = {} /\ \A k \in 1 .. N : f[k] = next[<<f[k - 1], k>>]
    BY <2>3 DEF Walks
  <2>5. ASSUME NEW k \in 0 .. N PROVE f[k] = IF k = 0 THEN {} ELSE Order!Insert(f[k - 1], keys[k])
    <3>1. CASE k = 0
      BY <2>4, <3>1
    <3>2. CASE k # 0
      <4>1. k \in 1 .. N /\ f[k - 1] \in SUBSET STRING
        BY <1>0, <2>4, <3>2
      <4>2. f[k] = next[<<f[k - 1], k>>]
        BY <2>4, <4>1
      <4>3. next[<<f[k - 1], k>>] = Order!Insert(f[k - 1], keys[k])
        BY <4>1 DEF next
      <4> QED BY <3>2, <4>2, <4>3
    <3> QED BY <3>1, <3>2
  <2>6. f = [k \in 0 .. N |-> f[k]]
    BY <2>4
  <2>7. f = [k \in 0 .. N |-> IF k = 0 THEN {} ELSE Order!Insert(f[k - 1], keys[k])]
    BY <2>5, <2>6
  <2> QED BY <2>4, <2>7 DEF IsInserted
<1> DEFINE f == CHOOSE g : IsInserted(g, keys)
<1>2. IsInserted(f, keys)
  BY <1>1
<1>3. Order!BTreeSet(keys) = f[N]
  BY BTreeSetIs
<1> HIDE DEF f
<1>4. f[0] = {} /\ \A k \in 1 .. N : f[k] = Order!Insert(f[k - 1], keys[k])
  BY <1>0, <1>2 DEF IsInserted
<1> DEFINE Kept(k) == {x \in {none} : \E j \in 1 .. k : keys[j] = x}
                      \cup {keys[j] : j \in {j \in 1 .. k : First(j)}}
           Good(k) == f[k] = Kept(k) /\ ((\E j \in 1 .. k : keys[j] # none) => \E y \in f[k] : y # none)
           G == {k \in 0 .. N : Good(k)}
<1>5. 0 \in G
  <2>1. Good(0)
    BY <1>4
  <2> HIDE DEF Good
  <2> QED BY <1>0, <2>1
<1>6. ASSUME NEW k \in Nat, k < N, k \in G PROVE k + 1 \in G
  <2>1. k + 1 \in 1 .. N /\ k + 1 - 1 = k /\ k + 1 \in 0 .. N
    BY <1>0, <1>6
  <2>2. f[k] = Kept(k) /\ ((\E j \in 1 .. k : keys[j] # none) => \E y \in f[k] : y # none)
    BY <1>6
  <2> DEFINE x == keys[k + 1]
  <2>3. x \in STRING /\ f[k + 1] = Order!Insert(f[k], x)
    BY <1>0, <1>4, <2>1
  <2>4. \A j : j \in 1 .. k + 1 <=> j \in 1 .. k \/ j = k + 1
    OBVIOUS
  <2>5. f[k] \in SUBSET STRING
    <3>1. \A j \in 1 .. k : keys[j] \in STRING
      BY <1>0, <2>1
    <3> QED BY <1>0, <2>2, <3>1
  <2>6. First(k + 1) <=> x # none /\ \A j \in 1 .. k : keys[j] = none
    BY <2>1
  <2> HIDE DEF First, x
  <2>7. \A y \in f[k] : y = none \/ \E j \in 1 .. k : keys[j] = y
    BY <2>2
  <2>8. CASE x = none
    <3>1. f[k + 1] = f[k] \cup {none}
      BY <2>3, <2>5, <2>8, InsertIs
    <3>2. Kept(k + 1) = Kept(k) \cup {none}
      BY <2>4, <2>6, <2>8 DEF x
    <3>3. (\E j \in 1 .. k + 1 : keys[j] # none) => \E j \in 1 .. k : keys[j] # none
      BY <2>4, <2>8 DEF x
    <3>4. Good(k + 1)
      BY <2>2, <3>1, <3>2, <3>3
    <3> HIDE DEF Good
    <3> QED BY <2>1, <3>4
  <2>9. CASE x # none /\ \E j \in 1 .. k : keys[j] # none
    <3>1. f[k + 1] = f[k]
      BY <2>2, <2>3, <2>5, <2>9, InsertIs
    <3>2. Kept(k + 1) = Kept(k)
      <4>1. ~First(k + 1)
        BY <2>6, <2>9
      <4>2. (\E j \in 1 .. k + 1 : keys[j] = none) <=> \E j \in 1 .. k : keys[j] = none
        BY <2>4, <2>9 DEF x
      <4>3. {j \in 1 .. k + 1 : First(j)} = {j \in 1 .. k : First(j)}
        BY <2>4, <4>1
      <4> QED BY <4>2, <4>3
    <3>3. \E y \in f[k + 1] : y # none
      BY <2>2, <2>9, <3>1
    <3>4. Good(k + 1)
      BY <2>2, <3>1, <3>2, <3>3
    <3> HIDE DEF Good
    <3> QED BY <2>1, <3>4
  <2>10. CASE x # none /\ \A j \in 1 .. k : keys[j] = none
    <3>1. \A y \in f[k] : y = none
      BY <2>7, <2>10
    <3>2. f[k + 1] = f[k] \cup {x}
      BY <2>3, <2>5, <2>10, <3>1, InsertIs
    <3>3. Kept(k + 1) = Kept(k) \cup {x}
      <4>1. First(k + 1)
        BY <2>6, <2>10
      <4>2. (\E j \in 1 .. k + 1 : keys[j] = none) <=> \E j \in 1 .. k : keys[j] = none
        BY <2>4, <2>10 DEF x
      <4>3. {j \in 1 .. k + 1 : First(j)} = {j \in 1 .. k : First(j)} \cup {k + 1}
        BY <2>4, <4>1
      <4>4. {keys[j] : j \in {j \in 1 .. k + 1 : First(j)}}
                = {keys[j] : j \in {j \in 1 .. k : First(j)}} \cup {x}
        BY <4>3 DEF x
      <4> QED BY <4>2, <4>4
    <3>4. Good(k + 1)
      BY <2>2, <2>10, <3>2, <3>3
    <3> HIDE DEF Good
    <3> QED BY <2>1, <3>4
  <2> QED BY <2>8, <2>9, <2>10
<1>7. f[N] = Kept(N)
  <2>1. N \in 0 .. N
    BY <1>0
  <2> HIDE DEF G
  <2>2. N \in G
    BY <1>0, <1>5, <1>6, <2>1, Upwards
  <2> QED BY <2>2 DEF G
<1> QED BY <1>0, <1>3, <1>7 DEF Order!FirstSomeKept
-----------------------------------------------------------------------------
Headers == [name : {"Content-Length", "Transfer-Encoding", "Host"}, value : {Body!Bad} \cup Nat]
States == [error : {"none", "InvalidContentLength", "UnsupportedTransferEncoding"},
           content_len : {Body!Bad} \cup Nat, chunked : BOOLEAN]

IsRound(f, headers) ==
    f = [k \in 0 .. Len(headers) |-> IF k = 0 THEN Body!Start ELSE Body!OneHeader(f[k - 1], headers[k])]
StateAfter(headers) == (CHOOSE f : IsRound(f, headers))[Len(headers)]

LEMMA RequestIs ==
    ASSUME NEW headers
    PROVE  Body!ProcessRequest(headers)
            = [error |-> StateAfter(headers).error, size |-> Body!BodySize(StateAfter(headers)),
               more |-> /\ Body!BodySize(StateAfter(headers)).kind = "Known"
                        /\ Body!BodySize(StateAfter(headers)) # Body!Known(0)]
BY DEF Body!ProcessRequest, StateAfter, IsRound

\* 012: the errors that a header may be.
LEMMA OneHeaderIs ==
    ASSUME NEW s \in States, NEW h \in Headers
    PROVE  /\ Body!OneHeader(s, h) \in States
           /\ s.error # "none" => Body!OneHeader(s, h) = s
           /\ s.error = "none" /\ h.name = "Host" => Body!OneHeader(s, h) = s
           /\ s.error = "none" /\ h.name = "Content-Length" =>
                IF h.value = Body!Bad THEN Body!OneHeader(s, h).error = "InvalidContentLength"
                ELSE /\ Body!OneHeader(s, h).error = "none" /\ Body!OneHeader(s, h).content_len = h.value
                     /\ Body!OneHeader(s, h).chunked = s.chunked
           /\ s.error = "none" /\ h.name = "Transfer-Encoding" =>
                IF h.value = Body!Bad THEN Body!OneHeader(s, h).error = "UnsupportedTransferEncoding"
                ELSE /\ Body!OneHeader(s, h).error = "none" /\ Body!OneHeader(s, h).chunked = TRUE
                     /\ Body!OneHeader(s, h).content_len = s.content_len
<1>0. h.name \in {"Content-Length", "Transfer-Encoding", "Host"} /\ h.value \in {Body!Bad} \cup Nat
  BY DEF Headers
<1>1. CASE s.error # "none"
  <2>1. Body!OneHeader(s, h) = s
    BY <1>1 DEF Body!OneHeader
  <2> QED BY <1>1, <2>1
<1>2. CASE s.error = "none" /\ h.name = "Host"
  <2>1. Body!OneHeader(s, h) = s
    BY <1>2 DEF Body!OneHeader
  <2> QED BY <1>2, <2>1
<1>3. CASE s.error = "none" /\ h.name = "Content-Length"
  <2>1. Body!OneHeader(s, h) = IF h.value = Body!Bad THEN [s EXCEPT !.error = "InvalidContentLength"]
                               ELSE [s EXCEPT !.content_len = h.value]
    BY <1>3 DEF Body!OneHeader
  <2> QED BY <1>0, <1>3, <2>1 DEF States
<1>4. CASE s.error = "none" /\ h.name = "Transfer-Encoding"
  <2>1. Body!OneHeader(s, h) = IF h.value = Body!Bad THEN [s EXCEPT !.error = "UnsupportedTransferEncoding"]
                               ELSE [s EXCEPT !.chunked = TRUE]
    BY <1>4 DEF Body!OneHeader
  <2> QED BY <1>0, <1>4, <2>1 DEF States
<1> QED BY <1>0, <1>1, <1>2, <1>3, <1>4

\* The loop goes through the headers.
LEMMA RoundsExist ==
    ASSUME NEW headers \in Seq(Headers)
    PROVE  \E f : IsRound(f, headers) /\ f \in [0 .. Len(headers) -> States]
<1> DEFINE N == Len(headers)
           next == [e \in States \X (1 .. N) |-> Body!OneHeader(e[1], headers[e[2]])]
<1>0. N \in Nat /\ (\A k \in 1 .. N : headers[k] \in Headers) /\ Body!Start \in States
  BY DEF Body!Start, States
<1>1. next \in [States \X (1 .. N) -> States]
  <2> SUFFICES ASSUME NEW e \in States \X (1 .. N) PROVE Body!OneHeader(e[1], headers[e[2]]) \in States
    OBVIOUS
  <2> DEFINE s == e[1] h == headers[e[2]]
  <2>1. s \in States /\ h \in Headers
    BY <1>0
  <2> HIDE DEF s, h
  <2>2. Body!OneHeader(s, h) \in States
    BY <2>1, OneHeaderIs
  <2> QED BY <2>2 DEF s, h
<1> HIDE DEF next
<1>2. PICK f : Walks(f, States, Body!Start, N, next)
  BY <1>0, <1>1, WalkExists
<1>3. f \in [0 .. N -> States] /\ f[0] = Body!Start /\ \A k \in 1 .. N : f[k] = next[<<f[k - 1], k>>]
  BY <1>2 DEF Walks
<1>4. ASSUME NEW k \in 0 .. N
      PROVE f[k] = IF k = 0 THEN Body!Start ELSE Body!OneHeader(f[k - 1], headers[k])
  <2>1. CASE k = 0
    BY <1>3, <2>1
  <2>2. CASE k # 0
    <3>1. k \in 1 .. N /\ f[k - 1] \in States
      BY <1>0, <1>3, <2>2
    <3>2. f[k] = next[<<f[k - 1], k>>]
      BY <1>3, <3>1
    <3>3. next[<<f[k - 1], k>>] = Body!OneHeader(f[k - 1], headers[k])
      BY <3>1 DEF next
    <3> QED BY <2>2, <3>2, <3>3
  <2> QED BY <2>1, <2>2
<1>5. f = [k \in 0 .. N |-> f[k]]
  BY <1>3
<1>6. f = [k \in 0 .. N |-> IF k = 0 THEN Body!Start ELSE Body!OneHeader(f[k - 1], headers[k])]
  BY <1>4, <1>5
<1> QED BY <1>3, <1>6 DEF IsRound

BadAt(headers, k) == headers[k].name # "Host" /\ headers[k].value = Body!Bad
ErrorOf(h) == IF h.name = "Content-Length" THEN "InvalidContentLength" ELSE "UnsupportedTransferEncoding"

\* What is known after k headers, in state s.
Reached(s, headers, k) ==
    /\ s \in States
    /\ s.error = "none" <=> \A j \in 1 .. k : ~BadAt(headers, j)
    /\ \A j \in 1 .. k :
        BadAt(headers, j) /\ (\A m \in 1 .. j - 1 : ~BadAt(headers, m)) => s.error = ErrorOf(headers[j])
    /\ s.error = "none" =>
        /\ s.chunked <=> \E j \in 1 .. k : headers[j].name = "Transfer-Encoding"
        /\ (\A j \in 1 .. k : headers[j].name # "Content-Length") => s.content_len = Body!Bad
        /\ \A j \in 1 .. k :
            /\ headers[j].name = "Content-Length"
            /\ \A m \in 1 .. k : headers[m].name = "Content-Length" => m <= j
            => s.content_len = headers[j].value

LEMMA ReachedNext ==
    ASSUME NEW headers \in Seq(Headers), NEW k \in Nat, k < Len(headers), NEW s, Reached(s, headers, k)
    PROVE  Reached(Body!OneHeader(s, headers[k + 1]), headers, k + 1)
<1> DEFINE h == headers[k + 1] t == Body!OneHeader(s, h)
<1>0. h \in Headers /\ s \in States /\ k + 1 \in 1 .. Len(headers) /\ k + 1 - 1 = k
  BY DEF Reached
<1>1. \A j : j \in 1 .. k + 1 <=> j \in 1 .. k \/ j = k + 1
  OBVIOUS
<1>2. h.name \in {"Content-Length", "Transfer-Encoding", "Host"}
  BY <1>0 DEF Headers
<1> DEFINE IsBad(j) == BadAt(headers, j)
<1>3. IsBad(k + 1) <=> h.name # "Host" /\ h.value = Body!Bad
  BY DEF BadAt
<1>4. /\ t \in States
      /\ s.error # "none" => t = s
      /\ s.error = "none" /\ h.name = "Host" => t = s
      /\ s.error = "none" /\ h.name = "Content-Length" =>
            IF h.value = Body!Bad THEN t.error = "InvalidContentLength"
            ELSE t.error = "none" /\ t.content_len = h.value /\ t.chunked = s.chunked
      /\ s.error = "none" /\ h.name = "Transfer-Encoding" =>
            IF h.value = Body!Bad THEN t.error = "UnsupportedTransferEncoding"
            ELSE t.error = "none" /\ t.chunked = TRUE /\ t.content_len = s.content_len
  <2> HIDE DEF h
  <2> QED BY <1>0, OneHeaderIs
<1>5. /\ s.error = "none" <=> \A j \in 1 .. k : ~IsBad(j)
      /\ \A j \in 1 .. k :
            IsBad(j) /\ (\A m \in 1 .. j - 1 : ~IsBad(m)) => s.error = ErrorOf(headers[j])
      /\ s.error = "none" =>
            /\ s.chunked <=> \E j \in 1 .. k : headers[j].name = "Transfer-Encoding"
            /\ (\A j \in 1 .. k : headers[j].name # "Content-Length") => s.content_len = Body!Bad
            /\ \A j \in 1 .. k :
                /\ headers[j].name = "Content-Length"
                /\ \A m \in 1 .. k : headers[m].name = "Content-Length" => m <= j
                => s.content_len = headers[j].value
  BY DEF Reached
<1> HIDE DEF IsBad, t
<1>6. t.error = "none" <=> s.error = "none" /\ ~IsBad(k + 1)
  BY <1>2, <1>3, <1>4
<1>7. t.error = "none" <=> \A j \in 1 .. k + 1 : ~IsBad(j)
  BY <1>1, <1>5, <1>6
<1>8. ASSUME NEW j \in 1 .. k + 1, IsBad(j), \A m \in 1 .. j - 1 : ~IsBad(m)
      PROVE  t.error = ErrorOf(headers[j])
  <2>1. CASE j \in 1 .. k
    <3>1. s.error = ErrorOf(headers[j]) /\ s.error # "none"
      BY <1>5, <1>8, <2>1
    <3> QED BY <1>4, <3>1
  <2>2. CASE j = k + 1
    <3>1. s.error = "none"
      BY <1>0, <1>5, <1>8, <2>2
    <3>2. h.name # "Host" /\ h.value = Body!Bad
      BY <1>3, <1>8, <2>2
    <3> QED BY <1>2, <1>4, <2>2, <3>1, <3>2 DEF ErrorOf
  <2> QED BY <1>1, <2>1, <2>2
<1>9. ASSUME t.error = "none"
      PROVE  /\ t.chunked <=> \E j \in 1 .. k + 1 : headers[j].name = "Transfer-Encoding"
             /\ (\A j \in 1 .. k + 1 : headers[j].name # "Content-Length") => t.content_len = Body!Bad
             /\ \A j \in 1 .. k + 1 :
                 /\ headers[j].name = "Content-Length"
                 /\ \A m \in 1 .. k + 1 : headers[m].name = "Content-Length" => m <= j
                 => t.content_len = headers[j].value
  <2>1. s.error = "none" /\ (h.name # "Host" => h.value # Body!Bad)
    BY <1>3, <1>6, <1>9
  <2>2. CASE h.name = "Host"
    <3>1. t = s
      BY <1>4, <2>1, <2>2
    <3> QED BY <1>1, <1>5, <2>1, <2>2, <3>1
  <2>3. CASE h.name = "Transfer-Encoding"
    <3>1. t.chunked = TRUE /\ t.content_len = s.content_len
      BY <1>4, <2>1, <2>3
    <3> QED BY <1>1, <1>5, <2>1, <2>3, <3>1
  <2>4. CASE h.name = "Content-Length"
    <3>1. t.content_len = h.value /\ t.chunked = s.chunked
      BY <1>4, <2>1, <2>4
    <3>2. k + 1 \in 1 .. k + 1 /\ \A j \in 1 .. k : ~(k + 1 <= j)
      OBVIOUS
    <3> QED BY <1>1, <1>5, <2>1, <2>4, <3>1, <3>2
  <2> QED BY <1>2, <2>2, <2>3, <2>4
<1> QED BY <1>4, <1>7, <1>8, <1>9 DEF Reached, IsBad, t

\* A set of places has a last one.
LEMMA LastOf ==
    ASSUME NEW N \in Nat, NEW S \in SUBSET (1 .. N), S # {}
    PROVE  \E k \in S : \A j \in S : j <= k
<1> DEFINE B == {N - j : j \in S}
<1>1. B \in SUBSET Nat /\ B # {}
  <2>1. PICK x \in S : TRUE
    OBVIOUS
  <2>2. N - x \in B
    OBVIOUS
  <2>3. \A j \in 1 .. N : N - j \in Nat
    OBVIOUS
  <2> QED BY <2>2, <2>3
<1>2. Fds!Lowest(B) \in B /\ \A o \in B : Fds!Lowest(B) <= o
  <2> HIDE DEF B
  <2> QED BY <1>1, LowestIs
<1>3. PICK k \in S : Fds!Lowest(B) = N - k
  BY <1>2
<1>4. ASSUME NEW j \in S PROVE j <= k
  <2>1. N - k <= N - j
    BY <1>2, <1>3
  <2>2. j \in Nat /\ k \in Nat
    OBVIOUS
  <2> QED BY <2>1, <2>2
<1> QED BY <1>4

\* 012: any headers.
LEMMA LastLengthWins ==
    ASSUME NEW headers \in Seq(Headers), NEW left_of \in Nat PROVE Body!LastWins(headers, left_of)
<1> DEFINE N == Len(headers) f == CHOOSE g : IsRound(g, headers)
           Good(k) == Reached(f[k], headers, k)
           G == {k \in 0 .. N : Good(k)}
<1>0. N \in Nat /\ DOMAIN headers = 1 .. N
  OBVIOUS
<1>1. IsRound(f, headers)
  BY RoundsExist
<1>2. StateAfter(headers) = f[N]
  BY DEF StateAfter
<1> HIDE DEF f
<1>3. f[0] = Body!Start /\ \A k \in 1 .. N : f[k] = Body!OneHeader(f[k - 1], headers[k])
  BY <1>0, <1>1 DEF IsRound
<1>4. 0 \in G
  <2>1. Good(0)
    BY <1>3 DEF Reached, Body!Start, States
  <2> HIDE DEF Good
  <2> QED BY <1>0, <2>1
<1>5. ASSUME NEW k \in Nat, k < N, k \in G PROVE k + 1 \in G
  <2>1. k + 1 \in 1 .. N /\ k + 1 - 1 = k /\ k + 1 \in 0 .. N
    BY <1>0, <1>5
  <2>2. f[k + 1] = Body!OneHeader(f[k], headers[k + 1])
    BY <1>3, <2>1
  <2>3. Good(k)
    BY <1>5
  <2>4. Good(k + 1)
    BY <1>5, <2>2, <2>3, ReachedNext
  <2> HIDE DEF Good
  <2> QED BY <2>1, <2>4
<1>6. N \in G
  <2>1. N \in 0 .. N
    BY <1>0
  <2> HIDE DEF G
  <2> QED BY <1>0, <1>4, <1>5, <2>1, Upwards
<1> DEFINE s == f[N] r == Body!ProcessRequest(headers)
<1>7. Reached(s, headers, N)
  BY <1>6
<1>8. r.error = s.error /\ r.size = Body!BodySize(s)
      /\ r.more = (Body!BodySize(s).kind = "Known" /\ Body!BodySize(s) # Body!Known(0))
  BY <1>2, RequestIs
<1> HIDE DEF s, r
<1> DEFINE last == Body!LastLength(headers)
           bad == {k \in DOMAIN headers : headers[k].name # "Host" /\ headers[k].value = Body!Bad}
           first == CHOOSE k \in bad : \A j \in bad : k <= j
           lengths == Body!Named("Content-Length", headers)
           codings == Body!Named("Transfer-Encoding", headers)
<1>9. bad = {k \in 1 .. N : BadAt(headers, k)}
  BY <1>0 DEF BadAt
<1>10. ASSUME bad # {}
       PROVE  r.error = IF headers[first].name = "Content-Length"
                        THEN "InvalidContentLength" ELSE "UnsupportedTransferEncoding"
  <2>1. bad \in SUBSET Nat
    BY <1>0
  <2>2. Fds!Lowest(bad) \in bad /\ \A o \in bad : Fds!Lowest(bad) <= o
    <3> HIDE DEF bad
    <3> QED BY <1>10, <2>1, LowestIs
  <2>3. first \in bad /\ \A o \in bad : first <= o
    <3> HIDE DEF bad
    <3> QED BY <2>2
  <2> HIDE DEF first, bad
  <2>4. first \in 1 .. N /\ BadAt(headers, first)
    BY <1>9, <2>3
  <2>5. \A m \in 1 .. first - 1 : ~BadAt(headers, m)
    <3> SUFFICES ASSUME NEW m \in 1 .. first - 1, BadAt(headers, m) PROVE FALSE
      OBVIOUS
    <3>1. m \in bad /\ ~(first <= m)
      BY <1>0, <1>9, <2>4
    <3> QED BY <2>3, <3>1
  <2>6. s.error = ErrorOf(headers[first])
    BY <1>7, <2>4, <2>5 DEF Reached
  <2> QED BY <1>8, <2>6 DEF ErrorOf
<1>11. ASSUME bad = {}
       PROVE  /\ s.error = "none"
              /\ Body!BodySize(s) = IF codings # {} THEN Body!Unknown
                                    ELSE IF lengths = {} THEN Body!NoBody ELSE Body!Known(last)
              /\ lengths # {} => last \in Nat
              /\ s.content_len = Body!Bad \/ lengths # {}
  <2>1. \A j \in 1 .. N : ~BadAt(headers, j)
    BY <1>9, <1>11
  <2>2. s.error = "none"
    BY <1>7, <2>1 DEF Reached
  <2>3. codings # {} <=> s.chunked
    BY <1>0, <1>7, <2>2 DEF Reached, Body!Named
  <2>4. lengths = {} => s.content_len = Body!Bad
    BY <1>0, <1>7, <2>2 DEF Reached, Body!Named
  <2>5. ASSUME lengths # {} PROVE s.content_len = last /\ last \in Nat
    <3> DEFINE place == CHOOSE k \in lengths : \A j \in lengths : j <= k
    <3>1. lengths \in SUBSET (1 .. N)
      BY <1>0 DEF Body!Named
    <3>2. place \in lengths /\ \A j \in lengths : j <= place
      <4> HIDE DEF lengths
      <4>1. \E k \in lengths : \A j \in lengths : j <= k
        BY <1>0, <2>5, <3>1, LastOf
      <4> QED BY <4>1
    <3>3. last = headers[place].value
      BY DEF Body!LastLength
    <3> HIDE DEF place
    <3>4. /\ place \in 1 .. N /\ headers[place].name = "Content-Length"
          /\ \A m \in 1 .. N : headers[m].name = "Content-Length" => m <= place
      BY <1>0, <3>2 DEF Body!Named
    <3>5. s.content_len = headers[place].value
      BY <1>7, <2>2, <3>4 DEF Reached
    <3>6. headers[place] \in Headers /\ ~BadAt(headers, place)
      BY <1>0, <2>1, <3>4
    <3>7. headers[place].value \in Nat
      BY <3>4, <3>6 DEF Headers, BadAt
    <3> QED BY <3>3, <3>5, <3>7
  <2>6. \A x \in Nat : x # Body!Bad
    BY DEF Body!Bad
  <2> HIDE DEF lengths, codings, last
  <2> QED BY <2>2, <2>3, <2>4, <2>5, <2>6 DEF Body!BodySize
<1> HIDE DEF bad, first, lengths, codings, last
<1> DEFINE size == Body!BodySize(s)
<1>12. ASSUME bad = {}
       PROVE  /\ r.error = "none"
              /\ r.size = IF codings # {} THEN Body!Unknown
                          ELSE IF lengths = {} THEN Body!NoBody ELSE Body!Known(last)
              /\ r.more <=> r.size.kind = "Known" /\ r.size.size # 0
              /\ Body!Split(headers, left_of) = IF r.size.kind = "Known" /\ last <= left_of
                                                THEN <<last, left_of - last>> ELSE <<>>
  <2>1. r.error = "none" /\ r.size = size
    BY <1>8, <1>11, <1>12
  <2>2. size = Body!Unknown \/ size = Body!NoBody \/ (size = Body!Known(last) /\ last \in Nat)
    BY <1>11, <1>12
  <2>3. /\ Body!Unknown.kind # "Known" /\ Body!NoBody.kind # "Known"
        /\ \A x : Body!Known(x).kind = "Known" /\ Body!Known(x).size = x
    BY DEF Body!Unknown, Body!NoBody, Body!Known
  <2>4. r.more <=> size.kind = "Known" /\ size # Body!Known(0)
    BY <1>8
  <2> HIDE DEF size
  <2>5. r.more <=> size.kind = "Known" /\ size.size # 0
    <3>1. CASE size.kind # "Known"
      BY <2>4, <3>1
    <3>2. CASE size = Body!Known(last)
      <4>1. size = Body!Known(0) <=> last = 0
        BY <2>3, <3>2
      <4> QED BY <2>3, <2>4, <3>2, <4>1
    <3> QED BY <2>2, <2>3, <3>1, <3>2
  <2>6. Body!Split(headers, left_of)
            = IF r.error = "none" /\ r.size.kind = "Known" /\ r.size.size <= left_of
              THEN <<r.size.size, left_of - r.size.size>> ELSE <<>>
    BY DEF Body!Split, r
  <2>7. size.kind = "Known" => size.size = last
    BY <2>2, <2>3
  <2>8. Body!Split(headers, left_of) = IF r.size.kind = "Known" /\ last <= left_of
                                       THEN <<last, left_of - last>> ELSE <<>>
    BY <2>1, <2>6, <2>7
  <2>9. r.size = IF codings # {} THEN Body!Unknown
                 ELSE IF lengths = {} THEN Body!NoBody ELSE Body!Known(last)
    BY <1>11, <1>12, <2>1 DEF size
  <2> QED BY <2>1, <2>5, <2>8, <2>9
<1> QED BY <1>10, <1>12 DEF Body!LastWins, r, bad, first, lengths, codings, last
-----------------------------------------------------------------------------
\* 005: where an iterator is in each round, by the nodes it stops at.
IsPathWalk(f, mem, ends) ==
    f = [k \in 0 .. PathCap |->
            IF k = 0 THEN Path!Enter(mem, ends, 0)
            ELSE IF f[k - 1] = Path!Stop THEN Path!Stop
                 ELSE Path!Enter(mem, ends, Path!NextNode(mem, f[k - 1]))]
PathWalkOf(mem, ends) == CHOOSE f : IsPathWalk(f, mem, ends)

RoundsOf(f) == Cardinality({k \in 0 .. PathCap : f[k] # Path!Stop})
Addresses(f) == [k \in 1 .. RoundsOf(f) |-> f[k - 1]]

\* What an iterator yields is what its walk is at, as long as it has not stopped.
LEMMA VisitedAre ==
    ASSUME NEW mem, NEW ends
    PROVE  Path!Visited(mem, ends) = Addresses(PathWalkOf(mem, ends))
<1>1. Path!At(mem, ends) = PathWalkOf(mem, ends)
  BY DEF Path!At, IsPathWalk, PathWalkOf
<1> QED BY <1>1, SameCardinality DEF Path!Visited, Addresses, RoundsOf

\* A walk over a memory, round by round.
PathWalk(f, mem, ends) ==
    /\ f[0] = IF Path!Node(mem, 0) \in ends THEN Path!Stop ELSE 0
    /\ \A k \in 1 .. PathCap :
        f[k] = IF f[k - 1] = Path!Stop \/ Path!Node(mem, Path!NextNode(mem, f[k - 1])) \in ends
               THEN Path!Stop ELSE Path!NextNode(mem, f[k - 1])

LEMMA PathParts ==
    /\ PathCap \in Nat /\ PathCap > Size /\ Size \in Nat /\ HeaderSize \in Nat \ {0}
    /\ Path!Stop \notin Nat /\ Path!End \notin Nat /\ Path!Stop # Path!End
    /\ \A mem \in [0 .. Size -> {Path!End} \cup Nat] : \A p :
        /\ Path!Node(mem, p) \in {Path!End} \cup Nat
        /\ Path!Node(mem, p) # Path!End => p \in 0 .. Size
        /\ p \in Nat /\ Path!Node(mem, p) # Path!End => Path!NextNode(mem, p) \in Nat
<1>1. PathCap \in Nat /\ PathCap > Size /\ Size \in Nat /\ HeaderSize \in Nat \ {0}
  BY LoopsAssumption
<1>2. Path!Stop \notin Nat /\ Path!End \notin Nat /\ Path!Stop # Path!End
  BY SMT DEF Path!Stop, Path!End
<1>3. ASSUME NEW mem \in [0 .. Size -> {Path!End} \cup Nat], NEW p
      PROVE  /\ Path!Node(mem, p) \in {Path!End} \cup Nat
             /\ Path!Node(mem, p) # Path!End => p \in 0 .. Size
  BY DEF Path!Node
<1>4. ASSUME NEW mem \in [0 .. Size -> {Path!End} \cup Nat], NEW p \in Nat, Path!Node(mem, p) # Path!End
      PROVE  Path!NextNode(mem, p) \in Nat
  <2>1. Path!Node(mem, p) \in Nat
    BY <1>3, <1>4
  <2> QED BY <2>1 DEF Path!NextNode
<1> QED BY <1>1, <1>2, <1>3, <1>4

\* There is such a walk.
LEMMA PathWalkExists ==
    ASSUME NEW mem \in [0 .. Size -> {Path!End} \cup Nat], NEW ends, Path!End \in ends
    PROVE  \E f : f = [k \in 0 .. PathCap |-> f[k]] /\ PathWalk(f, mem, ends)
<1> DEFINE S == {Path!Stop} \cup Nat
           To(p) == Path!NextNode(mem, p)
           Leaves(p) == p = Path!Stop \/ Path!Node(mem, To(p)) \in ends
           next == [e \in S \X (1 .. PathCap) |-> IF Leaves(e[1]) \/ To(e[1]) \notin Nat
                                                  THEN Path!Stop ELSE To(e[1])]
           base == IF Path!Node(mem, 0) \in ends THEN Path!Stop ELSE 0
<1>1. next \in [S \X (1 .. PathCap) -> S] /\ base \in S /\ PathCap \in Nat
  <2>1. PathCap \in Nat
    BY PathParts
  <2> HIDE DEF Leaves, To
  <2> QED BY <2>1
<1> HIDE DEF next, base
<1>2. PICK f : Walks(f, S, base, PathCap, next)
  <2> HIDE DEF S
  <2> QED BY <1>1, WalkExists
<1>3. f \in [0 .. PathCap -> S] /\ f[0] = base /\ \A k \in 1 .. PathCap : f[k] = next[<<f[k - 1], k>>]
  BY <1>2 DEF Walks
<1> DEFINE G == {k \in 0 .. PathCap : f[k] # Path!Stop => Path!Node(mem, f[k]) # Path!End}
<1>4. 0 \in G
  BY <1>1, <1>3 DEF base
<1>5. ASSUME NEW k \in 1 .. PathCap
      PROVE  f[k] = IF Leaves(f[k - 1]) \/ To(f[k - 1]) \notin Nat THEN Path!Stop ELSE To(f[k - 1])
  <2>1. f[k - 1] \in S
    BY <1>1, <1>3
  <2> HIDE DEF Leaves, To, S
  <2> QED BY <1>3, <2>1 DEF next
<1>6. ASSUME NEW k \in Nat, k < PathCap, k \in G PROVE k + 1 \in G
  <2>1. k + 1 \in 1 .. PathCap /\ k + 1 - 1 = k /\ k + 1 \in 0 .. PathCap
    BY <1>1, <1>6
  <2>2. f[k + 1] = IF Leaves(f[k]) \/ To(f[k]) \notin Nat THEN Path!Stop ELSE To(f[k])
    BY <1>5, <2>1
  <2>3. f[k + 1] # Path!Stop => Path!Node(mem, f[k + 1]) \notin ends
    <3> HIDE DEF To
    <3> QED BY <2>2
  <2> QED BY <2>1, <2>3
<1>7. 0 .. PathCap \subseteq G
  <2> HIDE DEF G
  <2> QED BY <1>1, <1>4, <1>6, Upwards
<1>8. ASSUME NEW k \in 1 .. PathCap
      PROVE  f[k] = IF Leaves(f[k - 1]) THEN Path!Stop ELSE To(f[k - 1])
  <2>1. k - 1 \in 0 .. PathCap
    BY <1>1
  <2>2. f[k - 1] \in S /\ k - 1 \in G
    BY <1>3, <1>7, <2>1
  <2>3. f[k - 1] # Path!Stop => f[k - 1] \in Nat /\ Path!Node(mem, f[k - 1]) # Path!End
    BY <2>2
  <2>4. f[k - 1] # Path!Stop => To(f[k - 1]) \in Nat
    BY <2>3, PathParts
  <2> HIDE DEF To
  <2> QED BY <1>5, <2>4
<1>9. f = [k \in 0 .. PathCap |-> f[k]]
  BY <1>3
<1> QED BY <1>3, <1>8, <1>9 DEF PathWalk, base

\* The walk of an iterator is such.
LEMMA WalksAre ==
    ASSUME NEW mem \in [0 .. Size -> {Path!End} \cup Nat], NEW ends, Path!End \in ends
    PROVE  PathWalk(PathWalkOf(mem, ends), mem, ends)
<1>0. PathCap \in Nat
  BY PathParts
<1>1. \A f : IsPathWalk(f, mem, ends) <=> f = [k \in 0 .. PathCap |-> f[k]] /\ PathWalk(f, mem, ends)
  <2> SUFFICES ASSUME NEW f
      PROVE IsPathWalk(f, mem, ends) <=> f = [k \in 0 .. PathCap |-> f[k]] /\ PathWalk(f, mem, ends)
    OBVIOUS
  <2> DEFINE At(k) == IF k = 0 THEN Path!Enter(mem, ends, 0)
                      ELSE IF f[k - 1] = Path!Stop THEN Path!Stop
                           ELSE Path!Enter(mem, ends, Path!NextNode(mem, f[k - 1]))
  <2>1. PathWalk(f, mem, ends) <=> \A k \in 0 .. PathCap : f[k] = At(k)
    <3>1. At(0) = IF Path!Node(mem, 0) \in ends THEN Path!Stop ELSE 0
      BY DEF Path!Enter
    <3>2. \A k \in 1 .. PathCap :
            At(k) = IF f[k - 1] = Path!Stop \/ Path!Node(mem, Path!NextNode(mem, f[k - 1])) \in ends
                    THEN Path!Stop ELSE Path!NextNode(mem, f[k - 1])
      BY DEF Path!Enter
    <3>3. \A k : k \in 0 .. PathCap <=> k = 0 \/ k \in 1 .. PathCap
      BY <1>0
    <3> HIDE DEF At
    <3> QED BY <3>1, <3>2, <3>3 DEF PathWalk
  <2>2. IsPathWalk(f, mem, ends) <=> f = [k \in 0 .. PathCap |-> At(k)]
    BY DEF IsPathWalk
  <2> HIDE DEF At
  <2> QED BY <2>1, <2>2
<1>2. \E f : IsPathWalk(f, mem, ends)
  BY <1>1, PathWalkExists
<1>3. IsPathWalk(PathWalkOf(mem, ends), mem, ends)
  BY <1>2 DEF PathWalkOf
<1> QED BY <1>1, <1>3

\* What a walk is at is a node it may be at, and after it stops it does not go on.
LEMMA WalkKept ==
    ASSUME NEW mem \in [0 .. Size -> {Path!End} \cup Nat], NEW ends, Path!End \in ends,
           NEW f, PathWalk(f, mem, ends)
    PROVE  /\ \A k \in 0 .. PathCap : f[k] \in {Path!Stop} \cup Nat
           /\ \A k \in 0 .. PathCap : f[k] # Path!Stop =>
                Path!Node(mem, f[k]) \notin ends /\ f[k] \in 0 .. Size
           /\ RoundsOf(f) \in 0 .. PathCap + 1
           /\ \A k \in 0 .. PathCap : f[k] # Path!Stop <=> k < RoundsOf(f)
<1>0. PathCap \in Nat
  BY PathParts
<1> DEFINE G == {k \in 0 .. PathCap : f[k] = Path!Stop
                                       \/ (f[k] \in Nat /\ Path!Node(mem, f[k]) \notin ends)}
<1>1. 0 \in G
  BY <1>0 DEF PathWalk
<1>2. ASSUME NEW k \in Nat, k < PathCap, k \in G PROVE k + 1 \in G
  <2>1. k + 1 \in 1 .. PathCap /\ k + 1 - 1 = k /\ k + 1 \in 0 .. PathCap
    BY <1>0, <1>2
  <2> DEFINE to == Path!NextNode(mem, f[k])
  <2>2. f[k + 1] = IF f[k] = Path!Stop \/ Path!Node(mem, to) \in ends THEN Path!Stop ELSE to
    BY <2>1 DEF PathWalk
  <2>3. f[k] # Path!Stop => to \in Nat
    BY <1>2, PathParts
  <2> HIDE DEF to
  <2> QED BY <2>1, <2>2, <2>3
<1>3. 0 .. PathCap \subseteq G
  <2> HIDE DEF G
  <2> QED BY <1>0, <1>1, <1>2, Upwards
<1>4. \A k \in 0 .. PathCap : f[k] \in {Path!Stop} \cup Nat
  BY <1>3
<1>5. ASSUME NEW k \in 0 .. PathCap, f[k] # Path!Stop
      PROVE  Path!Node(mem, f[k]) \notin ends /\ f[k] \in 0 .. Size
  <2>1. Path!Node(mem, f[k]) \notin ends
    BY <1>3, <1>5
  <2>2. Path!Node(mem, f[k]) # Path!End
    BY <2>1
  <2> QED BY <2>1, <2>2, PathParts
<1> DEFINE T == {k \in 0 .. PathCap : f[k] = Path!Stop}
           R == {k \in 0 .. PathCap : f[k] # Path!Stop}
<1>6. \E m \in 0 .. PathCap + 1 : R = 0 .. m - 1
  <2>1. CASE T = {}
    <3> DEFINE m == PathCap + 1
    <3>1. R = 0 .. PathCap
      BY <2>1
    <3>2. m - 1 = PathCap /\ m \in 0 .. PathCap + 1
      BY <1>0
    <3> HIDE DEF m, R
    <3> QED BY <3>1, <3>2
  <2>2. CASE T # {}
    <3> DEFINE m == Fds!Lowest(T)
    <3>1. m \in T /\ \A o \in T : m <= o
      <4>1. T \in SUBSET Nat
        OBVIOUS
      <4> HIDE DEF T
      <4> QED BY <2>2, <4>1, LowestIs
    <3> HIDE DEF m
    <3>2. m \in 0 .. PathCap /\ f[m] = Path!Stop
      BY <3>1
    <3> DEFINE H == {k \in 0 .. PathCap : m <= k => f[k] = Path!Stop}
    <3>3. 0 \in H
      BY <1>0, <3>2
    <3>4. ASSUME NEW k \in Nat, k < PathCap, k \in H PROVE k + 1 \in H
      <4>1. k + 1 \in 1 .. PathCap /\ k + 1 - 1 = k /\ k + 1 \in 0 .. PathCap
        BY <1>0, <3>4
      <4>2. m <= k => f[k + 1] = Path!Stop
        BY <3>4, <4>1 DEF PathWalk
      <4>3. m <= k + 1 => m <= k \/ m = k + 1
        BY <3>2
      <4> QED BY <3>2, <4>1, <4>2, <4>3
    <3>5. 0 .. PathCap \subseteq H
      <4> HIDE DEF H
      <4> QED BY <1>0, <3>3, <3>4, Upwards
    <3>6. \A k \in 0 .. PathCap : f[k] # Path!Stop <=> k < m
      <4> SUFFICES ASSUME NEW k \in 0 .. PathCap PROVE f[k] # Path!Stop <=> k < m
        OBVIOUS
      <4>1. k >= m => f[k] = Path!Stop
        BY <3>2, <3>5
      <4>2. k < m => k \notin T
        BY <3>1, <3>2
      <4> QED BY <3>2, <4>1, <4>2
    <3>7. R = 0 .. m - 1
      <4>1. \A k : k \in R <=> k \in 0 .. PathCap /\ k < m
        BY <3>6
      <4>2. \A k : k \in 0 .. m - 1 <=> k \in 0 .. PathCap /\ k < m
        BY <1>0, <3>2
      <4> HIDE DEF R
      <4> QED BY <4>1, <4>2
    <3> QED BY <1>0, <3>2, <3>7
  <2> QED BY <2>1, <2>2
<1>7. PICK m \in 0 .. PathCap + 1 : R = 0 .. m - 1
  BY <1>6
<1>8. RoundsOf(f) = m
  <2>1. RoundsOf(f) = Cardinality(R)
    BY DEF RoundsOf
  <2>2. m \in Int /\ m - 1 \in Int /\ 0 \in Int
    BY <1>0
  <2>3. Cardinality(0 .. m - 1) = IF 0 > m - 1 THEN 0 ELSE m - 1 - 0 + 1
    BY <2>2, FS_Interval
  <2>4. Cardinality(0 .. m - 1) = m
    BY <1>0, <2>3
  <2> QED BY <1>7, <2>1, <2>4
<1>9. \A k \in 0 .. PathCap : f[k] # Path!Stop <=> k < m
  BY <1>0, <1>7
<1> QED BY <1>4, <1>5, <1>7, <1>8, <1>9

\* The addresses of a walk, by the rounds.
LEMMA AddressesAre ==
    ASSUME NEW mem \in [0 .. Size -> {Path!End} \cup Nat], NEW ends, Path!End \in ends,
           NEW f, PathWalk(f, mem, ends)
    PROVE  /\ RoundsOf(f) \in 0 .. PathCap + 1
           /\ Len(Addresses(f)) = RoundsOf(f) /\ DOMAIN Addresses(f) = 1 .. RoundsOf(f)
           /\ \A k \in 1 .. RoundsOf(f) :
                /\ Addresses(f)[k] = f[k - 1] /\ k - 1 \in 0 .. PathCap /\ f[k - 1] # Path!Stop
                /\ f[k - 1] \in 0 .. Size /\ Path!Node(mem, f[k - 1]) \in Nat
                /\ Path!Node(mem, f[k - 1]) \notin ends
<1> DEFINE r == RoundsOf(f)
<1>1. PathCap \in Nat /\ r \in 0 .. PathCap + 1
  BY PathParts, WalkKept
<1>2. Len(Addresses(f)) = r /\ DOMAIN Addresses(f) = 1 .. r /\ \A k \in 1 .. r : Addresses(f)[k] = f[k - 1]
  <2> HIDE DEF r
  <2>1. Addresses(f) = [k \in 1 .. r |-> f[k - 1]]
    BY DEF Addresses, r
  <2> QED BY <1>1, <2>1
<1>3. ASSUME NEW k \in 1 .. r
      PROVE  /\ k - 1 \in 0 .. PathCap /\ f[k - 1] # Path!Stop
             /\ f[k - 1] \in 0 .. Size /\ Path!Node(mem, f[k - 1]) \in Nat
             /\ Path!Node(mem, f[k - 1]) \notin ends
  <2>1. k - 1 \in 0 .. PathCap /\ k - 1 < r
    BY <1>1
  <2>2. f[k - 1] # Path!Stop
    BY <2>1, WalkKept
  <2>3. f[k - 1] \in 0 .. Size /\ Path!Node(mem, f[k - 1]) \notin ends
    BY <2>1, <2>2, WalkKept
  <2>4. Path!Node(mem, f[k - 1]) \in {Path!End} \cup Nat
    BY PathParts
  <2> QED BY <2>1, <2>2, <2>3, <2>4
<1> QED BY <1>1, <1>2, <1>3

ShortNodes == {Path!End} \cup 0 .. HeaderSize - 1

\* The patched walk is at what the other is at, and each of its rounds goes on by a
\* header or more.
LEMMA PatchedWalkIs ==
    ASSUME NEW mem \in [0 .. Size -> {Path!End} \cup Nat],
           NEW B, PathWalk(B, mem, {Path!End}), NEW P, PathWalk(P, mem, ShortNodes)
    PROVE  /\ \A k \in 0 .. PathCap : P[k] # Path!Stop => P[k] = B[k] /\ P[k] >= HeaderSize * k
           /\ \A k \in 1 .. PathCap : P[k] # Path!Stop =>
                P[k - 1] # Path!Stop /\ P[k] >= P[k - 1] + HeaderSize
<1>0. PathCap \in Nat /\ HeaderSize \in Nat \ {0} /\ Path!End \in ShortNodes /\ Path!End \in {Path!End}
  BY PathParts DEF ShortNodes
<1>1. ASSUME NEW k \in Nat, k < PathCap, P[k + 1] # Path!Stop
      PROVE  /\ P[k] # Path!Stop /\ P[k] \in Nat /\ P[k + 1] >= P[k] + HeaderSize
             /\ P[k + 1] = Path!NextNode(mem, P[k]) /\ Path!Node(mem, Path!NextNode(mem, P[k])) # Path!End
  <2>1. k + 1 \in 1 .. PathCap /\ k + 1 - 1 = k /\ k \in 0 .. PathCap
    BY <1>0, <1>1
  <2>2. P[k] # Path!Stop /\ P[k + 1] = Path!NextNode(mem, P[k])
            /\ Path!Node(mem, Path!NextNode(mem, P[k])) \notin ShortNodes
    BY <1>1, <2>1 DEF PathWalk
  <2>3. Path!Node(mem, P[k]) \notin ShortNodes /\ P[k] \in 0 .. Size
    BY <1>0, <2>1, <2>2, WalkKept
  <2>4. Path!Node(mem, P[k]) \in {Path!End} \cup Nat /\ Size \in Nat
    BY PathParts
  <2> DEFINE q == P[k] s == Path!Node(mem, P[k])
  <2>5. s \in Nat /\ s >= HeaderSize
    BY <1>0, <2>3, <2>4 DEF ShortNodes
  <2>6. P[k + 1] = q + s
    BY <2>2 DEF Path!NextNode
  <2>7. q \in Nat
    BY <2>3, <2>4
  <2> HIDE DEF q, s
  <2>8. P[k + 1] >= q + HeaderSize
    BY <1>0, <2>5, <2>6, <2>7
  <2> QED BY <1>0, <2>2, <2>7, <2>8 DEF q
<1> DEFINE G == {k \in 0 .. PathCap : P[k] # Path!Stop => P[k] = B[k] /\ P[k] >= HeaderSize * k}
<1>2. 0 \in G
  <2>1. P[0] # Path!Stop => P[0] = 0 /\ Path!Node(mem, 0) # Path!End
    BY <1>0 DEF PathWalk
  <2>2. Path!Node(mem, 0) # Path!End => B[0] = 0
    BY DEF PathWalk
  <2>3. HeaderSize * 0 = 0
    BY <1>0
  <2> QED BY <1>0, <2>1, <2>2, <2>3
<1>3. ASSUME NEW k \in Nat, k < PathCap, k \in G PROVE k + 1 \in G
  <2>1. k + 1 \in 1 .. PathCap /\ k + 1 - 1 = k /\ k + 1 \in 0 .. PathCap
    BY <1>0, <1>3
  <2> SUFFICES ASSUME P[k + 1] # Path!Stop PROVE P[k + 1] = B[k + 1] /\ P[k + 1] >= HeaderSize * (k + 1)
    BY <2>1
  <2>2. /\ P[k] # Path!Stop /\ P[k] \in Nat /\ P[k + 1] >= P[k] + HeaderSize
        /\ P[k + 1] = Path!NextNode(mem, P[k]) /\ Path!Node(mem, Path!NextNode(mem, P[k])) # Path!End
    BY <1>1, <1>3
  <2>3. P[k] = B[k] /\ P[k] >= HeaderSize * k
    BY <1>3, <2>2
  <2>4. B[k + 1] = Path!NextNode(mem, B[k])
    BY <2>1, <2>2, <2>3 DEF PathWalk
  <2>5. HeaderSize * (k + 1) = HeaderSize * k + HeaderSize /\ HeaderSize * k \in Nat
    BY <1>0, <1>3
  <2>6. P[k + 1] \in Nat
    BY <2>1, <1>0, WalkKept
  <2> DEFINE h == HeaderSize * k hk == HeaderSize * (k + 1)
  <2>7. P[k + 1] >= hk
    <3>1. h \in Nat /\ hk = h + HeaderSize /\ P[k] >= h
      BY <2>3, <2>5
    <3> HIDE DEF h, hk
    <3> QED BY <1>0, <2>2, <2>6, <3>1
  <2> QED BY <2>2, <2>3, <2>4, <2>7
<1>4. 0 .. PathCap \subseteq G
  <2> HIDE DEF G
  <2> QED BY <1>0, <1>2, <1>3, Upwards
<1>5. ASSUME NEW k \in 1 .. PathCap, P[k] # Path!Stop
      PROVE  P[k - 1] # Path!Stop /\ P[k] >= P[k - 1] + HeaderSize
  <2> DEFINE j == k - 1
  <2>1. j \in Nat /\ j < PathCap /\ j + 1 = k
    BY <1>0
  <2> HIDE DEF j
  <2>2. P[j] # Path!Stop /\ P[k] >= P[j] + HeaderSize
    BY <1>1, <1>5, <2>1
  <2> QED BY <2>2 DEF j
<1> QED BY <1>4, <1>5

\* 005: any memory, for the patched iterator.
LEMMA PatchedEnds ==
    ASSUME NEW mem \in [0 .. Size -> {Path!End} \cup Nat] PROVE Path!PatchedYields(mem)
<1> DEFINE B == PathWalkOf(mem, {Path!End}) P == PathWalkOf(mem, ShortNodes)
           b == RoundsOf(B) p == RoundsOf(P)
           all == Addresses(B) seen == Addresses(P)
<1>0. PathCap \in Nat /\ HeaderSize \in Nat \ {0} /\ Size \in Nat /\ Path!End \notin Nat
  BY PathParts
<1>1. Path!End \in ShortNodes /\ Path!End \in {Path!End}
  BY DEF ShortNodes
<1>2. PathWalk(B, mem, {Path!End}) /\ PathWalk(P, mem, ShortNodes)
  BY <1>1, WalksAre
<1>3. Path!BuggyIter(mem) = all /\ Path!PatchedIter(mem) = seen
  BY VisitedAre DEF Path!BuggyIter, Path!PatchedIter, ShortNodes
<1> HIDE DEF B, P
<1>4. /\ \A k \in 0 .. PathCap : P[k] # Path!Stop => P[k] = B[k] /\ P[k] >= HeaderSize * k
      /\ \A k \in 1 .. PathCap : P[k] # Path!Stop =>
            P[k - 1] # Path!Stop /\ P[k] >= P[k - 1] + HeaderSize
  BY <1>2, PatchedWalkIs
<1>5. /\ b \in 0 .. PathCap + 1 /\ p \in 0 .. PathCap + 1
      /\ \A k \in 0 .. PathCap : B[k] # Path!Stop <=> k < b
      /\ \A k \in 0 .. PathCap : P[k] # Path!Stop <=> k < p
  BY <1>1, <1>2, WalkKept
<1>6. /\ Len(all) = b /\ DOMAIN all = 1 .. b
      /\ \A k \in 1 .. b :
            /\ all[k] = B[k - 1] /\ k - 1 \in 0 .. PathCap
            /\ B[k - 1] # Path!Stop /\ B[k - 1] \in 0 .. Size
            /\ Path!Node(mem, B[k - 1]) \in Nat /\ Path!Node(mem, B[k - 1]) \notin {Path!End}
  BY <1>1, <1>2, AddressesAre
<1>7. /\ Len(seen) = p /\ DOMAIN seen = 1 .. p
      /\ \A k \in 1 .. p :
            /\ seen[k] = P[k - 1] /\ k - 1 \in 0 .. PathCap /\ P[k - 1] # Path!Stop
            /\ P[k - 1] \in 0 .. Size
            /\ Path!Node(mem, P[k - 1]) \in Nat /\ Path!Node(mem, P[k - 1]) \notin ShortNodes
  BY <1>1, <1>2, AddressesAre
<1>8. all = [k \in 1 .. b |-> B[k - 1]] /\ seen = [k \in 1 .. p |-> P[k - 1]]
  BY DEF Addresses
<1> HIDE DEF b, p, all, seen
<1>9. p <= b
  <2> SUFFICES ASSUME b < p PROVE FALSE
    BY <1>0, <1>5
  <2>1. b \in 0 .. PathCap
    BY <1>0, <1>5
  <2>2. P[b] # Path!Stop /\ P[b] = B[b]
    BY <1>4, <1>5, <2>1
  <2> QED BY <1>0, <1>5, <2>1, <2>2
<1>10. \A k \in 1 .. p : k \in 1 .. b /\ seen[k] = all[k]
  <2> SUFFICES ASSUME NEW k \in 1 .. p PROVE k \in 1 .. b /\ seen[k] = all[k]
    OBVIOUS
  <2>1. k \in 1 .. b
    BY <1>0, <1>5, <1>9
  <2> QED BY <1>4, <1>6, <1>7, <2>1
<1>11. p <= (Size \div HeaderSize) + 1
  <2> DEFINE q == Size \div HeaderSize
  <2>0. Size = HeaderSize * q + (Size % HeaderSize) /\ Size % HeaderSize < HeaderSize
            /\ q \in Nat /\ Size % HeaderSize \in Nat
    BY <1>0, Division
  <2> SUFFICES ASSUME p > q + 1 PROVE FALSE
    BY <1>0, <1>5, <2>0
  <2> DEFINE k == q + 1
  <2>1. k \in Nat /\ k + 1 \in 1 .. p /\ k + 1 - 1 = k
    BY <1>0, <1>5, <2>0
  <2>2. k \in 0 .. PathCap /\ P[k] # Path!Stop /\ P[k] \in 0 .. Size
    BY <1>7, <2>1
  <2>3. P[k] >= HeaderSize * k
    BY <1>4, <2>2
  <2>4. HeaderSize * k = HeaderSize * q + HeaderSize
    BY <1>0, <2>0
  <2> DEFINE h == HeaderSize * q hk == HeaderSize * k
  <2>5. h \in Int /\ hk = h + HeaderSize /\ P[k] >= hk /\ Size = h + (Size % HeaderSize)
    BY <1>0, <2>0, <2>3, <2>4
  <2> HIDE DEF h, hk, k, q
  <2> QED BY <1>0, <2>0, <2>2, <2>5
<1>12. \A k \in 2 .. p : seen[k] >= seen[k - 1] + HeaderSize
  <2> SUFFICES ASSUME NEW k \in 2 .. p PROVE seen[k] >= seen[k - 1] + HeaderSize
    OBVIOUS
  <2> DEFINE j == k - 1
  <2>1. k \in 1 .. p /\ j \in 1 .. p /\ j \in 1 .. PathCap
    BY <1>0, <1>5
  <2>2. seen[k] = P[j] /\ P[j] # Path!Stop /\ seen[j] = P[j - 1]
    BY <1>7, <2>1
  <2> HIDE DEF j
  <2>3. P[j] >= P[j - 1] + HeaderSize
    BY <1>4, <2>1, <2>2
  <2>4. seen[k] >= seen[j] + HeaderSize
    BY <2>2, <2>3
  <2> QED BY <2>4 DEF j
<1>13. seen = SubSeq(all, 1, p)
  <2>1. SubSeq(all, 1, p) = [k \in 1 .. p |-> all[k]]
    <3>1. p \in Int /\ 1 \in Int /\ 1 - 1 = 0
      BY <1>0, <1>5
    <3>2. p = 1 + p - 1 /\ \A k \in 1 .. p : k + 1 - 1 = k
      BY <1>0, <1>5
    <3> QED BY <1>0, <1>5, <1>6, <1>9, <3>1, <3>2 DEF SubSeq
  <2>2. seen = [k \in 1 .. p |-> seen[k]]
    BY <1>7, <1>8
  <2> QED BY <1>10, <2>1, <2>2
\* Where the patched iterator stops before the other, a node is too short.
<1>14. ASSUME p < b PROVE p + 1 \in 1 .. b /\ Path!Node(mem, all[p + 1]) < HeaderSize
  <2>1. p \in 0 .. PathCap /\ p + 1 \in 1 .. b /\ p + 1 - 1 = p
    BY <1>0, <1>5, <1>14
  <2>2. B[p] # Path!Stop /\ P[p] = Path!Stop /\ all[p + 1] = B[p] /\ Path!Node(mem, B[p]) \in Nat
    <3>1. ~(p < p)
      BY <2>1
    <3>2. B[p] # Path!Stop /\ P[p] = Path!Stop
      BY <1>5, <1>14, <2>1, <3>1
    <3>3. all[p + 1] = B[p + 1 - 1] /\ Path!Node(mem, B[p + 1 - 1]) \in Nat
      BY <1>6, <2>1
    <3> QED BY <2>1, <3>2, <3>3
  <2>3. Path!Node(mem, B[p]) \in ShortNodes
    <3>1. CASE p = 0
      <4>1. Path!Node(mem, 0) \in ShortNodes
        <5>1. Path!Stop # 0
          BY PathParts
        <5> QED BY <1>2, <2>2, <3>1, <5>1 DEF PathWalk
      <4>2. B[0] = 0
        BY <1>2, <2>2, <3>1 DEF PathWalk
      <4> QED BY <3>1, <4>1, <4>2
    <3>2. CASE p # 0
      <4>1. p \in 1 .. PathCap /\ p - 1 \in 0 .. PathCap /\ p - 1 < p
        BY <1>0, <2>1, <3>2
      <4>2. P[p - 1] # Path!Stop /\ P[p - 1] = B[p - 1] /\ P[p - 1] \in 0 .. Size
        <5>1. P[p - 1] # Path!Stop
          BY <1>5, <4>1
        <5>2. P[p - 1] \in 0 .. Size
          BY <1>1, <1>2, <4>1, <5>1, WalkKept
        <5> QED BY <1>4, <4>1, <5>1, <5>2
      <4>3. B[p] = Path!NextNode(mem, P[p - 1]) /\ Path!Node(mem, Path!NextNode(mem, P[p - 1])) # Path!End
        BY <1>2, <2>2, <4>1, <4>2 DEF PathWalk
      <4>4. Path!NextNode(mem, P[p - 1]) \in Nat
        <5>1. B[p] \in {Path!Stop} \cup Nat
          BY <1>1, <1>2, <2>1, WalkKept
        <5> QED BY <2>2, <4>3, <5>1
      <4>5. Path!NextNode(mem, P[p - 1]) # Path!Stop
        BY <4>4, PathParts
      <4>6. Path!Node(mem, Path!NextNode(mem, P[p - 1])) \in ShortNodes
        BY <1>2, <2>2, <4>1, <4>2, <4>5 DEF PathWalk
      <4> QED BY <4>3, <4>6
    <3> QED BY <3>1, <3>2
  <2>4. Path!Node(mem, B[p]) < HeaderSize
    BY <1>0, <2>2, <2>3 DEF ShortNodes
  <2> QED BY <2>1, <2>2, <2>4
<1>15. p = b => seen = all
  BY <1>6, <1>7, <1>8, <1>10
<1>16. Path!WellFormed(mem) <=> \A k \in 1 .. b : Path!Node(mem, all[k]) >= HeaderSize
  BY <1>3, <1>6 DEF Path!WellFormed
<1>17. Path!WellFormed(mem) => seen = all
  <2> SUFFICES ASSUME Path!WellFormed(mem) PROVE p = b
    BY <1>15
  <2> SUFFICES ASSUME p < b PROVE FALSE
    BY <1>0, <1>5, <1>9
  <2> DEFINE s == Path!Node(mem, all[p + 1])
  <2>1. s < HeaderSize /\ s >= HeaderSize
    BY <1>14, <1>16
  <2>2. s \in Nat
    BY <1>6, <1>14
  <2> HIDE DEF s
  <2> QED BY <1>0, <2>1, <2>2
<1>18. ~Path!WellFormed(mem) => Path!Node(mem, all[p + 1]) < HeaderSize
  <2> SUFFICES ASSUME ~Path!WellFormed(mem) PROVE p < b
    BY <1>14
  <2> SUFFICES ASSUME p = b PROVE FALSE
    BY <1>0, <1>5, <1>9
  <2>1. ASSUME NEW k \in 1 .. b PROVE Path!Node(mem, all[k]) >= HeaderSize
    <3> DEFINE s == Path!Node(mem, P[k - 1])
    <3>1. s \in Nat /\ s \notin ShortNodes /\ all[k] = P[k - 1]
      BY <1>7, <1>10
    <3>2. s >= HeaderSize
      <4> HIDE DEF s
      <4> QED BY <1>0, <3>1 DEF ShortNodes
    <3> QED BY <3>1, <3>2
  <2> QED BY <1>16, <2>1
<1> QED BY <1>3, <1>7, <1>11, <1>12, <1>13, <1>17, <1>18 DEF Path!PatchedYields

\* 005: any memory, for the buggy iterator.
LEMMA BuggyStays ==
    ASSUME NEW mem \in [0 .. Size -> {Path!End} \cup Nat] PROVE Path!BuggyStalls(mem)
<1> DEFINE B == PathWalkOf(mem, {Path!End}) b == RoundsOf(B) all == Addresses(B)
           Zero(k) == Path!Node(mem, B[k]) = 0
<1>0. PathCap \in Nat /\ Size \in Nat /\ PathCap > Size /\ Path!End \notin Nat
  BY PathParts
<1>1. PathWalk(B, mem, {Path!End}) /\ Path!BuggyIter(mem) = all
  BY WalksAre, VisitedAre DEF Path!BuggyIter
<1> HIDE DEF B
<1>2. /\ b \in 0 .. PathCap + 1
      /\ \A k \in 0 .. PathCap : B[k] # Path!Stop <=> k < b
      /\ \A k \in 0 .. PathCap : B[k] # Path!Stop => B[k] \in 0 .. Size
  BY <1>1, WalkKept
<1>3. /\ Len(all) = b /\ DOMAIN all = 1 .. b
      /\ \A k \in 1 .. b :
            all[k] = B[k - 1] /\ k - 1 \in 0 .. PathCap /\ Path!Node(mem, B[k - 1]) \in Nat
  BY <1>1, AddressesAre
<1> HIDE DEF b, all
<1>4. (\E k \in 1 .. b : Path!Node(mem, all[k]) = 0) <=> \E k \in 0 .. PathCap : k < b /\ Zero(k)
  <2>1. ASSUME NEW k \in 1 .. b, Path!Node(mem, all[k]) = 0
        PROVE  \E j \in 0 .. PathCap : j < b /\ Zero(j)
    <3>1. k - 1 \in 0 .. PathCap /\ k - 1 < b /\ Zero(k - 1)
      BY <1>2, <1>3, <2>1
    <3> HIDE DEF Zero
    <3> QED BY <3>1
  <2>2. ASSUME NEW k \in 0 .. PathCap, k < b, Zero(k)
        PROVE  \E j \in 1 .. b : Path!Node(mem, all[j]) = 0
    <3>1. k + 1 \in 1 .. b /\ k + 1 - 1 = k
      BY <1>2, <2>2
    <3>2. Path!Node(mem, all[k + 1]) = 0
      BY <1>3, <2>2, <3>1
    <3> QED BY <3>1, <3>2
  <2> HIDE DEF Zero
  <2> QED BY <2>1, <2>2
<1>5. ASSUME NEW z \in 0 .. PathCap, z < b, Zero(z) PROVE b > PathCap
  <2> DEFINE G == {k \in 0 .. PathCap : z <= k => B[k] = B[z]}
  <2>0. B[z] \in 0 .. Size /\ B[z] # Path!Stop
    BY <1>2, <1>5
  <2>1. Path!NextNode(mem, B[z]) = B[z]
    BY <1>0, <1>5, <2>0 DEF Path!NextNode
  <2>2. Path!Node(mem, B[z]) # Path!End
    BY <1>0, <1>5
  <2>3. 0 \in G
    BY <1>0
  <2>4. ASSUME NEW k \in Nat, k < PathCap, k \in G PROVE k + 1 \in G
    <3>1. k + 1 \in 1 .. PathCap /\ k + 1 - 1 = k /\ k + 1 \in 0 .. PathCap
      BY <1>0, <2>4
    <3>2. z <= k => B[k + 1] = B[z]
      BY <1>1, <2>0, <2>1, <2>2, <2>4, <3>1 DEF PathWalk
    <3>3. z <= k + 1 => z <= k \/ z = k + 1
      BY <2>4
    <3> QED BY <3>1, <3>2, <3>3
  <2>5. 0 .. PathCap \subseteq G
    <3> HIDE DEF G
    <3> QED BY <1>0, <2>3, <2>4, Upwards
  <2>6. B[PathCap] = B[z] /\ PathCap \in 0 .. PathCap
    BY <1>0, <2>5
  <2> QED BY <1>0, <1>2, <2>0, <2>6
<1>6. ASSUME b > PathCap, \A k \in 0 .. PathCap : ~Zero(k) PROVE FALSE
  <2> DEFINE G == {k \in 0 .. PathCap : B[k] >= k}
  <2>0. \A k \in 0 .. PathCap : B[k] # Path!Stop /\ B[k] \in 0 .. Size
    BY <1>0, <1>2, <1>6
  <2>1. 0 \in G
    BY <1>0, <2>0
  <2>2. ASSUME NEW k \in Nat, k < PathCap, k \in G PROVE k + 1 \in G
    <3>1. k + 1 \in 1 .. PathCap /\ k + 1 - 1 = k /\ k + 1 \in 0 .. PathCap /\ k \in 0 .. PathCap
      BY <1>0, <2>2
    <3>2. B[k + 1] = Path!NextNode(mem, B[k])
      BY <1>1, <2>0, <3>1 DEF PathWalk
    <3>3. k + 1 \in 1 .. b
      BY <1>0, <1>2, <1>6, <3>1
    <3>4. Path!Node(mem, B[k]) \in Nat
      BY <1>3, <3>1, <3>3
    <3>5. Path!Node(mem, B[k]) # 0
      BY <1>6, <3>1
    <3> DEFINE s == Path!Node(mem, B[k]) a == B[k]
    <3>6. s \in Nat /\ s # 0 /\ a \in Nat /\ a >= k /\ B[k + 1] = a + s
      BY <1>0, <2>0, <2>2, <3>1, <3>2, <3>4, <3>5 DEF Path!NextNode
    <3> HIDE DEF s, a
    <3>7. B[k + 1] >= k + 1
      BY <2>2, <3>6
    <3> QED BY <3>1, <3>7
  <2>3. 0 .. PathCap \subseteq G
    <3> HIDE DEF G
    <3> QED BY <1>0, <2>1, <2>2, Upwards
  <2>4. PathCap \in 0 .. PathCap
    BY <1>0
  <2>5. B[PathCap] >= PathCap /\ B[PathCap] \in 0 .. Size
    BY <2>0, <2>3, <2>4
  <2> QED BY <1>0, <2>5
<1>7. b > PathCap <=> \E k \in 0 .. PathCap : k < b /\ Zero(k)
  <2>1. b > PathCap => \A k \in 0 .. PathCap : k < b
    BY <1>0, <1>2
  <2> HIDE DEF Zero
  <2> QED BY <1>5, <1>6, <2>1
<1>8. Path!BuggyStalls(mem) <=> (b > PathCap <=> \E k \in 1 .. b : Path!Node(mem, all[k]) = 0)
  BY <1>1, <1>3 DEF Path!BuggyStalls
<1> QED BY <1>4, <1>7, <1>8
-----------------------------------------------------------------------------
FileEntries == [name : FileNames, is_dir : BOOLEAN]

\* 020: an entry that is not gone into, and what the log has of one that is.
Passed(e, skipped) == e.name \in skipped \/ ~e.is_dir
Inside(path, e, below) == Tree!Under(Append(path, e.name), below[Append(path, e.name)])

IsLog(f, entries, skipped, path, below) ==
    f = [k \in 0 .. Len(entries) |->
            IF k = 0 THEN <<>>
            ELSE IF entries[k].name \in skipped \/ ~entries[k].is_dir THEN f[k - 1]
            ELSE LET child == Append(path, entries[k].name)
                 IN  f[k - 1] \o Tree!Under(child, below[child])]

LEMMA ChildrenAre ==
    ASSUME NEW entries, NEW skipped, NEW path, NEW below
    PROVE  Tree!Children(entries, skipped, path, below)
            = (CHOOSE f : IsLog(f, entries, skipped, path, below))[Len(entries)]
BY DEF Tree!Children, IsLog

\* The log of a loop, entry by entry.
Logged(f, entries, skipped, path, below) ==
    /\ f[0] = <<>>
    /\ \A k \in 1 .. Len(entries) :
        f[k] = IF Passed(entries[k], skipped) THEN f[k - 1]
               ELSE f[k - 1] \o Inside(path, entries[k], below)

\* Names of X make paths of X, and logs that are sequences of them.
Loggable(entries, skipped, path, below, X) ==
    \A k \in 1 .. Len(entries) :
        ~Passed(entries[k], skipped) => Inside(path, entries[k], below) \in Seq(Seq(X))

LEMMA LogsAre ==
    ASSUME NEW entries \in Seq(FileEntries), NEW skipped, NEW path, NEW below, NEW X,
           Loggable(entries, skipped, path, below, X)
    PROVE  \E f \in [0 .. Len(entries) -> Seq(Seq(X))] :
                /\ Logged(f, entries, skipped, path, below)
                /\ Tree!Children(entries, skipped, path, below) = f[Len(entries)]
<1> DEFINE N == Len(entries) L == Seq(Seq(X))
           Of(log, k) == IF Passed(entries[k], skipped) THEN log ELSE log \o Inside(path, entries[k], below)
           next == [e \in L \X (1 .. N) |-> Of(e[1], e[2])]
<1>0. N \in Nat /\ <<>> \in L
  OBVIOUS
<1>1. ASSUME NEW log \in L, NEW k \in 1 .. N PROVE Of(log, k) \in L
  <2>1. CASE Passed(entries[k], skipped)
    BY <2>1
  <2>2. CASE ~Passed(entries[k], skipped)
    <3>1. Inside(path, entries[k], below) \in L
      BY <2>2 DEF Loggable
    <3> QED BY <2>2, <3>1
  <2> QED BY <2>1, <2>2
<1> HIDE DEF L
<1>2. next \in [L \X (1 .. N) -> L]
  <2> HIDE DEF Of
  <2> QED BY <1>1
<1> HIDE DEF next
<1>3. PICK g : Walks(g, L, <<>>, N, next)
  BY <1>0, <1>2, WalkExists
<1>4. g \in [0 .. N -> L] /\ g[0] = <<>> /\ \A k \in 1 .. N : g[k] = next[<<g[k - 1], k>>]
  BY <1>3 DEF Walks
<1>5. ASSUME NEW k \in 1 .. N PROVE g[k] = Of(g[k - 1], k)
  <2>1. g[k - 1] \in L
    BY <1>0, <1>4
  <2> HIDE DEF Of
  <2> QED BY <1>4, <2>1 DEF next
<1> DEFINE At(f, k) == IF k = 0 THEN <<>>
                       ELSE IF entries[k].name \in skipped \/ ~entries[k].is_dir THEN f[k - 1]
                       ELSE LET child == Append(path, entries[k].name)
                            IN  f[k - 1] \o Tree!Under(child, below[child])
<1>6. \A f : At(f, 0) = <<>> /\ \A k \in 1 .. N : At(f, k) = Of(f[k - 1], k)
  <2> SUFFICES ASSUME NEW f, NEW k \in 1 .. N PROVE At(f, k) = Of(f[k - 1], k)
    OBVIOUS
  <2>1. k # 0
    OBVIOUS
  <2> QED BY <2>1 DEF Passed, Inside
<1>7. \A f : IsLog(f, entries, skipped, path, below) <=> f = [k \in 0 .. N |-> At(f, k)]
  BY DEF IsLog
<1>8. \A k : k \in 0 .. N <=> k = 0 \/ k \in 1 .. N
  BY <1>0
<1> HIDE DEF At
<1>9. IsLog(g, entries, skipped, path, below)
  <2>1. \A k \in 0 .. N : g[k] = At(g, k)
    BY <1>4, <1>5, <1>6, <1>8
  <2>2. g = [k \in 0 .. N |-> g[k]]
    BY <1>4
  <2> QED BY <1>7, <2>1, <2>2
<1> DEFINE f == CHOOSE h : IsLog(h, entries, skipped, path, below)
<1>10. IsLog(f, entries, skipped, path, below)
  BY <1>9
<1>11. Tree!Children(entries, skipped, path, below) = f[N]
  BY ChildrenAre
<1> HIDE DEF f
<1>12. f[0] = <<>> /\ \A k \in 1 .. N : f[k] = Of(f[k - 1], k)
  BY <1>6, <1>7, <1>8, <1>10
<1>13. f = [k \in 0 .. N |-> f[k]]
  BY <1>7, <1>10
<1> DEFINE G == {k \in 0 .. N : f[k] \in L}
<1>14. 0 \in G
  BY <1>0, <1>12
<1>15. ASSUME NEW k \in Nat, k < N, k \in G PROVE k + 1 \in G
  <2>1. k + 1 \in 1 .. N /\ k + 1 - 1 = k /\ k + 1 \in 0 .. N
    BY <1>0, <1>15
  <2>2. f[k + 1] = Of(f[k], k + 1)
    BY <1>12, <2>1
  <2> HIDE DEF Of
  <2> QED BY <1>1, <1>15, <2>1, <2>2
<1>16. 0 .. N \subseteq G
  <2> HIDE DEF G
  <2> QED BY <1>0, <1>14, <1>15, Upwards
<1>17. f \in [0 .. N -> L]
  BY <1>13, <1>16
<1>18. Logged(f, entries, skipped, path, below)
  BY <1>12 DEF Logged
<1> QED BY <1>11, <1>17, <1>18 DEF L

\* The log of no entries.
LEMMA ChildrenEmpty ==
    ASSUME NEW skipped, NEW path, NEW below PROVE Tree!Children(<<>>, skipped, path, below) = <<>>
<1> DEFINE none == <<>>
<1>1. none \in Seq(FileEntries) /\ Len(none) = 0
  OBVIOUS
<1> HIDE DEF none
<1>2. Loggable(none, skipped, path, below, {})
  BY <1>1 DEF Loggable
<1>3. PICK h \in [0 .. Len(none) -> Seq(Seq({}))] :
        Logged(h, none, skipped, path, below) /\ Tree!Children(none, skipped, path, below) = h[Len(none)]
  BY <1>1, <1>2, LogsAre
<1> QED BY <1>1, <1>3 DEF Logged, none

\* The log of one more entry.
LEMMA ChildrenAppend ==
    ASSUME NEW entries \in Seq(FileEntries), NEW e \in FileEntries, NEW skipped, NEW path, NEW below, NEW X,
           Loggable(Append(entries, e), skipped, path, below, X)
    PROVE  Tree!Children(Append(entries, e), skipped, path, below)
            = IF Passed(e, skipped) THEN Tree!Children(entries, skipped, path, below)
              ELSE Tree!Children(entries, skipped, path, below) \o Inside(path, e, below)
<1> DEFINE N == Len(entries) more == Append(entries, e)
<1>0. /\ N \in Nat /\ more \in Seq(FileEntries) /\ Len(more) = N + 1 /\ more[N + 1] = e
      /\ \A k \in 1 .. N : more[k] = entries[k] /\ k \in 1 .. Len(more)
  OBVIOUS
<1> HIDE DEF more
<1>1. Loggable(entries, skipped, path, below, X)
  BY <1>0 DEF Loggable, more
<1>2. PICK f \in [0 .. N -> Seq(Seq(X))] :
        Logged(f, entries, skipped, path, below) /\ Tree!Children(entries, skipped, path, below) = f[N]
  BY <1>1, LogsAre
<1>3. Loggable(more, skipped, path, below, X)
  BY DEF more
<1>4. PICK g \in [0 .. Len(more) -> Seq(Seq(X))] :
        Logged(g, more, skipped, path, below) /\ Tree!Children(more, skipped, path, below) = g[Len(more)]
  BY <1>0, <1>3, LogsAre
<1> DEFINE G == {k \in 0 .. N : f[k] = g[k]}
<1>5. 0 \in G
  BY <1>0, <1>2, <1>4 DEF Logged
<1>6. ASSUME NEW k \in Nat, k < N, k \in G PROVE k + 1 \in G
  <2>1. k + 1 \in 1 .. N /\ k + 1 - 1 = k /\ k + 1 \in 0 .. N
    BY <1>0, <1>6
  <2>2. f[k + 1] = g[k + 1]
    BY <1>0, <1>2, <1>4, <1>6, <2>1 DEF Logged
  <2> QED BY <2>1, <2>2
<1>7. 0 .. N \subseteq G
  <2> HIDE DEF G
  <2> QED BY <1>0, <1>5, <1>6, Upwards
<1>8. f[N] = g[N]
  BY <1>0, <1>7
<1>9. g[N + 1] = IF Passed(e, skipped) THEN g[N] ELSE g[N] \o Inside(path, e, below)
  <2>1. N + 1 \in 1 .. Len(more) /\ N + 1 - 1 = N
    BY <1>0
  <2> QED BY <1>0, <1>4, <2>1 DEF Logged
<1>10. Tree!Children(Append(entries, e), skipped, path, below) = g[N + 1]
  BY <1>0, <1>4 DEF more
<1> QED BY <1>2, <1>8, <1>9, <1>10

\* 020: the logs of all paths by the number of levels that are left below them.
PathNames == FileNames \cup {"STACK-EXHAUSTED"}
PathLogs == [Seq(FileNames) -> Seq(Seq(PathNames))]

IsLevels(W, entries, skipped) ==
    /\ W \in [0 .. MaxDepth + 1 -> PathLogs]
    /\ W[0] = [path \in Seq(FileNames) |-> <<Tree!Exhausted>>]
    /\ \A k \in 1 .. MaxDepth + 1 :
        W[k] = [path \in Seq(FileNames) |-> Tree!Children(entries, skipped, path, W[k - 1])]

IsBelow(f, entries, skipped) ==
    f = [dir \in Seq(FileNames) \X Nat |->
            IF dir[2] > MaxDepth THEN <<Tree!Exhausted>>
            ELSE Tree!Children(entries, skipped, dir[1],
                               [path \in Seq(FileNames) |-> f[<<path, dir[2] + 1>>]])]

LEMMA LogIs ==
    ASSUME NEW entries, NEW skipped
    PROVE  Tree!Log(entries, skipped) = (CHOOSE f : IsBelow(f, entries, skipped))[<< <<"target">>, 0 >>]
BY DEF Tree!Log, IsBelow

LEMMA TreeParts ==
    /\ MaxDepth \in Nat /\ <<"target">> \in Seq(FileNames)
    /\ <<Tree!Exhausted>> \in Seq(Seq(PathNames))
<1>1. MaxDepth \in Nat /\ "target" \in FileNames
  BY LoopsAssumption
<1>2. Tree!Exhausted \in Seq(PathNames)
  <2>1. "STACK-EXHAUSTED" \in PathNames
    BY DEF PathNames
  <2> HIDE DEF PathNames
  <2> QED BY <2>1 DEF Tree!Exhausted
<1> QED BY <1>1, <1>2

\* The children of a path are paths.
LEMMA AllLoggable ==
    ASSUME NEW entries \in Seq(FileEntries), NEW skipped, NEW path \in Seq(FileNames), NEW below \in PathLogs
    PROVE  Loggable(entries, skipped, path, below, PathNames)
           /\ Tree!Children(entries, skipped, path, below) \in Seq(Seq(PathNames))
<1>1. Seq(FileNames) \subseteq Seq(PathNames)
  BY DEF PathNames
<1>2. ASSUME NEW e \in FileEntries PROVE Inside(path, e, below) \in Seq(Seq(PathNames))
  <2> DEFINE child == Append(path, e.name)
  <2>1. child \in Seq(FileNames)
    BY DEF FileEntries
  <2>2. child \in Seq(PathNames) /\ below[child] \in Seq(Seq(PathNames))
    BY <1>1, <2>1 DEF PathLogs
  <2> HIDE DEF child
  <2>3. <<child>> \o below[child] \in Seq(Seq(PathNames))
    BY <2>2
  <2> QED BY <2>3 DEF Inside, Tree!Under, child
<1>3. Loggable(entries, skipped, path, below, PathNames)
  BY <1>2 DEF Loggable
<1>4. PICK f \in [0 .. Len(entries) -> Seq(Seq(PathNames))] :
        /\ Logged(f, entries, skipped, path, below)
        /\ Tree!Children(entries, skipped, path, below) = f[Len(entries)]
  BY <1>3, LogsAre
<1>5. Len(entries) \in 0 .. Len(entries)
  OBVIOUS
<1> QED BY <1>3, <1>4, <1>5

\* The log of the traversal is that of its levels.
LEMMA LevelsAre ==
    ASSUME NEW entries \in Seq(FileEntries), NEW skipped
    PROVE  \E W : IsLevels(W, entries, skipped)
                    /\ Tree!Log(entries, skipped) = W[MaxDepth + 1][<<"target">>]
<1> DEFINE N == MaxDepth + 1 P == Seq(FileNames)
           Kids(below) == [path \in P |-> Tree!Children(entries, skipped, path, below)]
           next == [e \in PathLogs \X (1 .. N) |-> Kids(e[1])]
           base == [path \in P |-> <<Tree!Exhausted>>]
<1>0. MaxDepth \in Nat /\ N \in Nat /\ <<"target">> \in P
  BY TreeParts
<1>1. base \in PathLogs
  BY TreeParts DEF PathLogs
<1>2. ASSUME NEW below \in PathLogs PROVE Kids(below) \in PathLogs
  BY AllLoggable DEF PathLogs
<1> HIDE DEF base
<1>3. next \in [PathLogs \X (1 .. N) -> PathLogs]
  <2> HIDE DEF Kids
  <2> QED BY <1>2
<1> HIDE DEF next
<1>4. PICK V : Walks(V, PathLogs, base, N, next)
  BY <1>0, <1>1, <1>3, WalkExists
<1>5. V \in [0 .. N -> PathLogs] /\ V[0] = base /\ \A k \in 1 .. N : V[k] = next[<<V[k - 1], k>>]
  BY <1>4 DEF Walks
<1>6. ASSUME NEW k \in 1 .. N PROVE V[k] = Kids(V[k - 1])
  <2>1. V[k - 1] \in PathLogs
    BY <1>0, <1>5
  <2> HIDE DEF Kids
  <2> QED BY <1>5, <2>1 DEF next
<1> DEFINE D == P \X Nat
           Rest(f, d) == [path \in P |-> f[<<path, d + 1>>]]
           At(f, p, d) == IF d > MaxDepth THEN <<Tree!Exhausted>>
                          ELSE Tree!Children(entries, skipped, p, Rest(f, d))
<1>7. \A f : IsBelow(f, entries, skipped) <=> f = [dir \in D |-> At(f, dir[1], dir[2])]
  BY DEF IsBelow
<1>8. \E f : IsBelow(f, entries, skipped)
  <2> DEFINE Deep(p, d) == IF d > MaxDepth THEN <<Tree!Exhausted>> ELSE V[N - d][p]
             f == [dir \in D |-> Deep(dir[1], dir[2])]
  <2>1. \A p \in P, d \in Nat : f[<<p, d>>] = Deep(p, d)
    <3> HIDE DEF Deep
    <3> QED OBVIOUS
  <2>2. f = [dir \in D |-> f[<<dir[1], dir[2]>>]]
    BY <2>1
  <2> HIDE DEF f
  <2>3. ASSUME NEW p \in P, NEW d \in Nat PROVE f[<<p, d>>] = At(f, p, d)
    <3>1. CASE d > MaxDepth
      BY <2>1, <3>1
    <3>2. CASE ~(d > MaxDepth)
      <4>1. N - d \in 1 .. N /\ N - d - 1 = N - (d + 1) /\ N - d - 1 \in 0 .. N /\ d + 1 \in Nat
        BY <1>0, <3>2
      <4>2. V[N - d] = Kids(V[N - d - 1])
        BY <1>6, <4>1
      <4>3. Rest(f, d) = V[N - d - 1]
        <5>1. V[N - d - 1] = [path \in P |-> V[N - d - 1][path]]
          BY <1>5, <4>1 DEF PathLogs
        <5>2. ASSUME NEW path \in P PROVE f[<<path, d + 1>>] = V[N - d - 1][path]
          <6>1. f[<<path, d + 1>>] = Deep(path, d + 1)
            BY <2>1, <4>1
          <6>2. CASE d + 1 > MaxDepth
            <7>1. N - d - 1 = 0
              BY <1>0, <3>2, <6>2
            <7>2. V[0][path] = <<Tree!Exhausted>>
              BY <1>5 DEF base
            <7> QED BY <6>1, <6>2, <7>1, <7>2
          <6>3. CASE ~(d + 1 > MaxDepth)
            BY <4>1, <6>1, <6>3
          <6> QED BY <6>2, <6>3
        <5> QED BY <5>1, <5>2
      <4>4. f[<<p, d>>] = V[N - d][p]
        BY <2>1, <3>2
      <4>5. V[N - d][p] = Tree!Children(entries, skipped, p, V[N - d - 1])
        BY <4>2
      <4> HIDE DEF Rest
      <4> QED BY <3>2, <4>3, <4>4, <4>5
    <3> QED BY <3>1, <3>2
  <2>4. f = [dir \in D |-> At(f, dir[1], dir[2])]
    <3> HIDE DEF At
    <3> QED BY <2>2, <2>3
  <2> HIDE DEF At
  <2> QED BY <1>7, <2>4
<1> DEFINE f == CHOOSE h : IsBelow(h, entries, skipped)
<1>9. IsBelow(f, entries, skipped) /\ Tree!Log(entries, skipped) = f[<< <<"target">>, 0 >>]
  BY <1>8, LogIs
<1> HIDE DEF f
<1>10. \A p \in P, d \in Nat : f[<<p, d>>] = At(f, p, d)
  <2>1. f = [dir \in D |-> At(f, dir[1], dir[2])]
    BY <1>7, <1>9
  <2> HIDE DEF At
  <2> QED BY <2>1
<1> DEFINE Level(k) == [path \in P |-> f[<<path, N - k>>]]
           G == {k \in 0 .. N : Level(k) = V[k]}
<1>11. 0 \in G
  <2>1. ASSUME NEW path \in P PROVE f[<<path, N - 0>>] = <<Tree!Exhausted>>
    <3>1. N - 0 = N /\ N > MaxDepth
      BY <1>0
    <3> QED BY <1>0, <1>10, <3>1
  <2>2. Level(0) = base
    BY <2>1 DEF base
  <2> QED BY <1>0, <1>5, <2>2
<1>12. ASSUME NEW k \in Nat, k < N, k \in G PROVE k + 1 \in G
  <2> DEFINE d == N - (k + 1)
  <2>1. k + 1 \in 1 .. N /\ k + 1 - 1 = k /\ k + 1 \in 0 .. N /\ d \in Nat /\ ~(d > MaxDepth) /\ d + 1 = N - k
    BY <1>0, <1>12
  <2> HIDE DEF d
  <2>2. Rest(f, d) = V[k]
    BY <1>12, <2>1
  <2>3. ASSUME NEW path \in P PROVE f[<<path, d>>] = Tree!Children(entries, skipped, path, V[k])
    <3>1. f[<<path, d>>] = At(f, path, d)
      BY <1>10, <2>1
    <3> HIDE DEF Rest
    <3> QED BY <2>1, <2>2, <3>1
  <2>4. Level(k + 1) = Kids(V[k])
    BY <2>3 DEF d
  <2>5. V[k + 1] = Kids(V[k])
    BY <1>6, <2>1
  <2> HIDE DEF Kids, Level
  <2> QED BY <2>1, <2>4, <2>5
<1>13. 0 .. N \subseteq G
  <2> HIDE DEF G
  <2> QED BY <1>0, <1>11, <1>12, Upwards
<1>14. f[<< <<"target">>, 0 >>] = V[N][<<"target">>]
  <2>1. Level(N) = V[N] /\ N - N = 0
    BY <1>0, <1>13
  <2>2. Level(N)[<<"target">>] = f[<< <<"target">>, N - N >>]
    BY <1>0
  <2> QED BY <2>1, <2>2
<1>15. IsLevels(V, entries, skipped)
  BY <1>5, <1>6 DEF IsLevels, base
<1> QED BY <1>9, <1>14, <1>15

IsNamed(f, entries) ==
    f = [k \in 0 .. Len(entries) |->
            IF k = 0 THEN <<>>
            ELSE IF entries[k].name \in Tree!Dots THEN f[k - 1] ELSE Append(f[k - 1], entries[k])]

\* The loop leaves out what is no dot entry exactly as one over the others does.
LEMMA ChildrenNamed ==
    ASSUME NEW entries \in Seq(FileEntries)
    PROVE  /\ Tree!Named(entries) \in Seq(FileEntries)
           /\ \A path \in Seq(FileNames), below \in PathLogs :
                Tree!Children(entries, Tree!Dots, path, below)
                    = Tree!Children(Tree!Named(entries), {}, path, below)
<1> DEFINE N == Len(entries) L == Seq(FileEntries)
           Of(s, k) == IF entries[k].name \in Tree!Dots THEN s ELSE Append(s, entries[k])
           next == [e \in L \X (1 .. N) |-> Of(e[1], e[2])]
           At(f, k) == IF k = 0 THEN <<>> ELSE Of(f[k - 1], k)
<1>0. N \in Nat /\ <<>> \in L /\ \A k \in 1 .. N : entries[k] \in FileEntries
  OBVIOUS
<1>1. ASSUME NEW s \in L, NEW k \in 1 .. N PROVE Of(s, k) \in L
  <2>1. Append(s, entries[k]) \in L
    BY <1>0
  <2> QED BY <2>1
<1>2. Tree!Named(entries) = (CHOOSE f : IsNamed(f, entries))[N]
  BY DEF Tree!Named, IsNamed
<1>3. \A f : IsNamed(f, entries) <=> f = [k \in 0 .. N |-> At(f, k)]
  BY DEF IsNamed
<1> HIDE DEF L, Of
<1>4. next \in [L \X (1 .. N) -> L]
  BY <1>1
<1> HIDE DEF next
<1>5. PICK g : Walks(g, L, <<>>, N, next)
  BY <1>0, <1>4, WalkExists
<1>6. g \in [0 .. N -> L] /\ g[0] = <<>> /\ \A k \in 1 .. N : g[k] = next[<<g[k - 1], k>>]
  BY <1>5 DEF Walks
<1>7. ASSUME NEW k \in 1 .. N PROVE g[k] = Of(g[k - 1], k)
  <2>1. g[k - 1] \in L
    BY <1>0, <1>6
  <2> QED BY <1>6, <2>1 DEF next
<1>8. IsNamed(g, entries)
  <2>1. \A k \in 0 .. N : g[k] = At(g, k)
    BY <1>0, <1>6, <1>7
  <2>2. g = [k \in 0 .. N |-> g[k]]
    BY <1>6
  <2> HIDE DEF At
  <2> QED BY <1>3, <2>1, <2>2
<1> DEFINE f == CHOOSE h : IsNamed(h, entries)
<1>9. IsNamed(f, entries)
  BY <1>8
<1> HIDE DEF f
<1>10. f[0] = <<>> /\ \A k \in 1 .. N : f[k] = Of(f[k - 1], k)
  <2>1. f = [k \in 0 .. N |-> At(f, k)]
    BY <1>3, <1>9
  <2>2. \A k \in 1 .. N : k \in 0 .. N /\ k # 0
    BY <1>0
  <2> QED BY <1>0, <2>1, <2>2
<1> DEFINE G == {k \in 0 .. N : f[k] \in L}
<1>11. 0 .. N \subseteq G
  <2>1. 0 \in G
    BY <1>0, <1>10
  <2>2. ASSUME NEW k \in Nat, k < N, k \in G PROVE k + 1 \in G
    <3>1. k + 1 \in 1 .. N /\ k + 1 - 1 = k /\ k + 1 \in 0 .. N
      BY <1>0, <2>2
    <3> QED BY <1>1, <1>10, <2>2, <3>1
  <2> HIDE DEF G
  <2> QED BY <1>0, <2>1, <2>2, Upwards
<1>12. Tree!Named(entries) = f[N] /\ f[N] \in L
  BY <1>0, <1>2, <1>11 DEF f
<1>13. ASSUME NEW path \in Seq(FileNames), NEW below \in PathLogs
       PROVE  Tree!Children(entries, Tree!Dots, path, below) = Tree!Children(f[N], {}, path, below)
  <2>1. PICK log \in [0 .. N -> Seq(Seq(PathNames))] :
            /\ Logged(log, entries, Tree!Dots, path, below)
            /\ Tree!Children(entries, Tree!Dots, path, below) = log[N]
    BY AllLoggable, LogsAre
  <2> DEFINE Kids(s) == Tree!Children(s, {}, path, below)
             H == {k \in 0 .. N : Kids(f[k]) = log[k]}
  <2>2. ASSUME NEW s \in L, NEW e \in FileEntries
        PROVE  Kids(Append(s, e)) = IF Passed(e, {}) THEN Kids(s) ELSE Kids(s) \o Inside(path, e, below)
    <3>1. Append(s, e) \in Seq(FileEntries) /\ s \in Seq(FileEntries)
      BY DEF L
    <3>2. Loggable(Append(s, e), {}, path, below, PathNames)
      BY <3>1, AllLoggable
    <3> QED BY <3>1, <3>2, ChildrenAppend
  <2> HIDE DEF Kids
  <2>3. 0 \in H
    <3>1. Kids(<<>>) = <<>>
      BY ChildrenEmpty DEF Kids
    <3> QED BY <1>0, <1>10, <2>1, <3>1 DEF Logged
  <2>4. ASSUME NEW k \in Nat, k < N, k \in H PROVE k + 1 \in H
    <3> DEFINE e == entries[k + 1]
    <3>1. k + 1 \in 1 .. N /\ k + 1 - 1 = k /\ k + 1 \in 0 .. N /\ k \in 0 .. N
      BY <1>0, <2>4
    <3>2. f[k + 1] = Of(f[k], k + 1) /\ f[k] \in L /\ e \in FileEntries
      BY <1>0, <1>10, <1>11, <3>1
    <3>3. log[k + 1] = IF Passed(e, Tree!Dots) THEN log[k] ELSE log[k] \o Inside(path, e, below)
      BY <2>1, <3>1 DEF Logged
    <3>4. CASE e.name \in Tree!Dots
      <4>1. Passed(e, Tree!Dots)
        BY <3>4 DEF Passed
      <4>2. f[k + 1] = f[k]
        BY <3>2, <3>4 DEF Of
      <4>3. Kids(f[k + 1]) = log[k + 1]
        BY <2>4, <3>3, <4>1, <4>2
      <4> QED BY <3>1, <4>3
    <3>5. CASE e.name \notin Tree!Dots
      <4>1. Passed(e, Tree!Dots) <=> Passed(e, {})
        BY <3>5 DEF Passed
      <4>2. f[k + 1] = Append(f[k], e)
        BY <3>2, <3>5 DEF Of
      <4> HIDE DEF e
      <4>3. Kids(Append(f[k], e)) = IF Passed(e, {}) THEN Kids(f[k]) ELSE Kids(f[k]) \o Inside(path, e, below)
        BY <2>2, <3>2
      <4>4. Kids(f[k]) = log[k]
        BY <2>4
      <4>5. Kids(f[k + 1]) = log[k + 1]
        BY <3>3, <4>1, <4>2, <4>3, <4>4
      <4> QED BY <3>1, <4>5
    <3> QED BY <3>4, <3>5
  <2>5. 0 .. N \subseteq H
    <3> HIDE DEF H
    <3> QED BY <1>0, <2>3, <2>4, Upwards
  <2>6. Kids(f[N]) = log[N]
    BY <1>0, <2>5
  <2> QED BY <2>1, <2>6 DEF Kids
<1> QED BY <1>12, <1>13 DEF L

\* 020: any entries of a directory.
LEMMA TreeLeft ==
    ASSUME NEW entries \in Seq(FileEntries) PROVE Tree!FixedLeavesTree(entries)
<1> DEFINE others == Tree!Named(entries) N == MaxDepth + 1 P == Seq(FileNames)
           clean == PathNames \ Tree!Dots Q == Seq(FileNames \ Tree!Dots)
<1>0. MaxDepth \in Nat /\ N \in Nat /\ N \in 0 .. N /\ <<"target">> \in P
  BY TreeParts
<1>1. others \in Seq(FileEntries) /\ \A path \in P, below \in PathLogs :
        Tree!Children(entries, Tree!Dots, path, below) = Tree!Children(others, {}, path, below)
  BY ChildrenNamed
<1> HIDE DEF others
<1>2. PICK W : IsLevels(W, entries, Tree!Dots)
                /\ Tree!Log(entries, Tree!Dots) = W[N][<<"target">>]
  BY LevelsAre
<1>3. PICK V : IsLevels(V, others, {}) /\ Tree!Log(others, {}) = V[N][<<"target">>]
  BY <1>1, LevelsAre
<1>4. \A k \in 0 .. N : W[k] \in PathLogs
  BY <1>2 DEF IsLevels
<1>5. 0 .. N \subseteq {k \in 0 .. N : W[k] = V[k]}
  <2> DEFINE G == {k \in 0 .. N : W[k] = V[k]}
  <2>1. 0 \in G
    BY <1>0, <1>2, <1>3 DEF IsLevels
  <2>2. ASSUME NEW k \in Nat, k < N, k \in G PROVE k + 1 \in G
    <3>1. k + 1 \in 1 .. N /\ k + 1 - 1 = k /\ k + 1 \in 0 .. N /\ k \in 0 .. N
      BY <1>0, <2>2
    <3>2. /\ W[k + 1] = [path \in P |-> Tree!Children(entries, Tree!Dots, path, W[k])]
          /\ V[k + 1] = [path \in P |-> Tree!Children(others, {}, path, V[k])]
      BY <1>2, <1>3, <3>1 DEF IsLevels
    <3>3. W[k] = V[k] /\ W[k] \in PathLogs
      BY <1>4, <2>2
    <3>4. \A path \in P :
            Tree!Children(entries, Tree!Dots, path, W[k]) = Tree!Children(others, {}, path, V[k])
      BY <1>1, <3>3
    <3> QED BY <3>1, <3>2, <3>4
  <2>3. 0 .. N \subseteq G
    <3> HIDE DEF G
    <3> QED BY <1>0, <2>1, <2>2, Upwards
  <2> QED BY <2>3
<1>6. Tree!FixedRemoveDirAll(entries) = Tree!BuggyRemoveDirAll(others)
  <2>1. W[N] = V[N]
    BY <1>0, <1>5
  <2> QED BY <1>2, <1>3, <2>1 DEF Tree!FixedRemoveDirAll, Tree!BuggyRemoveDirAll
<1>7. Q \subseteq P /\ <<"target">> \in Q /\ Q \subseteq Seq(clean) /\ <<Tree!Exhausted>> \in Seq(Seq(clean))
  <2>1. "target" \in FileNames /\ "target" \notin Tree!Dots
    BY LoopsAssumption DEF Tree!Dots
  <2>2. "STACK-EXHAUSTED" \in clean
    BY DEF PathNames, Tree!Dots
  <2>3. FileNames \ Tree!Dots \subseteq FileNames /\ FileNames \ Tree!Dots \subseteq clean
    BY DEF PathNames
  <2>4. <<"target">> \in Q
    <3>1. "target" \in FileNames \ Tree!Dots
      BY <2>1
    <3> QED BY <3>1
  <2>5. <<Tree!Exhausted>> \in Seq(Seq(clean))
    <3> HIDE DEF clean
    <3> QED BY <2>2 DEF Tree!Exhausted
  <2>6. Q \subseteq P /\ Q \subseteq Seq(clean)
    <3> HIDE DEF clean
    <3> QED BY <2>3
  <2> QED BY <2>4, <2>5, <2>6
<1>8. 0 .. N \subseteq {k \in 0 .. N : \A path \in Q : W[k][path] \in Seq(Seq(clean))}
  <2> DEFINE G == {k \in 0 .. N : \A path \in Q : W[k][path] \in Seq(Seq(clean))}
  <2>1. 0 \in G
    <3>1. ASSUME NEW path \in Q PROVE W[0][path] = <<Tree!Exhausted>>
      <4>1. path \in P
        BY <1>7
      <4> QED BY <1>2, <4>1 DEF IsLevels
    <3>2. \A path \in Q : W[0][path] \in Seq(Seq(clean))
      <4> HIDE DEF Q, clean
      <4> QED BY <1>7, <3>1
    <3> QED BY <1>0, <3>2
  <2>2. ASSUME NEW k \in Nat, k < N, k \in G PROVE k + 1 \in G
    <3>1. k + 1 \in 1 .. N /\ k + 1 - 1 = k /\ k + 1 \in 0 .. N
      BY <1>0, <2>2
    <3> DEFINE below == W[k]
    <3>2. W[k + 1] = [path \in P |-> Tree!Children(entries, Tree!Dots, path, below)]
      BY <1>2, <3>1 DEF IsLevels
    <3>3. \A path \in Q : below[path] \in Seq(Seq(clean))
      BY <2>2
    <3> HIDE DEF below
    <3>4. ASSUME NEW path \in Q PROVE Tree!Children(entries, Tree!Dots, path, below) \in Seq(Seq(clean))
      <4>1. ASSUME NEW e \in FileEntries, ~Passed(e, Tree!Dots)
            PROVE  Inside(path, e, below) \in Seq(Seq(clean))
        <5> DEFINE child == Append(path, e.name)
        <5>1. e.name \in FileNames \ Tree!Dots
          BY <4>1 DEF FileEntries, Passed
        <5>2. child \in Q
          BY <5>1
        <5>3. child \in Seq(clean) /\ below[child] \in Seq(Seq(clean))
          BY <1>7, <3>3, <5>2
        <5> HIDE DEF child, clean
        <5>4. <<child>> \o below[child] \in Seq(Seq(clean))
          BY <5>3
        <5> QED BY <5>4 DEF Inside, Tree!Under, child
      <4>2. Loggable(entries, Tree!Dots, path, below, clean)
        <5> HIDE DEF clean
        <5> QED BY <4>1 DEF Loggable
      <4> HIDE DEF clean
      <4>3. PICK log \in [0 .. Len(entries) -> Seq(Seq(clean))] :
                /\ Logged(log, entries, Tree!Dots, path, below)
                /\ Tree!Children(entries, Tree!Dots, path, below) = log[Len(entries)]
        BY <4>2, LogsAre
      <4>4. Len(entries) \in 0 .. Len(entries)
        OBVIOUS
      <4> QED BY <4>3, <4>4
    <3> HIDE DEF Q, clean
    <3>5. \A path \in Q : W[k + 1][path] \in Seq(Seq(clean))
      BY <1>7, <3>2, <3>4
    <3> QED BY <3>1, <3>5
  <2>3. 0 .. N \subseteq G
    <3> HIDE DEF G
    <3> QED BY <1>0, <2>1, <2>2, Upwards
  <2> QED BY <2>3
<1> DEFINE fixed == Tree!FixedRemoveDirAll(entries)
<1>9. fixed \in Seq(Seq(clean))
  <2>1. fixed = W[N][<<"target">>]
    BY <1>2 DEF Tree!FixedRemoveDirAll
  <2> HIDE DEF Q, clean, fixed
  <2> QED BY <1>0, <1>7, <1>8, <2>1
<1>10. \A k \in DOMAIN fixed : \A j \in DOMAIN fixed[k] : fixed[k][j] \notin Tree!Dots
  <2>1. \A x \in clean : x \notin Tree!Dots
    OBVIOUS
  <2> HIDE DEF clean, fixed
  <2>2. ASSUME NEW k \in DOMAIN fixed, NEW j \in DOMAIN fixed[k] PROVE fixed[k][j] \in clean
    <3>1. fixed[k] \in Seq(clean)
      BY <1>9
    <3> QED BY <3>1
  <2> QED BY <2>1, <2>2
<1> QED BY <1>6, <1>10 DEF Tree!FixedLeavesTree, others

\* 020: any number of dot entries.
LEMMA DotsAreLeft ==
    ASSUME NEW entries \in Seq(FileEntries) PROVE Tree!DotsExhaust(entries)
<1> SUFFICES ASSUME entries # <<>>,
                    \A k \in DOMAIN entries : entries[k].name \in Tree!Dots /\ entries[k].is_dir
    PROVE  /\ \E k \in DOMAIN Tree!BuggyRemoveDirAll(entries) :
                Tree!BuggyRemoveDirAll(entries)[k] = Tree!Exhausted
           /\ Tree!FixedRemoveDirAll(entries) = <<>>
  BY DEF Tree!DotsExhaust
<1> DEFINE N == MaxDepth + 1 P == Seq(FileNames) M == Len(entries)
<1>0. MaxDepth \in Nat /\ N \in 1 .. N /\ N \in 0 .. N /\ N - 1 \in 0 .. N /\ <<"target">> \in P
  BY TreeParts
<1>1. M \in Nat /\ M \in 1 .. M /\ M - 1 \in 0 .. M
        /\ \A k \in 1 .. M : entries[k] \in FileEntries /\ entries[k].name \in Tree!Dots /\ entries[k].is_dir
  OBVIOUS
<1>2. Tree!FixedRemoveDirAll(entries) = <<>>
  <2>1. PICK W : IsLevels(W, entries, Tree!Dots)
                /\ Tree!Log(entries, Tree!Dots) = W[N][<<"target">>]
    BY LevelsAre
  <2> DEFINE below == W[N - 1]
  <2>2. below \in PathLogs /\ W[N] = [path \in P |-> Tree!Children(entries, Tree!Dots, path, below)]
    BY <1>0, <2>1 DEF IsLevels
  <2> HIDE DEF below
  <2> DEFINE path == <<"target">>
  <2>0. path \in P
    BY <1>0
  <2> HIDE DEF path
  <2>3. PICK log \in [0 .. M -> Seq(Seq(PathNames))] :
            /\ Logged(log, entries, Tree!Dots, path, below)
            /\ Tree!Children(entries, Tree!Dots, path, below) = log[M]
    BY <2>0, <2>2, AllLoggable, LogsAre
  <2> DEFINE G == {k \in 0 .. M : log[k] = <<>>}
  <2>4. 0 \in G
    BY <1>1, <2>3 DEF Logged
  <2>5. ASSUME NEW k \in Nat, k < M, k \in G PROVE k + 1 \in G
    <3>1. k + 1 \in 1 .. M /\ k + 1 - 1 = k /\ k + 1 \in 0 .. M
      BY <1>1, <2>5
    <3>2. Passed(entries[k + 1], Tree!Dots)
      BY <1>1, <3>1 DEF Passed
    <3> QED BY <2>3, <2>5, <3>1, <3>2 DEF Logged
  <2>6. 0 .. M \subseteq G
    <3> HIDE DEF G
    <3> QED BY <1>1, <2>4, <2>5, Upwards
  <2>7. log[M] = <<>>
    BY <1>1, <2>6
  <2> QED BY <2>0, <2>1, <2>2, <2>3, <2>7 DEF Tree!FixedRemoveDirAll, path
<1>3. PICK V : IsLevels(V, entries, {}) /\ Tree!Log(entries, {}) = V[N][<<"target">>]
  BY LevelsAre
<1> DEFINE Has(log) == \E k \in DOMAIN log : log[k] = Tree!Exhausted
           H == {k \in 0 .. N : \A path \in P : Has(V[k][path])}
<1>4. 0 \in H
  <2>1. \A path \in P : V[0][path] = <<Tree!Exhausted>>
    BY <1>3 DEF IsLevels
  <2>2. Has(<<Tree!Exhausted>>)
    <3>1. 1 \in DOMAIN <<Tree!Exhausted>> /\ <<Tree!Exhausted>>[1] = Tree!Exhausted
      OBVIOUS
    <3> QED BY <3>1
  <2> HIDE DEF Has
  <2> QED BY <1>0, <2>1, <2>2
<1>5. ASSUME NEW k \in Nat, k < N, k \in H PROVE k + 1 \in H
  <2>1. k + 1 \in 1 .. N /\ k + 1 - 1 = k /\ k + 1 \in 0 .. N /\ k \in 0 .. N
    BY <1>0, <1>5
  <2> DEFINE below == V[k]
  <2>2. below \in PathLogs /\ V[k + 1] = [path \in P |-> Tree!Children(entries, {}, path, below)]
    <3>1. V \in [0 .. N -> PathLogs]
      BY <1>3 DEF IsLevels
    <3>2. V[k + 1] = [path \in P |-> Tree!Children(entries, {}, path, V[k + 1 - 1])]
      BY <1>3, <2>1 DEF IsLevels
    <3>3. below \in PathLogs
      BY <2>1, <3>1
    <3> QED BY <2>1, <3>2, <3>3
  <2>3. \A path \in P : Has(below[path])
    BY <1>5
  <2> HIDE DEF below, Has
  <2>4. ASSUME NEW path \in P PROVE Has(Tree!Children(entries, {}, path, below))
    <3>1. PICK log \in [0 .. M -> Seq(Seq(PathNames))] :
            /\ Logged(log, entries, {}, path, below)
            /\ Tree!Children(entries, {}, path, below) = log[M]
      BY <2>2, AllLoggable, LogsAre
    <3> DEFINE e == entries[M] child == Append(path, e.name) before == log[M - 1]
    <3>2. e \in FileEntries /\ ~Passed(e, {}) /\ child \in P
      BY <1>1 DEF Passed, FileEntries
    <3>3. log[M] = before \o (<<child>> \o below[child])
      BY <1>1, <3>1, <3>2 DEF Logged, Inside, Tree!Under
    <3>4. before \in Seq(Seq(PathNames)) /\ below[child] \in Seq(Seq(PathNames)) /\ child \in Seq(PathNames)
      <4>1. before \in Seq(Seq(PathNames))
        BY <1>1, <3>1
      <4>2. below[child] \in Seq(Seq(PathNames))
        BY <2>2, <3>2 DEF PathLogs
      <4>3. child \in Seq(PathNames)
        <5>1. FileNames \subseteq PathNames
          BY DEF PathNames
        <5> HIDE DEF child
        <5> QED BY <3>2, <5>1
      <4> QED BY <4>1, <4>2, <4>3
    <3>5. Has(below[child])
      BY <2>3, <3>2
    <3> DEFINE deeper == below[child]
    <3>6. PICK j \in DOMAIN deeper : deeper[j] = Tree!Exhausted
      BY <3>5 DEF Has
    <3> HIDE DEF deeper, child, before, e
    <3>7. log[M] = before \o (<<child>> \o deeper)
      BY <3>3 DEF deeper
    <3> DEFINE S == Seq(PathNames) both == <<child>> \o deeper
    <3>8. before \in Seq(S) /\ deeper \in Seq(S) /\ <<child>> \in Seq(S) /\ Len(<<child>>) = 1
      BY <3>4 DEF deeper
    <3> HIDE DEF S
    <3>9. /\ both \in Seq(S) /\ Len(both) = 1 + Len(deeper)
          /\ 1 + j \in 1 .. Len(both) /\ both[1 + j] = deeper[j]
      <4>1. j \in 1 .. Len(deeper) /\ Len(deeper) \in Nat
        BY <3>6, <3>8
      <4> QED BY <3>8, <4>1, ConcatProperties
    <3> HIDE DEF both
    <3> DEFINE whole == before \o both m == Len(before) + (1 + j)
    <3>10. whole \in Seq(S) /\ m \in 1 .. Len(whole) /\ whole[m] = both[1 + j]
      <4>1. Len(before) \in Nat /\ Len(both) \in Nat
        BY <3>8, <3>9
      <4> QED BY <3>8, <3>9, <4>1, ConcatProperties
    <3> HIDE DEF whole, m
    <3>11. m \in DOMAIN whole /\ whole[m] = Tree!Exhausted
      BY <3>6, <3>9, <3>10
    <3>12. log[M] = whole
      BY <3>7 DEF whole, both
    <3> QED BY <3>1, <3>11, <3>12 DEF Has
  <2> QED BY <2>1, <2>2, <2>4
<1>6. 0 .. N \subseteq H
  <2> HIDE DEF H
  <2> QED BY <1>0, <1>4, <1>5, Upwards
<1>7. Has(V[N][<<"target">>])
  <2> HIDE DEF Has
  <2> QED BY <1>0, <1>6
<1> QED BY <1>2, <1>3, <1>7 DEF Tree!BuggyRemoveDirAll
-----------------------------------------------------------------------------
\* 065: the streams of each depth, and what their tokens are.
LEMMA StreamsAre ==
    ASSUME NEW d \in 0 .. Nesting, NEW s \in Levels[d]
    PROVE  /\ Nesting \in Nat /\ s \in TokenStreams /\ Len(s) \in Nat /\ DOMAIN s = 1 .. Len(s)
           /\ \A k \in 1 .. Len(s) :
                /\ s[k].kind = "group" => d > 0 /\ s[k].inner \in Levels[d - 1]
                /\ s[k].kind # "group" => s[k] \in Atoms
<1>0. Nesting \in Nat /\ s \in TokenStreams
  BY StreamsAssumption DEF TokenStreams
<1>1. \A t \in Atoms : t.kind # "group"
  BY DEF Atoms
<1>2. CASE d = 0
  <2>1. s \in Seq(Atoms)
    BY <1>2, StreamsAssumption
  <2> HIDE DEF Atoms
  <2> QED BY <1>0, <1>1, <2>1
<1>3. CASE d > 0
  <2> DEFINE groups == [kind : {"group"}, inner : Levels[d - 1]]
  <2>1. s \in Seq(Atoms \cup groups)
    <3>1. d \in 1 .. Nesting
      BY <1>0, <1>3
    <3> QED BY <3>1, StreamsAssumption
  <2>2. \A t \in groups : t.kind = "group" /\ t.inner \in Levels[d - 1]
    OBVIOUS
  <2> HIDE DEF groups
  <2>3. ASSUME NEW k \in 1 .. Len(s) PROVE s[k] \in Atoms \cup groups
    BY <2>1
  <2> QED BY <1>0, <1>1, <1>3, <2>1, <2>2, <2>3
<1> QED BY <1>0, <1>2, <1>3

IsOut(f, stream, places, below) ==
    f = [k \in 0 .. Len(stream) |->
            IF k = 0 THEN <<>>
            ELSE CASE stream[k].kind = "group" -> f[k - 1] \o below[stream[k].inner]
                   [] stream[k].kind = "ident" /\ k \in places -> Append(f[k - 1], stream[k])
                   [] OTHER -> f[k - 1]]

LEMMA GatheredIs ==
    ASSUME NEW stream, NEW places, NEW below
    PROVE  Macro!Gathered(stream, places, below)
            = (CHOOSE f : IsOut(f, stream, places, below))[Len(stream)]
BY DEF Macro!Gathered, IsOut

\* What one more token makes of what was gathered.
More(out, token, taken, below) ==
    IF token.kind = "group" THEN out \o below[token.inner]
    ELSE IF token.kind = "ident" /\ taken THEN Append(out, token) ELSE out

Gathers(f, stream, places, below) ==
    /\ f[0] = <<>>
    /\ \A k \in 1 .. Len(stream) : f[k] = More(f[k - 1], stream[k], k \in places, below)

\* What is below the groups of a depth is sequences of atoms.
Typed(below, d) == d > 0 => \A x \in Levels[d - 1] : below[x] \in Seq(Atoms)

LEMMA MoreIs ==
    ASSUME NEW d \in 0 .. Nesting, NEW s \in Levels[d], NEW k \in 1 .. Len(s), NEW out \in Seq(Atoms),
           NEW taken \in BOOLEAN, NEW below, Typed(below, d)
    PROVE  More(out, s[k], taken, below) \in Seq(Atoms)
<1>1. CASE s[k].kind = "group"
  <2>1. d > 0 /\ s[k].inner \in Levels[d - 1]
    BY <1>1, StreamsAre
  <2>2. below[s[k].inner] \in Seq(Atoms)
    BY <2>1 DEF Typed
  <2> HIDE DEF Atoms
  <2>3. out \o below[s[k].inner] \in Seq(Atoms)
    BY <2>2
  <2> QED BY <1>1, <2>3 DEF More
<1>2. CASE s[k].kind # "group"
  <2>1. s[k] \in Atoms
    BY <1>2, StreamsAre
  <2>2. Append(out, s[k]) \in Seq(Atoms)
    BY <2>1
  <2> QED BY <1>2, <2>2 DEF More
<1> QED BY <1>1, <1>2

\* The pass over a stream gathers atoms, token by token.
Passes(s, places, below) ==
    \E f \in [0 .. Len(s) -> Seq(Atoms)] :
        Gathers(f, s, places, below) /\ Macro!Gathered(s, places, below) = f[Len(s)]

LEMMA GatheredAre ==
    ASSUME NEW d \in 0 .. Nesting, NEW s \in Levels[d], NEW places,
           NEW below, Typed(below, d)
    PROVE  Passes(s, places, below)
<1> DEFINE N == Len(s) L == Seq(Atoms)
           Of(out, k) == More(out, s[k], k \in places, below)
           next == [e \in L \X (1 .. N) |-> Of(e[1], e[2])]
           At(f, k) == IF k = 0 THEN <<>>
                       ELSE CASE s[k].kind = "group" -> f[k - 1] \o below[s[k].inner]
                              [] s[k].kind = "ident" /\ k \in places -> Append(f[k - 1], s[k])
                              [] OTHER -> f[k - 1]
<1>0. N \in Nat /\ <<>> \in L
  BY StreamsAre
<1>1. ASSUME NEW out \in L, NEW k \in 1 .. N PROVE Of(out, k) \in L
  <2> DEFINE taken == k \in places
  <2>1. taken \in BOOLEAN
    OBVIOUS
  <2> HIDE DEF taken
  <2>2. More(out, s[k], taken, below) \in Seq(Atoms)
    BY <2>1, MoreIs
  <2> QED BY <2>2 DEF taken
<1>2. \A f : IsOut(f, s, places, below) <=> f = [k \in 0 .. N |-> At(f, k)]
  BY DEF IsOut
<1>3. \A f : At(f, 0) = <<>> /\ \A k \in 1 .. N : At(f, k) = Of(f[k - 1], k)
  <2> SUFFICES ASSUME NEW f, NEW k \in 1 .. N PROVE At(f, k) = Of(f[k - 1], k)
    OBVIOUS
  <2>1. k # 0
    OBVIOUS
  <2>2. CASE s[k].kind = "group"
    <3>1. ~(s[k].kind = "ident")
      BY <2>2
    <3> QED BY <2>1, <2>2, <3>1 DEF More
  <2>3. CASE s[k].kind # "group"
    BY <2>1, <2>3 DEF More
  <2> QED BY <2>2, <2>3
<1> HIDE DEF L, Of, At
<1>4. next \in [L \X (1 .. N) -> L]
  BY <1>1
<1> HIDE DEF next
<1>5. PICK g : Walks(g, L, <<>>, N, next)
  BY <1>0, <1>4, WalkExists
<1>6. g \in [0 .. N -> L] /\ g[0] = <<>> /\ \A k \in 1 .. N : g[k] = next[<<g[k - 1], k>>]
  BY <1>5 DEF Walks
<1>7. ASSUME NEW k \in 1 .. N PROVE g[k] = Of(g[k - 1], k)
  <2>1. g[k - 1] \in L
    BY <1>0, <1>6
  <2> QED BY <1>6, <2>1 DEF next
<1>8. \A k : k \in 0 .. N <=> k = 0 \/ k \in 1 .. N
  BY <1>0
<1>9. IsOut(g, s, places, below)
  <2>1. \A k \in 0 .. N : g[k] = At(g, k)
    BY <1>3, <1>6, <1>7, <1>8
  <2>2. g = [k \in 0 .. N |-> g[k]]
    BY <1>6
  <2> QED BY <1>2, <2>1, <2>2
<1> DEFINE f == CHOOSE h : IsOut(h, s, places, below)
<1>10. IsOut(f, s, places, below)
  BY <1>9
<1>11. Macro!Gathered(s, places, below) = f[N]
  BY GatheredIs
<1> HIDE DEF f
<1>12. f[0] = <<>> /\ \A k \in 1 .. N : f[k] = Of(f[k - 1], k)
  BY <1>2, <1>3, <1>8, <1>10
<1> DEFINE G == {k \in 0 .. N : f[k] \in L}
<1>13. 0 .. N \subseteq G
  <2>1. 0 \in G
    BY <1>0, <1>12
  <2>2. ASSUME NEW k \in Nat, k < N, k \in G PROVE k + 1 \in G
    <3>1. k + 1 \in 1 .. N /\ k + 1 - 1 = k /\ k + 1 \in 0 .. N
      BY <1>0, <2>2
    <3> QED BY <1>1, <1>12, <2>2, <3>1
  <2> HIDE DEF G
  <2> QED BY <1>0, <2>1, <2>2, Upwards
<1>14. f = [k \in 0 .. N |-> f[k]]
  BY <1>2, <1>10
<1>15. f \in [0 .. N -> L]
  BY <1>13, <1>14
<1>16. Gathers(f, s, places, below)
  BY <1>12 DEF Gathers, Of
<1> QED BY <1>11, <1>15, <1>16 DEF Passes, L

\* What is gathered depends on the places, and on what is below the groups.
LEMMA GatheredSame ==
    ASSUME NEW d \in 0 .. Nesting, NEW s \in Levels[d], NEW places,
           NEW below, NEW other, Typed(below, d),
           d > 0 => \A x \in Levels[d - 1] : below[x] = other[x]
    PROVE  Macro!Gathered(s, places, below) = Macro!Gathered(s, places, other)
<1> DEFINE N == Len(s)
<1>0. N \in Nat
  BY StreamsAre
<1>1. PICK f \in [0 .. N -> Seq(Atoms)] :
        Gathers(f, s, places, below) /\ Macro!Gathered(s, places, below) = f[N]
  <2>1. Passes(s, places, below)
    BY GatheredAre
  <2> QED BY <2>1 DEF Passes
<1>a. Typed(other, d)
  BY DEF Typed
<1>2. PICK g \in [0 .. N -> Seq(Atoms)] :
        Gathers(g, s, places, other) /\ Macro!Gathered(s, places, other) = g[N]
  <2>1. Passes(s, places, other)
    BY <1>a, GatheredAre
  <2> QED BY <2>1 DEF Passes
<1>3. ASSUME NEW k \in 1 .. N, NEW out, NEW taken
      PROVE  More(out, s[k], taken, below) = More(out, s[k], taken, other)
  <2>1. CASE s[k].kind = "group"
    <3>1. d > 0 /\ s[k].inner \in Levels[d - 1]
      BY <2>1, StreamsAre
    <3>2. below[s[k].inner] = other[s[k].inner]
      BY <3>1
    <3> QED BY <2>1, <3>2 DEF More
  <2>2. CASE s[k].kind # "group"
    BY <2>2 DEF More
  <2> QED BY <2>1, <2>2
<1> DEFINE G == {k \in 0 .. N : f[k] = g[k]}
<1>4. 0 .. N \subseteq G
  <2>1. 0 \in G
    BY <1>0, <1>1, <1>2 DEF Gathers
  <2>2. ASSUME NEW k \in Nat, k < N, k \in G PROVE k + 1 \in G
    <3>1. k + 1 \in 1 .. N /\ k + 1 - 1 = k /\ k + 1 \in 0 .. N
      BY <1>0, <2>2
    <3>2. /\ f[k + 1] = More(f[k], s[k + 1], k + 1 \in places, below)
          /\ g[k + 1] = More(g[k], s[k + 1], k + 1 \in places, other)
      BY <1>1, <1>2, <3>1 DEF Gathers
    <3>3. f[k] = g[k]
      BY <2>2
    <3>4. f[k + 1] = g[k + 1]
      BY <1>3, <3>1, <3>2, <3>3, Zenon
    <3> QED BY <3>1, <3>4
  <2> HIDE DEF G
  <2> QED BY <1>0, <2>1, <2>2, Upwards
<1>5. N \in 0 .. N
  BY <1>0
<1>6. f[N] = g[N]
  <2> HIDE DEF N
  <2> QED BY <1>4, <1>5
<1> QED BY <1>1, <1>2, <1>6

\* 065: a function that gathers all streams, groups and all, at given places.
GatherAll(f, places) == f = [s \in TokenStreams |-> Macro!Gathered(s, places[s], f)]

\* Streams by depth: what is so of each depth is so of all.
LEMMA ByDepth ==
    ASSUME NEW G, \A s \in Levels[0] : s \in G,
           \A d \in 1 .. Nesting : (\A x \in Levels[d - 1] : x \in G) => \A s \in Levels[d] : s \in G
    PROVE  TokenStreams \subseteq G
<1>0. Nesting \in Nat
  BY StreamsAssumption
<1> DEFINE D == {d \in 0 .. Nesting : \A s \in Levels[d] : s \in G}
<1>1. 0 \in D
  BY <1>0
<1>2. ASSUME NEW d \in Nat, d < Nesting, d \in D PROVE d + 1 \in D
  <2>1. d + 1 \in 1 .. Nesting /\ d + 1 - 1 = d /\ d + 1 \in 0 .. Nesting
    BY <1>0, <1>2
  <2> QED BY <1>2, <2>1
<1>3. 0 .. Nesting \subseteq D
  <2> HIDE DEF D
  <2> QED BY <1>0, <1>1, <1>2, Upwards
<1> QED BY <1>3 DEF TokenStreams

LEMMA GatherAllTyped ==
    ASSUME NEW places, NEW f, GatherAll(f, places) PROVE f \in [TokenStreams -> Seq(Atoms)]
<1>0. Nesting \in Nat
  BY StreamsAssumption
<1> DEFINE G == {s \in TokenStreams : f[s] \in Seq(Atoms)}
<1>1. ASSUME NEW d \in 0 .. Nesting, d > 0 => \A x \in Levels[d - 1] : x \in G, NEW s \in Levels[d]
      PROVE  s \in G
  <2>1. Typed(f, d)
    BY <1>1 DEF Typed
  <2>2. PICK out \in [0 .. Len(s) -> Seq(Atoms)] : Macro!Gathered(s, places[s], f) = out[Len(s)]
    <3>1. Passes(s, places[s], f)
      BY <2>1, GatheredAre
    <3> QED BY <3>1 DEF Passes
  <2>3. s \in TokenStreams /\ Len(s) \in 0 .. Len(s)
    BY StreamsAre
  <2>4. f[s] = Macro!Gathered(s, places[s], f)
    BY <2>3 DEF GatherAll
  <2> QED BY <2>2, <2>3, <2>4
<1>2. TokenStreams \subseteq G
  <2> HIDE DEF G
  <2>1. 0 \in 0 .. Nesting /\ \A d \in 1 .. Nesting : d \in 0 .. Nesting
    BY <1>0
  <2>2. \A s \in Levels[0] : s \in G
    BY <1>1, <2>1
  <2>3. ASSUME NEW d \in 1 .. Nesting, \A x \in Levels[d - 1] : x \in G, NEW s \in Levels[d] PROVE s \in G
    BY <1>1, <2>1, <2>3
  <2> QED BY <2>2, <2>3, ByDepth
<1> QED BY <1>2 DEF GatherAll

\* There is one such function, and only one.
LEMMA GatherAllExists == ASSUME NEW places PROVE \E f : GatherAll(f, places)
<1> DEFINE S == [TokenStreams -> Seq(Atoms)] N == Nesting + 2
           Round(w) == [s \in TokenStreams |-> Macro!Gathered(s, places[s], w)]
           next == [e \in S \X (1 .. N) |-> Round(e[1])]
           base == [s \in TokenStreams |-> <<>>]
<1>0. Nesting \in Nat /\ N \in Nat
  BY StreamsAssumption
<1>1. base \in S
  OBVIOUS
<1>2. \A w \in S, d \in 0 .. Nesting : Typed(w, d)
  <2> SUFFICES ASSUME NEW w \in S, NEW d \in 0 .. Nesting, d > 0, NEW x \in Levels[d - 1]
      PROVE w[x] \in Seq(Atoms)
    BY DEF Typed
  <2>1. d - 1 \in 0 .. Nesting
    BY <1>0
  <2> QED BY <2>1, StreamsAre
<1>3. ASSUME NEW w \in S PROVE Round(w) \in S
  <2> SUFFICES ASSUME NEW s \in TokenStreams PROVE Macro!Gathered(s, places[s], w) \in Seq(Atoms)
    OBVIOUS
  <2>1. PICK d \in 0 .. Nesting : s \in Levels[d]
    BY DEF TokenStreams
  <2>2. PICK out \in [0 .. Len(s) -> Seq(Atoms)] :
            Gathers(out, s, places[s], w) /\ Macro!Gathered(s, places[s], w) = out[Len(s)]
    <3>1. Typed(w, d)
      BY <1>2
    <3>2. Passes(s, places[s], w)
      BY <2>1, <3>1, GatheredAre
    <3> QED BY <3>2 DEF Passes
  <2>3. Len(s) \in 0 .. Len(s)
    BY <2>1, StreamsAre
  <2> QED BY <2>2, <2>3
<1> HIDE DEF S, base
<1>4. next \in [S \X (1 .. N) -> S]
  <2> HIDE DEF Round
  <2> QED BY <1>3
<1> HIDE DEF next
<1>5. PICK W : Walks(W, S, base, N, next)
  BY <1>0, <1>1, <1>4, WalkExists
<1>6. W \in [0 .. N -> S] /\ W[0] = base /\ \A k \in 1 .. N : W[k] = next[<<W[k - 1], k>>]
  BY <1>5 DEF Walks
<1>7. ASSUME NEW k \in 1 .. N PROVE W[k - 1] \in S /\ W[k] = Round(W[k - 1])
  <2>1. W[k - 1] \in S
    BY <1>0, <1>6
  <2> HIDE DEF Round
  <2> QED BY <1>6, <2>1 DEF next
\* A depth needs one round more than the one before it.
<1> DEFINE H ==
        {d \in 0 .. Nesting : \A s \in Levels[d] : \A k \in d + 1 .. Nesting + 1 : W[k + 1][s] = W[k][s]}
<1>8. ASSUME NEW d \in 0 .. Nesting, NEW s \in Levels[d], NEW k \in d + 1 .. Nesting + 1,
             d > 0 => \A x \in Levels[d - 1] : W[k][x] = W[k - 1][x]
      PROVE  W[k + 1][s] = W[k][s]
  <2>1. k \in 1 .. N /\ k + 1 \in 1 .. N /\ k + 1 - 1 = k
    BY <1>0
  <2>2. W[k] = Round(W[k - 1]) /\ W[k - 1] \in S /\ W[k + 1] = Round(W[k]) /\ W[k] \in S
    <3>1. W[k] = Round(W[k - 1]) /\ W[k - 1] \in S
      BY <1>7, <2>1
    <3>2. W[k + 1] = Round(W[k + 1 - 1]) /\ W[k + 1 - 1] \in S
      BY <1>7, <2>1
    <3> HIDE DEF Round
    <3> QED BY <2>1, <3>1, <3>2
  <2>3. s \in TokenStreams
    BY StreamsAre
  <2>4. W[k + 1][s] = Macro!Gathered(s, places[s], W[k])
          /\ W[k][s] = Macro!Gathered(s, places[s], W[k - 1])
    BY <2>2, <2>3
  <2>5. Typed(W[k], d)
    BY <1>2, <2>2
  <2>6. Macro!Gathered(s, places[s], W[k]) = Macro!Gathered(s, places[s], W[k - 1])
    BY <1>8, <2>5, GatheredSame
  <2> QED BY <2>4, <2>6
<1>9. 0 \in H
  BY <1>0, <1>8
<1>10. ASSUME NEW d \in Nat, d < Nesting, d \in H PROVE d + 1 \in H
  <2>1. d + 1 \in 0 .. Nesting /\ d + 1 - 1 = d
    BY <1>0, <1>10
  <2> SUFFICES ASSUME NEW s \in Levels[d + 1], NEW k \in d + 1 + 1 .. Nesting + 1 PROVE W[k + 1][s] = W[k][s]
    BY <2>1
  <2>2. k - 1 \in d + 1 .. Nesting + 1 /\ k - 1 + 1 = k
    BY <1>0, <1>10
  <2>3. \A x \in Levels[d] : W[k - 1 + 1][x] = W[k - 1][x]
    BY <1>10, <2>2
  <2>4. \A x \in Levels[d + 1 - 1] : W[k][x] = W[k - 1][x]
    BY <2>1, <2>2, <2>3
  <2> QED BY <1>8, <2>1, <2>4
<1>11. 0 .. Nesting \subseteq H
  <2> HIDE DEF H
  <2> QED BY <1>0, <1>9, <1>10, Upwards
<1> DEFINE f == W[Nesting + 1]
<1>12. f \in S /\ W[Nesting + 2] = Round(f)
  <2> DEFINE m == Nesting + 2
  <2>1. m \in 1 .. N /\ m - 1 = Nesting + 1
    BY <1>0
  <2> HIDE DEF Round, m
  <2>2. W[m - 1] \in S /\ W[m] = Round(W[m - 1])
    BY <1>7, <2>1
  <2> QED BY <2>1, <2>2 DEF m
<1>13. ASSUME NEW s \in TokenStreams PROVE f[s] = W[Nesting + 2][s]
  <2>1. PICK d \in 0 .. Nesting : s \in Levels[d]
    BY DEF TokenStreams
  <2>2. Nesting + 1 \in d + 1 .. Nesting + 1 /\ Nesting + 1 + 1 = Nesting + 2
    BY <1>0
  <2>3. W[Nesting + 1 + 1][s] = W[Nesting + 1][s]
    BY <1>11, <2>1, <2>2
  <2> QED BY <2>2, <2>3
<1> HIDE DEF f
<1>14. f = [s \in TokenStreams |-> f[s]]
  BY <1>12 DEF S
<1>15. \A s \in TokenStreams : f[s] = Macro!Gathered(s, places[s], f)
  BY <1>12, <1>13
<1>16. GatherAll(f, places)
  BY <1>14, <1>15 DEF GatherAll
<1> QED BY <1>16

LEMMA GatherAllUnique ==
    ASSUME NEW places, NEW f, GatherAll(f, places), NEW g, GatherAll(g, places),
           NEW s \in TokenStreams
    PROVE  f[s] = g[s]
<1>0. Nesting \in Nat
  BY StreamsAssumption
<1> DEFINE G == {x \in TokenStreams : f[x] = g[x]}
<1>1. ASSUME NEW d \in 0 .. Nesting, d > 0 => \A x \in Levels[d - 1] : x \in G, NEW x \in Levels[d]
      PROVE  x \in G
  <2>1. f \in [TokenStreams -> Seq(Atoms)]
    BY GatherAllTyped
  <2>2. d > 0 => \A y \in Levels[d - 1] : f[y] = g[y] /\ y \in TokenStreams
    BY <1>1
  <2>3. Typed(f, d)
    BY <2>1, <2>2 DEF Typed
  <2>4. Macro!Gathered(x, places[x], f) = Macro!Gathered(x, places[x], g)
    BY <2>2, <2>3, GatheredSame
  <2>5. x \in TokenStreams
    BY StreamsAre
  <2> QED BY <2>4, <2>5 DEF GatherAll
<1>2. TokenStreams \subseteq G
  <2> HIDE DEF G
  <2>1. 0 \in 0 .. Nesting /\ \A d \in 1 .. Nesting : d \in 0 .. Nesting
    BY <1>0
  <2>2. \A x \in Levels[0] : x \in G
    BY <1>1, <2>1
  <2>3. ASSUME NEW d \in 1 .. Nesting, \A x \in Levels[d - 1] : x \in G, NEW x \in Levels[d] PROVE x \in G
    BY <1>1, <2>1, <2>3
  <2> QED BY <2>2, <2>3, ByDepth
<1> QED BY <1>2

\* 065: what is gathered at some places, and what at those of two kinds apart.
Joined(all, odd, even) == Len(all) = Len(odd) + Len(even) /\ (even = <<>> => all = odd)

LEMMA JoinedMore ==
    ASSUME NEW all \in Seq(Atoms), NEW odd \in Seq(Atoms), NEW even \in Seq(Atoms), Joined(all, odd, even),
           NEW token, token.kind # "group" => token \in Atoms,
           NEW A, NEW O, NEW E,
           token.kind = "group" =>
                /\ A[token.inner] \in Seq(Atoms) /\ O[token.inner] \in Seq(Atoms)
                /\ E[token.inner] \in Seq(Atoms)
                /\ Joined(A[token.inner], O[token.inner], E[token.inner]),
           NEW a \in BOOLEAN, NEW o \in BOOLEAN, NEW e \in BOOLEAN,
           token.kind = "ident" => (a <=> o \/ e) /\ ~(o /\ e)
    PROVE  Joined(More(all, token, a, A), More(odd, token, o, O), More(even, token, e, E))
<1>0. Len(all) \in Nat /\ Len(odd) \in Nat /\ Len(even) \in Nat
  OBVIOUS
<1>1. CASE token.kind = "group"
  <2> DEFINE x == A[token.inner] y == O[token.inner] z == E[token.inner]
  <2>1. x \in Seq(Atoms) /\ y \in Seq(Atoms) /\ z \in Seq(Atoms) /\ Joined(x, y, z)
    BY <1>1
  <2>2. /\ More(all, token, a, A) = all \o x /\ More(odd, token, o, O) = odd \o y
        /\ More(even, token, e, E) = even \o z
    BY <1>1 DEF More
  <2> HIDE DEF x, y, z, Atoms
  <2>3. Len(all \o x) = Len(all) + Len(x) /\ Len(odd \o y) = Len(odd) + Len(y)
            /\ Len(even \o z) = Len(even) + Len(z) /\ Len(x) \in Nat /\ Len(y) \in Nat /\ Len(z) \in Nat
    BY <2>1, ConcatProperties
  <2>4. Len(all \o x) = Len(odd \o y) + Len(even \o z)
    BY <1>0, <2>1, <2>3 DEF Joined
  <2>5. even \o z = <<>> => all \o x = odd \o y
    <3> SUFFICES ASSUME even \o z = <<>> PROVE all \o x = odd \o y
      OBVIOUS
    <3>1. Len(even \o z) = 0
      OBVIOUS
    <3>2. Len(even) = 0 /\ Len(z) = 0
      BY <1>0, <2>3, <3>1
    <3>3. even = <<>> /\ z = <<>>
      BY <2>1, <3>2
    <3> QED BY <2>1, <3>3 DEF Joined
  <2> QED BY <2>2, <2>4, <2>5 DEF Joined
<1>2. CASE token.kind = "ident"
  <2>0. token \in Atoms /\ ~(token.kind = "group")
    BY <1>2
  <2> HIDE DEF Atoms
  <2>1. \A s \in Seq(Atoms) : Len(Append(s, token)) = Len(s) + 1 /\ Append(s, token) # <<>>
    BY <2>0, AppendProperties
  <2>2. CASE o /\ ~e
    <3>1. /\ More(all, token, a, A) = Append(all, token) /\ More(odd, token, o, O) = Append(odd, token)
          /\ More(even, token, e, E) = even
      BY <1>2, <2>0, <2>2 DEF More
    <3>2. Len(Append(all, token)) = Len(Append(odd, token)) + Len(even)
      BY <1>0, <2>1 DEF Joined
    <3>3. even = <<>> => Append(all, token) = Append(odd, token)
      BY DEF Joined
    <3> QED BY <3>1, <3>2, <3>3 DEF Joined
  <2>3. CASE ~o /\ e
    <3>1. /\ More(all, token, a, A) = Append(all, token) /\ More(odd, token, o, O) = odd
          /\ More(even, token, e, E) = Append(even, token)
      BY <1>2, <2>0, <2>3 DEF More
    <3>2. Len(Append(all, token)) = Len(odd) + Len(Append(even, token))
      BY <1>0, <2>1 DEF Joined
    <3> QED BY <2>1, <3>1, <3>2 DEF Joined
  <2>4. CASE ~o /\ ~e
    <3>1. /\ More(all, token, a, A) = all /\ More(odd, token, o, O) = odd
          /\ More(even, token, e, E) = even
      BY <1>2, <2>0, <2>4 DEF More
    <3> QED BY <3>1
  <2> QED BY <1>2, <2>2, <2>3, <2>4
<1>3. CASE token.kind # "group" /\ token.kind # "ident"
  <2>1. /\ More(all, token, a, A) = all /\ More(odd, token, o, O) = odd
        /\ More(even, token, e, E) = even
    BY <1>3 DEF More
  <2> QED BY <2>1
<1> QED BY <1>1, <1>2, <1>3

\* Two kinds of places that are apart join to the places of both.
Split(stream, all, odd, even) ==
    \A k \in 1 .. Len(stream) : (k \in all <=> k \in odd \/ k \in even) /\ ~(k \in odd /\ k \in even)

LEMMA GatherAllJoined ==
    ASSUME NEW all, NEW odd, NEW even, NEW A, NEW O, NEW E,
           GatherAll(A, all), GatherAll(O, odd), GatherAll(E, even),
           \A x \in TokenStreams : Split(x, all[x], odd[x], even[x]),
           NEW s \in TokenStreams
    PROVE  Joined(A[s], O[s], E[s])
<1>0. Nesting \in Nat
  BY StreamsAssumption
<1>1. /\ A \in [TokenStreams -> Seq(Atoms)] /\ O \in [TokenStreams -> Seq(Atoms)]
      /\ E \in [TokenStreams -> Seq(Atoms)]
  BY GatherAllTyped
<1> DEFINE G == {x \in TokenStreams : Joined(A[x], O[x], E[x])}
<1>2. ASSUME NEW d \in 0 .. Nesting, d > 0 => \A x \in Levels[d - 1] : x \in G, NEW x \in Levels[d]
      PROVE  x \in G
  <2> DEFINE N == Len(x)
  <2>0. N \in Nat /\ x \in TokenStreams
    BY StreamsAre
  <2>1. d > 0 => \A y \in Levels[d - 1] : y \in TokenStreams /\ Joined(A[y], O[y], E[y])
    BY <1>2
  <2>2. Typed(A, d) /\ Typed(O, d) /\ Typed(E, d)
    BY <1>1, <2>1 DEF Typed
  <2>3. Passes(x, all[x], A) /\ Passes(x, odd[x], O) /\ Passes(x, even[x], E)
    BY <2>2, GatheredAre
  <2>4. PICK a \in [0 .. N -> Seq(Atoms)] : Gathers(a, x, all[x], A) /\ Macro!Gathered(x, all[x], A) = a[N]
    BY <2>3 DEF Passes
  <2>5. PICK o \in [0 .. N -> Seq(Atoms)] : Gathers(o, x, odd[x], O) /\ Macro!Gathered(x, odd[x], O) = o[N]
    BY <2>3 DEF Passes
  <2>6. PICK e \in [0 .. N -> Seq(Atoms)] : Gathers(e, x, even[x], E) /\ Macro!Gathered(x, even[x], E) = e[N]
    BY <2>3 DEF Passes
  <2> DEFINE H == {k \in 0 .. N : Joined(a[k], o[k], e[k])}
  <2>7. 0 \in H
    <3>1. a[0] = <<>> /\ o[0] = <<>> /\ e[0] = <<>>
      BY <2>4, <2>5, <2>6 DEF Gathers
    <3>2. Joined(<<>>, <<>>, <<>>)
      BY DEF Joined
    <3> QED BY <2>0, <3>1, <3>2
  <2>8. ASSUME NEW k \in Nat, k < N, k \in H PROVE k + 1 \in H
    <3>1. k + 1 \in 1 .. N /\ k + 1 - 1 = k /\ k + 1 \in 0 .. N /\ k \in 0 .. N
      BY <2>0, <2>8
    <3> DEFINE token == x[k + 1] ta == k + 1 \in all[x] to == k + 1 \in odd[x] te == k + 1 \in even[x]
    <3>2. /\ a[k + 1] = More(a[k], token, ta, A) /\ o[k + 1] = More(o[k], token, to, O)
          /\ e[k + 1] = More(e[k], token, te, E)
      BY <2>4, <2>5, <2>6, <3>1 DEF Gathers
    <3>3. /\ token.kind # "group" => token \in Atoms
          /\ token.kind = "group" => d > 0 /\ token.inner \in Levels[d - 1]
      BY <3>1, StreamsAre
    <3>4. (ta <=> to \/ te) /\ ~(to /\ te)
      BY <2>0, <3>1 DEF Split
    <3>5. ta \in BOOLEAN /\ to \in BOOLEAN /\ te \in BOOLEAN
      OBVIOUS
    <3> HIDE DEF token, ta, to, te
    <3>6. token.kind = "group" =>
            /\ A[token.inner] \in Seq(Atoms) /\ O[token.inner] \in Seq(Atoms)
            /\ E[token.inner] \in Seq(Atoms)
            /\ Joined(A[token.inner], O[token.inner], E[token.inner])
      BY <2>1, <2>2, <3>3 DEF Typed
    <3>7. a[k] \in Seq(Atoms) /\ o[k] \in Seq(Atoms) /\ e[k] \in Seq(Atoms) /\ Joined(a[k], o[k], e[k])
      BY <2>8, <3>1
    <3>8. Joined(More(a[k], token, ta, A), More(o[k], token, to, O), More(e[k], token, te, E))
      BY <3>3, <3>4, <3>5, <3>6, <3>7, JoinedMore
    <3> QED BY <3>1, <3>2, <3>8
  <2>9. 0 .. N \subseteq H
    <3> HIDE DEF H
    <3> QED BY <2>0, <2>7, <2>8, Upwards
  <2>10. N \in 0 .. N
    BY <2>0
  <2>11. Joined(a[N], o[N], e[N])
    <3> HIDE DEF N
    <3> QED BY <2>9, <2>10
  <2>12. A[x] = a[N] /\ O[x] = o[N] /\ E[x] = e[N]
    BY <2>0, <2>4, <2>5, <2>6 DEF GatherAll
  <2> QED BY <2>0, <2>11, <2>12
<1>3. TokenStreams \subseteq G
  <2> HIDE DEF G
  <2>1. 0 \in 0 .. Nesting /\ \A d \in 1 .. Nesting : d \in 0 .. Nesting
    BY <1>0
  <2>2. \A x \in Levels[0] : x \in G
    BY <1>2, <2>1
  <2>3. ASSUME NEW d \in 1 .. Nesting, \A x \in Levels[d - 1] : x \in G, NEW x \in Levels[d] PROVE x \in G
    BY <1>2, <2>1, <2>3
  <2> QED BY <2>2, <2>3, ByDepth
<1> QED BY <1>3

\* 065: how many "$" stand before a place.
LEMMA DollarsAre ==
    ASSUME NEW s, NEW k \in Nat \ {0}
    PROVE  /\ Macro!DollarsBefore(s, k) \in Nat
           /\ Macro!DollarsBefore(s, k) # 0 <=> k > 1 /\ s[k - 1] = Macro!Dollar
<1> DEFINE Row(m) == /\ \A j \in k - m .. k - 1 : s[j] = Macro!Dollar
                     /\ m < k - 1 => s[k - m - 1] # Macro!Dollar
           N == k - 1 T == {j \in 1 .. N : s[j] # Macro!Dollar}
<1>0. N \in Nat
  OBVIOUS
<1>1. \E m \in 0 .. k - 1 : Row(m)
  <2>1. CASE T = {}
    <3>1. \A j \in 1 .. N : s[j] = Macro!Dollar
      BY <2>1
    <3>2. N \in 0 .. k - 1 /\ k - N = 1 /\ ~(N < k - 1) /\ k - 1 = N
      OBVIOUS
    <3>3. Row(N)
      <4> HIDE DEF N
      <4> QED BY <3>1, <3>2
    <3> HIDE DEF Row, N
    <3> QED BY <3>2, <3>3
  <2>2. CASE T # {}
    <3>1. PICK l \in T : \A j \in T : j <= l
      <4>1. T \in SUBSET (1 .. N)
        OBVIOUS
      <4> HIDE DEF T, N
      <4> QED BY <1>0, <2>2, <4>1, LastOf
    <3> DEFINE m == N - l
    <3>2. m \in 0 .. k - 1 /\ k - m = l + 1 /\ k - m - 1 = l
      OBVIOUS
    <3>3. \A j \in l + 1 .. k - 1 : s[j] = Macro!Dollar
      <4> SUFFICES ASSUME NEW j \in l + 1 .. k - 1 PROVE j \notin T /\ j \in 1 .. N
        OBVIOUS
      <4> QED BY <3>1
    <3>4. s[l] # Macro!Dollar
      BY <3>1
    <3>5. Row(m)
      <4> HIDE DEF m
      <4> QED BY <3>2, <3>3, <3>4
    <3> HIDE DEF Row, m
    <3> QED BY <3>2, <3>5
  <2> QED BY <2>1, <2>2
<1> DEFINE b == CHOOSE m \in 0 .. k - 1 : Row(m)
<1>2. Macro!DollarsBefore(s, k) = b
  BY DEF Macro!DollarsBefore
<1>3. b \in 0 .. k - 1 /\ Row(b)
  <2> HIDE DEF Row
  <2> QED BY <1>1
<1> HIDE DEF b
<1>4. CASE b = 0
  <2>1. k - 0 - 1 = k - 1 /\ (k > 1 => 0 < k - 1)
    OBVIOUS
  <2>2. k > 1 => s[k - 1] # Macro!Dollar
    BY <1>3, <1>4, <2>1
  <2> QED BY <1>2, <1>3, <1>4, <2>2
<1>5. CASE b # 0
  <2>1. k - 1 \in k - b .. k - 1 /\ k > 1
    BY <1>3, <1>5
  <2>2. s[k - 1] = Macro!Dollar
    BY <1>3, <2>1
  <2> QED BY <1>2, <1>3, <1>5, <2>1, <2>2
<1> QED BY <1>4, <1>5

IsHelper(f) == f = [stream \in TokenStreams |-> Macro!Gathered(stream, Macro!Peeked(stream), f)]
IsBehind(f, runs) == f = [s \in TokenStreams |-> Macro!Gathered(s, Macro!BehindRuns(runs, s), f)]

LEMMA HelperIs == Macro!Helper = CHOOSE f : IsHelper(f)
BY DEF Macro!Helper, IsHelper

LEMMA BehindIs ==
    ASSUME NEW runs, NEW stream
    PROVE  Macro!Behind(runs, stream) = (CHOOSE f : IsBehind(f, runs))[stream]
BY DEF Macro!Behind, IsBehind

\* 065: any stream.
LEMMA AnyRuns ==
    ASSUME NEW stream \in TokenStreams PROVE Macro!AnyRunCollects(stream)
<1> DEFINE even == {m \in Nat \ {0} : m % 2 = 0} odd == {m \in Nat : m % 2 = 1} both == odd \cup even
           At(runs) == [s \in TokenStreams |-> Macro!BehindRuns(runs, s)]
           Of(runs) == CHOOSE f : IsBehind(f, runs)
<1>1. \A m \in Nat : (m \in both <=> m # 0) /\ ~(m \in odd /\ m \in even)
  OBVIOUS
<1> HIDE DEF even, odd
<1>2. \A s \in TokenStreams : Len(s) \in Nat /\ DOMAIN s = 1 .. Len(s)
  BY StreamsAre DEF TokenStreams
<1>3. \A f, runs : IsBehind(f, runs) <=> GatherAll(f, At(runs))
  BY DEF IsBehind, GatherAll
<1>4. \A runs : GatherAll(Of(runs), At(runs)) /\ Macro!Behind(runs, stream) = Of(runs)[stream]
  <2> SUFFICES ASSUME NEW runs
      PROVE GatherAll(Of(runs), At(runs)) /\ Macro!Behind(runs, stream) = Of(runs)[stream]
    OBVIOUS
  <2>1. \E f : IsBehind(f, runs)
    <3> HIDE DEF At
    <3> QED BY <1>3, GatherAllExists
  <2>2. IsBehind(Of(runs), runs)
    BY <2>1
  <2> HIDE DEF At, Of
  <2>3. GatherAll(Of(runs), At(runs))
    BY <1>3, <2>2
  <2>4. Macro!Behind(runs, stream) = Of(runs)[stream]
    BY BehindIs DEF Of
  <2> QED BY <2>3, <2>4
<1>5. \A s \in TokenStreams : Macro!Peeked(s) = Macro!BehindRuns(both, s)
  <2> SUFFICES ASSUME NEW s \in TokenStreams PROVE Macro!Peeked(s) = Macro!BehindRuns(both, s)
    OBVIOUS
  <2>1. ASSUME NEW k \in 1 .. Len(s)
        PROVE  Macro!DollarsBefore(s, k) \in both <=> k > 1 /\ s[k - 1] = Macro!Dollar
    <3>1. k \in Nat \ {0}
      BY <1>2
    <3> HIDE DEF both
    <3> QED BY <1>1, <3>1, DollarsAre
  <2>2. \A k : k \in 2 .. Len(s) <=> k \in 1 .. Len(s) /\ k > 1
    BY <1>2
  <2> HIDE DEF both
  <2> QED BY <1>2, <2>1, <2>2 DEF Macro!Peeked, Macro!BehindRuns
<1>6. GatherAll(Macro!Helper, At(both))
  <2>1. \A f : IsHelper(f) <=> GatherAll(f, At(both))
    <3> HIDE DEF both
    <3> QED BY <1>5 DEF IsHelper, GatherAll
  <2>2. \E f : IsHelper(f)
    <3> HIDE DEF At, both
    <3> QED BY <2>1, GatherAllExists
  <2>3. IsHelper(Macro!Helper)
    BY <2>2, HelperIs
  <2> HIDE DEF At, both
  <2> QED BY <2>1, <2>3
<1>7. Macro!CollectMetaVars(stream) = Macro!Behind(both, stream)
  <2> HIDE DEF At, Of, both
  <2>1. Macro!Helper[stream] = Of(both)[stream]
    BY <1>4, <1>6, GatherAllUnique
  <2> QED BY <1>4, <2>1 DEF Macro!CollectMetaVars
<1>8. \A s \in TokenStreams : Split(s, At(both)[s], At(odd)[s], At(even)[s])
  <2> SUFFICES ASSUME NEW s \in TokenStreams, NEW k \in 1 .. Len(s)
      PROVE  /\ k \in At(both)[s] <=> k \in At(odd)[s] \/ k \in At(even)[s]
             /\ ~(k \in At(odd)[s] /\ k \in At(even)[s])
    BY DEF Split
  <2> DEFINE b == Macro!DollarsBefore(s, k)
  <2>1. b \in Nat
    BY <1>2, DollarsAre
  <2>2. \A runs : k \in At(runs)[s] <=> b \in runs
    BY <1>2 DEF Macro!BehindRuns
  <2> HIDE DEF b, At
  <2>3. k \in At(both)[s] <=> b \in both
    BY <2>2
  <2>4. (k \in At(odd)[s] <=> b \in odd) /\ (k \in At(even)[s] <=> b \in even)
    BY <2>2
  <2> QED BY <1>1, <2>1, <2>3, <2>4
<1>9. Joined(Of(both)[stream], Of(odd)[stream], Of(even)[stream])
  <2> HIDE DEF At, Of, both
  <2>1. GatherAll(Of(both), At(both)) /\ GatherAll(Of(odd), At(odd)) /\ GatherAll(Of(even), At(even))
    BY <1>4
  <2> QED BY <1>8, <2>1, GatherAllJoined
<1>10. Of(odd)[stream] \in Seq(Atoms) /\ Of(even)[stream] \in Seq(Atoms)
  <2> HIDE DEF At, Of
  <2>1. GatherAll(Of(odd), At(odd)) /\ GatherAll(Of(even), At(even))
    BY <1>4
  <2> QED BY <2>1, GatherAllTyped
<1>11. Macro!CollectMetaVars(stream) # Macro!Behind(odd, stream) <=> Macro!Behind(even, stream) # <<>>
  <2> DEFINE x == Of(both)[stream] y == Of(odd)[stream] z == Of(even)[stream]
  <2>1. Joined(x, y, z) /\ y \in Seq(Atoms) /\ z \in Seq(Atoms)
    BY <1>9, <1>10
  <2>2. Macro!CollectMetaVars(stream) = x /\ Macro!Behind(odd, stream) = y /\ Macro!Behind(even, stream) = z
    BY <1>4, <1>7
  <2> HIDE DEF x, y, z, Atoms
  <2>3. z # <<>> => x # y
    <3>1. Len(y) \in Nat /\ Len(z) \in Nat /\ (z # <<>> => Len(z) # 0)
      BY <2>1
    <3>2. Len(x) = Len(y) + Len(z)
      BY <2>1 DEF Joined
    <3> QED BY <3>1, <3>2
  <2> QED BY <2>1, <2>2, <2>3 DEF Joined
<1> QED BY <1>7, <1>11 DEF Macro!AnyRunCollects, even, odd

\* The loops and traversals do what is said of them for any headers, keys, entries,
\* device path nodes, nested streams and registers, and each progress line of lol-html
\* counts what was written.
THEOREM LoopsHold == Spec => []LoopsExact
<1>1. ASSUME InputInv, RssInv PROVE LoopsExact
  <2>0. (program \in Pure => input \in Given(program)) /\ Rss!CountsHonest
    BY <1>1, RssHonest DEF InputInv, Running, Pure
  <2> USE DEF LoopsExact
  <2>1. CASE program = "path"
    <3>1. input \in [0 .. Size -> {Path!End} \cup Nat]
      BY <2>0, <2>1 DEF Pure, Given
    <3> QED BY <2>0, <2>1, <3>1, PatchedEnds, BuggyStays
  <2>2. CASE program = "tree"
    <3>1. input \in Seq(FileEntries)
      BY <2>0, <2>2 DEF Pure, Given, FileEntries
    <3> QED BY <2>0, <2>2, <3>1, TreeLeft, DotsAreLeft
  <2>3. CASE program = "body"
    <3>1. input \in Seq(Headers) \X Nat
      BY <2>0, <2>3 DEF Pure, Given, Headers
    <3>2. input[1] \in Seq(Headers) /\ input[2] \in Nat
      BY <3>1
    <3> QED BY <2>0, <2>3, <3>2, LastLengthWins
  <2>4. CASE program = "macro"
    <3>1. input \in TokenStreams
      BY <2>0, <2>4 DEF Pure, Given
    <3> QED BY <2>0, <2>4, <3>1, AnyRuns
  <2>5. CASE program = "order"
    <3>1. input \in Seq(STRING)
      BY <2>0, <2>5 DEF Pure, Given
    <3> QED BY <2>0, <2>5, <3>1, FirstSome
  <2>6. CASE program = "simd"
    <3>1. input \in [fp : 0 .. 15, asimd : 0 .. 15, aes : 0 .. 15, sha1 : 0 .. 15,
                     sha2 : 0 .. 15, rdm : 0 .. 15, dotprod : 0 .. 15, sve : 0 .. 15]
      BY <2>0, <2>6 DEF Pure, Given
    <3> QED BY <2>0, <2>6, <3>1, Gated
  <2> QED BY <2>0, <2>1, <2>2, <2>3, <2>4, <2>5, <2>6
<1> QED BY <1>1, InputsKept, RssKept, PTL DEF Spec
=============================================================================
