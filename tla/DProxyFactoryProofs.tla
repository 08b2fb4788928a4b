------------------------ MODULE DProxyFactoryProofs ------------------------
(***************************************************************************)
(* Proofs about DProxyFactory for any callers, shards and bound: acquire() *)
(* keeps its reservations and never leaves two runners of a shard alive.   *)
(***************************************************************************)
EXTENDS DProxyFactory, TLAPS

\* A number no start-up has used yet names nothing.
Fresh ==
    /\ \A n \in Starts : n > started => task[n] = "none"
    /\ \A s \in Shards : instance[s] <= started /\ starting[s] <= started
    /\ \A c \in Callers : notify[c] <= started /\ result[c] <= started

\* A shard's entries are its own start-ups, and never both at once.
OwnEntries ==
    \A s \in Shards :
        /\ instance[s] # None => home[instance[s]] = s
        /\ starting[s] # None => home[starting[s]] = s /\ instance[s] = None

\* A runner that is alive is cached or about to be.
Tracked ==
    \A n \in Starts :
        task[n] = "running" =>
            /\ home[n] \in Shards
            /\ instance[home[n]] = n \/ starting[home[n]] = n

\* A starter asks for a shard and has a Notify of its own.
Starters ==
    \A c \in Callers :
        pc[c] \in Starting =>
            /\ shard[c] \in Shards
            /\ notify[c] # None
            /\ pc[c] = Failed => task[notify[c]] = "none"
            /\ \A d \in Callers : pc[d] \in Starting /\ notify[d] = notify[c] => d = c

\* What acquire has returned is published: no start-up of that number is left.
Published ==
    \A c \in Callers :
        result[c] # None =>
            /\ home[result[c]] \in Shards
            /\ starting[home[result[c]]] # result[c]

\* A caller in the loop asks for a shard.
Asking == \A c \in Callers : pc[c] # Idle => shard[c] \in Shards

IInv ==
    /\ TypeOK /\ Fresh /\ OwnEntries /\ Tracked
    /\ Starters /\ ReservationKept /\ Published /\ Asking

-----------------------------------------------------------------------------
\* The initial state has no start-up at all.
LEMMA InitInv == Init => IInv
BY FactoryAssumption DEF Init, IInv, TypeOK, Fresh, OwnEntries, Tracked, Starters,
    ReservationKept, Published, Asking, Starts, None, Starting, Idle, Lock, Joined,
    Waiting, Spinning, SpunUp, Failed

\* Every step keeps the invariant.  Only the reservation, the publication and
\* the end of a runner's task change what the cache and the reservations say.
LEMMA StepInv == IInv /\ [Next]_vars => IInv'
<1> SUFFICES ASSUME IInv, [Next]_vars PROVE IInv'
  OBVIOUS
<1> USE FactoryAssumption DEF IInv, None, Starting, Idle, Lock, Joined, Waiting,
      Spinning, SpunUp, Failed
<1>1. ASSUME NEW c \in Callers, NEW s \in Shards, Acquire(c, s) PROVE IInv'
  BY <1>1 DEF Acquire, TypeOK, Fresh, OwnEntries, Tracked, Starters,
       ReservationKept, Published, Asking, Starts
<1>2. ASSUME NEW c \in Callers, Hit(c) PROVE IInv'
  BY <1>2 DEF Hit, TypeOK, Fresh, OwnEntries, Tracked, Starters,
       ReservationKept, Published, Asking, Starts
<1>3. ASSUME NEW c \in Callers, Join(c) PROVE IInv'
  BY <1>3 DEF Join, TypeOK, Fresh, OwnEntries, Tracked, Starters,
       ReservationKept, Published, Asking, Starts
<1>4. ASSUME NEW c \in Callers, Spawn(c) PROVE IInv'
  BY <1>4 DEF Spawn, TypeOK, Fresh, OwnEntries, Tracked, Starters,
       ReservationKept, Published, Asking, Starts
<1>5. ASSUME NEW c \in Callers, SpinUpOk(c) PROVE IInv'
  BY <1>5 DEF SpinUpOk, TypeOK, Fresh, OwnEntries, Tracked, Starters,
       ReservationKept, Published, Asking, Starts
<1>6. ASSUME NEW c \in Callers, SpinUpErr(c) PROVE IInv'
  BY <1>6 DEF SpinUpErr, TypeOK, Fresh, OwnEntries, Tracked, Starters,
       ReservationKept, Published, Asking, Starts
<1>7. ASSUME NEW c \in Callers, Subscribe(c) PROVE IInv'
  BY <1>7 DEF Subscribe, TypeOK, Fresh, OwnEntries, Tracked, Starters,
       ReservationKept, Published, Asking, Starts
<1>8. ASSUME NEW c \in Callers, Cancel(c) PROVE IInv'
  BY <1>8 DEF Cancel, TypeOK, Fresh, OwnEntries, Tracked, Starters,
       ReservationKept, Published, Asking, Starts
<1>9. ASSUME NEW c \in Callers, Reserve(c) PROVE IInv'
  <2>1. TypeOK' /\ started' \in Starts /\ started' = started + 1
    BY <1>9 DEF Reserve, TypeOK, Asking, Starts
  <2>2. Fresh'
    <3>1. task' = task /\ instance' = instance /\ result' = result
      BY <1>9 DEF Reserve
    <3>2. \A s \in Shards : starting'[s] \in {starting[s], started'}
      BY <1>9 DEF Reserve, TypeOK
    <3>3. \A d \in Callers : notify'[d] \in {notify[d], started'}
      BY <1>9 DEF Reserve, TypeOK
    <3>0. started \in Nat /\ \A d \in Callers : notify[d] \in Nat /\ result[d] \in Nat
      BY DEF TypeOK, Starts
    <3>4. \A d \in Callers : notify'[d] <= started' /\ result'[d] <= started'
      BY <2>1, <3>0, <3>1, <3>3 DEF Fresh
    <3>5. \A s \in Shards : instance'[s] <= started' /\ starting'[s] <= started'
      BY <2>1, <3>1, <3>2 DEF Fresh, TypeOK, Starts, None
    <3>6. \A n \in Starts : n > started' => task'[n] = "none"
      BY <2>1, <3>1 DEF Fresh, TypeOK, Starts
    <3> QED BY <3>4, <3>5, <3>6 DEF Fresh
  <2>3. OwnEntries'
    BY <1>9, <2>1 DEF Reserve, TypeOK, Fresh, OwnEntries, Asking, Starts
  <2>6. Tracked'
    BY <1>9, <2>1 DEF Reserve, TypeOK, Fresh, Tracked, Asking, Starts
  <2>4. Starters' /\ ReservationKept'
    BY <1>9, <2>1 DEF Reserve, TypeOK, Fresh, Starters, ReservationKept, Asking, Starts
  <2>5. Published' /\ Asking'
    BY <1>9, <2>1 DEF Reserve, TypeOK, Fresh, Published, Asking, Starts
  <2> QED BY <2>1, <2>2, <2>3, <2>4, <2>5, <2>6
<1>10. ASSUME NEW c \in Callers, Publish(c) PROVE IInv'
  <2>1. \A d \in Callers : pc'[d] = IF d = c THEN Idle
                                    ELSE IF d \in Notified(starting[shard[c]]) THEN Lock
                                    ELSE pc[d]
    BY <1>10 DEF Publish
  <2>2. \A d \in Callers : pc'[d] \in Starting => pc[d] \in Starting /\ d # c /\ pc'[d] = pc[d]
    BY <2>1
  <2>3. TypeOK'
    BY <1>10 DEF Publish, TypeOK, Asking, Starts
  <2>8. /\ shard[c] \in Shards /\ notify[c] \in Starts
        /\ starting[shard[c]] = notify[c] /\ home[notify[c]] = shard[c]
        /\ instance[shard[c]] = None
    BY <1>10 DEF Publish, TypeOK, OwnEntries, Starters, ReservationKept, Starts
  <2>9. Fresh'
    BY <1>10, <2>8 DEF Publish, TypeOK, Fresh, Starts
  <2>10. OwnEntries'
    BY <1>10, <2>8 DEF Publish, TypeOK, OwnEntries
  <2>11. Tracked'
    <3> SUFFICES ASSUME NEW m \in Starts, task[m] = "running"
                 PROVE  /\ home[m] \in Shards
                        /\ instance'[home[m]] = m \/ starting'[home[m]] = m
      BY <1>10 DEF Publish, Tracked
    <3>1. home[m] \in Shards /\ (instance[home[m]] = m \/ starting[home[m]] = m)
      BY DEF Tracked
    <3>2. CASE home[m] # shard[c]
      BY <1>10, <3>1, <3>2 DEF Publish, TypeOK
    <3>3. CASE home[m] = shard[c]
      <4>1. m = notify[c]
        BY <2>8, <3>1, <3>3 DEF Starts
      <4>2. pc[c] = SpunUp
        BY <1>10, <4>1 DEF Publish, Starters
      <4> QED BY <1>10, <2>8, <3>3, <4>1, <4>2 DEF Publish, TypeOK
    <3> QED BY <3>2, <3>3
  <2>5. Starters' /\ ReservationKept'
    BY <1>10, <2>2 DEF Publish, TypeOK, Starters, ReservationKept, Starts
  <2>6. Published'
    BY <1>10 DEF Publish, TypeOK, OwnEntries, Starters, ReservationKept, Published, Starts
  <2>7. Asking'
    BY <1>10, <2>1 DEF Publish, Asking, Notified
  <2> QED BY <2>3, <2>5, <2>6, <2>7, <2>9, <2>10, <2>11
<1>11. ASSUME NEW n \in Starts, TaskExit(n) PROVE IInv'
  <2>1. home[n] \in Shards /\ instance[home[n]] \in {n, None}
    BY <1>11 DEF TaskExit, OwnEntries, Tracked, Starts
  <2>2. TypeOK' /\ Fresh' /\ OwnEntries'
    BY <1>11, <2>1 DEF TaskExit, TypeOK, Fresh, OwnEntries, Starts
  <2>3. Tracked'
    <3> SUFFICES ASSUME NEW m \in Starts, task'[m] = "running"
                 PROVE  /\ home[m] \in Shards
                        /\ instance'[home[m]] = m \/ starting[home[m]] = m
      BY <1>11 DEF TaskExit, Tracked
    <3>1. m # n /\ task[m] = "running"
      BY <1>11 DEF TaskExit, TypeOK
    <3>2. home[m] \in Shards /\ (instance[home[m]] = m \/ starting[home[m]] = m)
      BY <3>1 DEF Tracked
    <3>3. instance[home[m]] = m => instance'[home[m]] = m
      BY <1>11, <2>1, <3>1, <3>2 DEF TaskExit, TypeOK, Starts
    <3> QED BY <3>2, <3>3
  <2>4. Starters' /\ ReservationKept' /\ Published' /\ Asking'
    BY <1>11 DEF TaskExit, TypeOK, Starters, ReservationKept, Published, Asking, Starts
  <2> QED BY <2>2, <2>3, <2>4
<1>12. CASE UNCHANGED vars
  BY <1>12 DEF vars, TypeOK, Fresh, OwnEntries, Tracked, Starters,
       ReservationKept, Published, Asking, Starts, Notified
<1> QED
  BY <1>1, <1>2, <1>3, <1>4, <1>5, <1>6, <1>7, <1>8, <1>9, <1>10, <1>11, <1>12 DEF Next

\* The invariant holds of every behaviour.
LEMMA Invariance == Spec => []IInv
BY InitInv, StepInv, PTL DEF Spec

\* Overlapping calls, failed start-ups, exits and dropped futures included, a
\* shard never has two runners alive.
THEOREM OneRunner == Spec => []OneRunnerPerShard
<1>1. IInv => OneRunnerPerShard
  <2> SUFFICES ASSUME IInv, NEW s \in Shards, NEW m \in Running(s), NEW n \in Running(s)
               PROVE  m = n
    BY DEF OneRunnerPerShard
  <2>1. /\ m \in Starts /\ home[m] = s /\ task[m] = "running"
        /\ n \in Starts /\ home[n] = s /\ task[n] = "running"
    BY FactoryAssumption DEF IInv, TypeOK, Running, Starts
  <2>2. m # None /\ n # None
    BY <2>1 DEF Starts, None
  <2> QED BY <2>1, <2>2 DEF IInv, Tracked, OwnEntries
<1> QED BY <1>1, Invariance, PTL

\* The starter always finds its own reservation: the expect() cannot fail.
THEOREM ReservationIsKept == Spec => []ReservationKept
<1>1. IInv => ReservationKept
  BY DEF IInv
<1> QED BY <1>1, Invariance, PTL

\* A runner a caller was given is the cached one for as long as it lives.
THEOREM RunnerIsShared == Spec => []SharedRunner
<1>1. IInv => SharedRunner
  BY DEF IInv, SharedRunner, TypeOK, Tracked, Published, Starts, None
<1> QED BY <1>1, Invariance, PTL

\* The clean-up of a runner compares nothing and yet removes no other's entry.
THEOREM CleanupIsOwn == Spec => CleanupOwnEntry
<1>1. IInv /\ [Next]_vars =>
        [\A n \in Starts : task[n] = "running" /\ task'[n] = "exited"
                         => instance[home[n]] \in {n, None}]_vars
  BY DEF IInv, Tracked, OwnEntries, Starts, None
<1> QED BY <1>1, Invariance, PTL DEF Spec, CleanupOwnEntry

\* The cache, the reservations and the callers keep their types (lines 14 to 18).
THEOREM TypeHolds == Spec => []TypeOK
<1>1. IInv => TypeOK
  BY DEF IInv
<1> QED BY <1>1, Invariance, PTL
=============================================================================
