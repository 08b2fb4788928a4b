---------------------------- MODULE KvStoreProofs ----------------------------
(***************************************************************************)
(* For any writers, keys and bounds, the locked insert implements the      *)
(* atomic one, and what an insertion replaces is what it was checked       *)
(* against.                                                                *)
(***************************************************************************)
EXTENDS KvStore, TLAPS

\* An object, or none, whose expiry can be held against the clock.
Dated(e) == e = Absent \/ e.expiration \in Atomic!Expiries \cup {Absent}

ShapeInv ==
    /\ now \in 0..MaxTime
    /\ pc \in [Writers -> {Idle, Locking, Examining, Inserting, Unlocking, Returning}]
    /\ store = [k \in Keys |-> store[k]]
    /\ request = [c \in Writers |-> request[c]]
    /\ existing = [c \in Writers |-> existing[c]]
    /\ obj_val = [c \in Writers |-> obj_val[c]]
    /\ \A c \in Writers : pc[c] # Idle => request[c] \in Atomic!Requests

\* Whoever is in the critical section holds the lock, so it is one writer.
LockInv == \A c \in Writers : pc[c] \in {Examining, Inserting, Unlocking} <=> stores = c

DatedInv ==
    /\ \A k \in Keys : Dated(store[k])
    /\ \A c \in Writers : pc[c] = Inserting => Dated(obj_val[c])

\* The object that was read is still there when its successor is inserted.
FreshInv == \A c \in Writers : pc[c] = Inserting => store[request[c].key] = existing[c]

IInv == ShapeInv /\ LockInv /\ DatedInv /\ FreshInv

-----------------------------------------------------------------------------
\* Nothing is stored, nobody inserts.
LEMMA InitInv == Init => IInv
<1> SUFFICES ASSUME Init PROVE IInv
  OBVIOUS
<1> USE KvAssumption DEF Init, Idle, Locking, Examining, Inserting, Unlocking, Returning
<1>1. ShapeInv
  BY DEF ShapeInv
<1>2. LockInv /\ DatedInv /\ FreshInv
  BY DEF LockInv, DatedInv, FreshInv, Dated
<1> QED BY <1>1, <1>2 DEF IInv

\* Whatever its age, what is read of a dated object is dated.
LEMMA ReadDated == ASSUME NEW e, NEW t, Dated(e) PROVE Dated(Seen(e, t))
BY DEF Dated, Seen

\* Every step of insert and lookup, and every tick, keeps the invariant.
LEMMA StepInv == IInv /\ [Next]_vars => IInv'
<1> SUFFICES ASSUME IInv, [Next]_vars PROVE IInv'
  OBVIOUS
<1> USE KvAssumption DEF IInv, Idle, Locking, Examining, Inserting, Unlocking, Returning
<1>1. ASSUME NEW c \in Writers, NEW k \in Keys, NEW mode \in Atomic!Modes,
             NEW g \in Atomic!Generations \cup {Absent}, NEW ttl \in {Absent, 1},
             Call(c, k, mode, g, ttl)
      PROVE  IInv'
  <2>1. request'[c] \in Atomic!Requests
    BY <1>1 DEF Call, ShapeInv, Atomic!Requests, Atomic!Expiries
  <2>2. ShapeInv'
    BY <1>1, <2>1 DEF Call, ShapeInv
  <2>3. LockInv' /\ DatedInv' /\ FreshInv'
    BY <1>1 DEF Call, ShapeInv, LockInv, DatedInv, FreshInv, Dated
  <2> QED BY <2>2, <2>3
<1>2. ASSUME NEW c \in Writers, Lock(c) PROVE IInv'
  BY <1>2 DEF Lock, ShapeInv, LockInv, DatedInv, FreshInv, Dated
<1>3. ASSUME NEW c \in Writers, Examine(c) PROVE IInv'
  <2> DEFINE r == request[c]
             e == Read(r.key)
  <2>1. r \in Atomic!Requests /\ r.key \in Keys
    BY <1>3 DEF Examine, ShapeInv, Atomic!Requests
  <2>2. Dated(e)
    BY <2>1, ReadDated DEF DatedInv, Read
  <2>3. store' = [store EXCEPT ![r.key] = e] /\ existing' = [existing EXCEPT ![c] = e]
    BY <1>3 DEF Examine
  <2>4. pc[c] = Examining /\ \A d \in Writers \ {c} : pc[d] # Inserting
    BY <1>3 DEF Examine, LockInv
  <2>5. \/ /\ pc' = [pc EXCEPT ![c] = Unlocking] /\ obj_val' = obj_val
        \/ /\ pc' = [pc EXCEPT ![c] = Inserting]
           /\ \E b, g : obj_val' =
                [obj_val EXCEPT ![c] = [body |-> b, generation |-> g, expiration |-> r.expiration]]
    BY <1>3 DEF Examine
  <2>6. /\ UNCHANGED <<now, calls, stores, request>>
    BY <1>3 DEF Examine
  <2>7. ShapeInv'
    BY <2>3, <2>4, <2>5, <2>6 DEF ShapeInv
  <2>8. LockInv'
    BY <2>4, <2>5, <2>6 DEF LockInv, ShapeInv
  <2>9. DatedInv'
    <3>1. \A k \in Keys : Dated(store'[k])
      BY <2>1, <2>2, <2>3 DEF DatedInv, ShapeInv
    <3>2. pc'[c] = Inserting => Dated(obj_val'[c])
      BY <2>1, <2>5 DEF ShapeInv, Dated, Atomic!Requests
    <3>3. \A d \in Writers \ {c} : pc'[d] # Inserting
      BY <2>4, <2>5 DEF ShapeInv
    <3> QED BY <3>1, <3>2, <3>3 DEF DatedInv, Dated
  <2>10. FreshInv'
    BY <2>1, <2>3, <2>4, <2>5, <2>6 DEF FreshInv, ShapeInv
  <2> QED BY <2>7, <2>8, <2>9, <2>10
<1>4. ASSUME NEW c \in Writers, Insert(c) PROVE IInv'
  <2>1. Dated(obj_val[c]) /\ \A d \in Writers \ {c} : pc[d] # Inserting
    BY <1>4 DEF Insert, LockInv, DatedInv
  <2>2. ShapeInv' /\ LockInv' /\ FreshInv'
    BY <1>4, <2>1 DEF Insert, ShapeInv, LockInv, FreshInv
  <2>3. DatedInv'
    BY <1>4, <2>1 DEF Insert, ShapeInv, DatedInv, Dated
  <2> QED BY <2>2, <2>3
<1>5. ASSUME NEW c \in Writers, Unlock(c) PROVE IInv'
  BY <1>5 DEF Unlock, ShapeInv, LockInv, DatedInv, FreshInv, Dated
<1>6. ASSUME NEW c \in Writers, Return(c) PROVE IInv'
  BY <1>6 DEF Return, ShapeInv, LockInv, DatedInv, FreshInv, Dated
<1>7. ASSUME NEW c \in Writers, NEW k \in Keys, Lookup(c, k) PROVE IInv'
  <2>1. Dated(Read(k)) /\ \A d \in Writers : pc[d] # Inserting
    BY <1>7, ReadDated DEF Lookup, LockInv, DatedInv, Read
  <2>2. ShapeInv' /\ LockInv' /\ FreshInv'
    BY <1>7, <2>1 DEF Lookup, ShapeInv, LockInv, FreshInv
  <2>3. DatedInv'
    BY <1>7, <2>1 DEF Lookup, ShapeInv, DatedInv, Dated
  <2> QED BY <2>2, <2>3
<1>8. CASE Tick
  BY <1>8 DEF Tick, ShapeInv, LockInv, DatedInv, FreshInv, Dated
<1>9. CASE UNCHANGED vars
  BY <1>9 DEF vars, ShapeInv, LockInv, DatedInv, FreshInv, Dated
<1> QED
  BY <1>1, <1>2, <1>3, <1>4, <1>5, <1>6, <1>7, <1>8, <1>9 DEF Next

\* The invariant holds throughout.
LEMMA Invariance == Spec => []IInv
BY InitInv, StepInv, PTL DEF Spec

\* Nothing is written under the key between the read that insert's checks and the
\* new body are based on and the insertion (write lock of insert, viceroy/012).
THEOREM NotStale == Spec => InsertNotStale
<1>1. IInv => \A c \in Writers : pc[c] = Inserting => store[request[c].key] = existing[c]
  BY DEF IInv, FreshInv
<1>2. IInv /\ [Next]_vars =>
        [\A c \in Writers : pc[c] = Inserting /\ pc'[c] # Inserting
                            => store[request[c].key] = existing[c]]_vars
  BY <1>1
<1> QED BY <1>2, Invariance, PTL DEF Spec, InsertNotStale

-----------------------------------------------------------------------------
\* What the refinement mapping shows of a key: the object that is being inserted
\* under it, if there is one, else the one that is stored.
Held(k) ==
    IF Inserters(k) # {} THEN obj_val[CHOOSE c \in Inserters(k) : TRUE] ELSE store[k]

\* Outside the insertion the store itself is shown; the object of the one who is
\* in it is shown under its key.
LEMMA HeldWithoutInserter ==
    ASSUME NEW k, \A c \in Writers : pc[c] # Inserting
    PROVE  Held(k) = store[k]
BY DEF Held, Inserters

LEMMA HeldByInserter ==
    ASSUME NEW k, NEW c \in Writers, pc[c] = Inserting,
           \A d \in Writers \ {c} : pc[d] # Inserting
    PROVE  Held(k) = IF request[c].key = k THEN obj_val[c] ELSE store[k]
<1>1. Inserters(k) = IF request[c].key = k THEN {c} ELSE {}
  BY DEF Inserters
<1>2. (CHOOSE d \in {c} : TRUE) = c
  OBVIOUS
<1> QED BY <1>1, <1>2 DEF Held

\* To look at an object twice is to look at it the second time.
LEMMA SeenTwice ==
    ASSUME NEW e, Dated(e), NEW t \in Nat, NEW u \in Nat, t <= u
    PROVE  Seen(Seen(e, t), u) = Seen(e, u)
<1>1. Absent \notin Nat
  BY KvAssumption
<1>2. MaxTime \in Nat
  BY KvAssumption
<1>3. CASE e = Absent
  BY <1>3 DEF Seen, Expired
<1>4. CASE e # Absent /\ e.expiration = Absent
  BY <1>4 DEF Seen, Expired
<1>5. CASE e # Absent /\ e.expiration # Absent
  <2>1. e.expiration \in Nat
    BY <1>2, <1>5 DEF Dated, Atomic!Expiries
  <2> QED BY <1>5, <2>1 DEF Seen, Expired
<1> QED BY <1>3, <1>4, <1>5

\* Both modules judge an insert, and make the new object, alike.
LEMMA SameInsert ==
    ASSUME NEW c, NEW r \in Atomic!Requests, NEW e
    PROVE  /\ Atomic!Refused(r, e) <=> PreconditionFails(r, e)
           /\ Atomic!NewBody(c, r, e) = OutObj(c, r.mode, e)
<1>1. r.mode \in {"overwrite", "add", "append", "prepend"}
  BY DEF Atomic!Requests, Atomic!Modes
<1>2. Atomic!Refused(r, e) <=> PreconditionFails(r, e)
  BY DEF Atomic!Refused, PreconditionFails
<1>3. Atomic!NewBody(c, r, e) = OutObj(c, r.mode, e)
  BY <1>1 DEF Atomic!NewBody, OutObj
<1> QED BY <1>2, <1>3

\* What a key holds changes only with its inserters, their objects or the store.
LEMMA SameHeld ==
    ASSUME NEW k, Inserters(k)' = Inserters(k), store'[k] = store[k],
           \A c \in Inserters(k) : obj_val'[c] = obj_val[c]
    PROVE  Held(k)' = Held(k)
<1>1. Inserters(k) # {} => (CHOOSE c \in Inserters(k) : TRUE) \in Inserters(k)
  OBVIOUS
<1> QED BY <1>1 DEF Held

\* The mapping of the store, with Held for the object of each key.
LEMMA Bar == entriesBar = [k \in Keys |-> Seen(Held(k), now)]
BY DEF entriesBar, Held

\* A step that changes neither what the keys hold nor the clock shows nothing.
LEMMA SameBar ==
    ASSUME now' = now, \A k \in Keys : Held(k)' = Held(k)
    PROVE  entriesBar' = entriesBar
<1>1. entriesBar' = [k \in Keys |-> Seen(Held(k)', now')]
  BY Bar DEF entriesBar, Held
<1>2. \A k \in Keys : Seen(Held(k)', now') = Seen(Held(k), now)
  OBVIOUS
<1> QED BY <1>1, <1>2, Bar

\* The call of an insert is that of the atomic one.
LEMMA CallStep ==
    ASSUME IInv, NEW c \in Writers, NEW k \in Keys, NEW mode \in Atomic!Modes,
           NEW g \in Atomic!Generations \cup {Absent}, NEW ttl \in {Absent, 1},
           Call(c, k, mode, g, ttl)
    PROVE  Atomic!Next
<1> DEFINE r == [key |-> k, mode |-> mode, generation |-> g,
                 expiration |-> IF ttl = Absent THEN Absent ELSE now + ttl]
<1> USE DEF IInv, ShapeInv, Idle, Locking, Examining, Inserting, Unlocking, Returning
<1>1. r \in Atomic!Requests
  BY KvAssumption DEF Atomic!Requests, Atomic!Expiries
<1>2. \A j \in Keys : Held(j)' = Held(j)
  <2>1. \A j \in Keys : Inserters(j)' = Inserters(j)
    BY DEF Call, Inserters
  <2> QED BY <2>1, SameHeld DEF Call
<1>3. entriesBar' = entriesBar
  BY <1>2, SameBar DEF Call
<1>4. phaseBar[c] = "idle" /\ phaseBar' = [phaseBar EXCEPT ![c] = "called"]
  BY DEF Call, phaseBar
<1>5. Atomic!Call(c, r)
  BY <1>3, <1>4 DEF Call, Atomic!Call
<1> QED BY <1>1, <1>5 DEF Atomic!Next

\* The insert takes effect when it has examined the existing object.
LEMMA ExamineStep ==
    ASSUME IInv, IInv', NEW c \in Writers, Examine(c)
    PROVE  Atomic!Next
<1> DEFINE r == request[c]
           e == Read(r.key)
           new == [body |-> OutObj(c, r.mode, e), generation |-> made + 1,
                   expiration |-> r.expiration]
<1> USE DEF Idle, Locking, Examining, Inserting, Unlocking, Returning
<1>1. r \in Atomic!Requests /\ r.key \in Keys
  BY DEF Examine, IInv, ShapeInv, Atomic!Requests
<1>2. pc[c] = Examining /\ \A d \in Writers : pc[d] # Inserting
  BY DEF Examine, IInv, LockInv
<1>3. \A k \in Keys : Held(k) = store[k]
  BY <1>2, HeldWithoutInserter
<1>4. entriesBar = [k \in Keys |-> Seen(store[k], now)]
  BY <1>3, Bar
<1>5. entriesBar[r.key] = e
  BY <1>1, <1>4 DEF Read
<1>6. now' = now /\ store' = [store EXCEPT ![r.key] = e] /\ now \in Nat
  BY KvAssumption DEF Examine, IInv, ShapeInv
<1>7. Seen(e, now) = e
  BY <1>1, <1>6, SeenTwice DEF IInv, DatedInv, Read
<1>8. \A k \in Keys : Seen(store'[k], now) = Seen(store[k], now)
  BY <1>1, <1>6, <1>7 DEF IInv, ShapeInv, Read
<1>9. phaseBar[c] = "called"
  BY <1>2 DEF phaseBar
<1>10. CASE PreconditionFails(r, e)
  <2>1. /\ result' = [result EXCEPT ![c] = Atomic!Answer("precondition_failed", Absent)]
        /\ pc' = [pc EXCEPT ![c] = Unlocking] /\ UNCHANGED made
    BY <1>10 DEF Examine
  <2>2. \A d \in Writers : pc'[d] # Inserting
    BY <1>2, <2>1 DEF IInv, ShapeInv
  <2>3. \A k \in Keys : Held(k)' = store'[k]
    BY <2>2 DEF Held, Inserters
  <2>4. entriesBar' = [k \in Keys |-> Seen(store'[k], now')]
    BY <2>3 DEF entriesBar, Held
  <2>5. entriesBar' = entriesBar
    BY <1>4, <1>6, <1>8, <2>4
  <2>6. phaseBar' = [phaseBar EXCEPT ![c] = "done"]
    BY <1>2, <2>1 DEF phaseBar, IInv, ShapeInv
  <2>7. Atomic!Refused(r, e)
    BY <1>1, <1>10, SameInsert
  <2>8. Atomic!Effect(c)
    BY <1>5, <1>9, <2>1, <2>5, <2>6, <2>7 DEF Atomic!Effect, Examine
  <2> QED BY <2>8 DEF Atomic!Next
<1>11. CASE ~PreconditionFails(r, e)
  <2>1. /\ result' = [result EXCEPT ![c] = Atomic!Answer("ok", Absent)]
        /\ pc' = [pc EXCEPT ![c] = Inserting] /\ made' = made + 1
        /\ obj_val' = [obj_val EXCEPT ![c] = new]
    BY <1>11 DEF Examine
  <2>2. pc'[c] = Inserting /\ \A d \in Writers \ {c} : pc'[d] # Inserting
    BY <1>2, <2>1 DEF IInv, ShapeInv
  <2>3. request' = request /\ obj_val'[c] = new
    BY <2>1 DEF Examine, IInv, ShapeInv
  <2>4. \A k \in Keys : Held(k)' = IF r.key = k THEN new ELSE store'[k]
    <3> SUFFICES ASSUME NEW k \in Keys
                 PROVE  Held(k)' = IF r.key = k THEN new ELSE store'[k]
      OBVIOUS
    <3>1. Inserters(k)' = IF r.key = k THEN {c} ELSE {}
      BY <2>2, <2>3 DEF Inserters
    <3>2. (CHOOSE d \in {c} : TRUE) = c
      OBVIOUS
    <3> QED BY <2>3, <3>1, <3>2 DEF Held
  <2>5. entriesBar' = [k \in Keys |-> Seen(Held(k)', now')]
    BY DEF entriesBar, Held
  <2>6. entriesBar' = [entriesBar EXCEPT ![r.key] = Seen(new, now)]
    BY <1>1, <1>4, <1>6, <1>8, <2>4, <2>5
  <2>7. phaseBar' = [phaseBar EXCEPT ![c] = "done"]
    BY <1>2, <2>1 DEF phaseBar, IInv, ShapeInv
  <2>8. ~Atomic!Refused(r, e) /\ new = Atomic!NewEntry(c, r, e, made')
    BY <1>1, <1>11, <2>1, SameInsert DEF Atomic!NewEntry
  <2>9. Atomic!Seen(new, now) = Seen(new, now)
    BY DEF Atomic!Seen, Seen, Atomic!Expired, Expired
  <2>10. Atomic!Effect(c)
    BY <1>5, <1>9, <2>1, <2>6, <2>7, <2>8, <2>9 DEF Atomic!Effect, Examine
  <2> QED BY <2>10 DEF Atomic!Next
<1> QED BY <1>10, <1>11

\* A lookup shows what the key holds: under the lock nobody is inserting.
LEMMA LookupStep ==
    ASSUME IInv, NEW c \in Writers, NEW k \in Keys, Lookup(c, k)
    PROVE  Atomic!Next
<1> USE DEF Idle, Locking, Examining, Inserting, Unlocking, Returning
<1>1. \A d \in Writers : pc[d] # Inserting
  BY KvAssumption DEF Lookup, IInv, LockInv
<1>2. entriesBar = [j \in Keys |-> Seen(store[j], now)]
  BY <1>1, HeldWithoutInserter, Bar
<1>3. now \in Nat /\ now' = now /\ pc' = pc
  BY KvAssumption DEF Lookup, IInv, ShapeInv
<1>4. \A j \in Keys : Held(j)' = store'[j]
  BY <1>1, <1>3 DEF Held, Inserters
<1>5. \A j \in Keys : Seen(store'[j], now) = Seen(store[j], now)
  BY <1>3, SeenTwice DEF Lookup, IInv, ShapeInv, DatedInv, Read
<1>6. entriesBar' = [j \in Keys |-> Seen(store'[j], now')]
  BY <1>4 DEF entriesBar, Held
<1>7. entriesBar' = entriesBar /\ entriesBar[k] = Read(k)
  BY <1>2, <1>3, <1>5, <1>6 DEF Read
<1>8. phaseBar' = phaseBar /\ phaseBar[c] = "idle"
  BY DEF Lookup, phaseBar
<1>9. Atomic!Lookup(c, k)
  BY <1>7, <1>8 DEF Lookup, Atomic!Lookup
<1> QED BY <1>9 DEF Atomic!Next

\* A tick may expire what the keys hold, in both.
LEMMA TickStep == ASSUME IInv, Tick PROVE Atomic!Next
<1> USE DEF Idle, Locking, Examining, Inserting, Unlocking, Returning
<1>1. now \in Nat /\ now' = now + 1
  BY KvAssumption DEF Tick, IInv, ShapeInv
<1>2. \A k \in Keys : Dated(Held(k))
  BY DEF IInv, DatedInv, Held, Inserters
<1>3. \A k \in Keys : Held(k)' = Held(k)
  BY DEF Tick, Held, Inserters
<1>4. entriesBar' = [k \in Keys |-> Seen(Held(k)', now')]
  BY DEF entriesBar, Held
<1>5. \A k \in Keys : Seen(Seen(Held(k), now), now + 1) = Seen(Held(k), now + 1)
  BY <1>1, <1>2, SeenTwice
<1>6. \A e : Atomic!Seen(e, now') = Seen(e, now')
  BY DEF Atomic!Seen, Seen, Atomic!Expired, Expired
<1>7. entriesBar' = [k \in Keys |-> Atomic!Seen(entriesBar[k], now')]
  BY <1>1, <1>3, <1>4, <1>5, <1>6, Bar
<1>8. phaseBar' = phaseBar
  BY DEF Tick, phaseBar
<1>9. Atomic!Tick
  BY <1>7, <1>8 DEF Tick, Atomic!Tick
<1> QED BY <1>9 DEF Atomic!Next

\* The other steps of an insert are not seen, but for its return.
LEMMA HiddenStep ==
    ASSUME IInv, IInv', NEW c \in Writers, Lock(c) \/ Insert(c) \/ Unlock(c)
    PROVE  UNCHANGED Atomic!vars
<1> USE DEF Idle, Locking, Examining, Inserting, Unlocking, Returning
<1>1. phaseBar' = phaseBar
  BY DEF Lock, Insert, Unlock, phaseBar, IInv, ShapeInv
<1>2. CASE Lock(c) \/ Unlock(c)
  <2>1. \A k \in Keys : Inserters(k)' = Inserters(k)
    BY <1>2 DEF Lock, Unlock, Inserters, IInv, ShapeInv
  <2>2. \A k \in Keys : Held(k)' = Held(k)
    BY <1>2, <2>1, SameHeld DEF Lock, Unlock
  <2>3. entriesBar' = entriesBar
    BY <1>2, <2>2, SameBar DEF Lock, Unlock
  <2> QED BY <1>1, <1>2, <2>3 DEF Lock, Unlock, Atomic!vars
<1>3. CASE Insert(c)
  <2>1. pc[c] = Inserting /\ \A d \in Writers \ {c} : pc[d] # Inserting
    BY <1>3 DEF Insert, IInv, LockInv
  <2>2. \A k \in Keys : Held(k) = IF request[c].key = k THEN obj_val[c] ELSE store[k]
    BY <2>1, HeldByInserter
  <2>3. \A d \in Writers : pc'[d] # Inserting
    BY <1>3, <2>1 DEF Insert, IInv, ShapeInv
  <2>4. \A k \in Keys : Held(k)' = store'[k]
    BY <2>3 DEF Held, Inserters
  <2>5. \A k \in Keys : Held(k)' = Held(k)
    BY <1>3, <2>2, <2>4 DEF Insert, IInv, ShapeInv
  <2>6. entriesBar' = entriesBar
    BY <1>3, <2>5, SameBar DEF Insert
  <2> QED BY <1>1, <1>3, <2>6 DEF Insert, Atomic!vars
<1> QED BY <1>2, <1>3

LEMMA ReturnStep == ASSUME IInv, NEW c \in Writers, Return(c) PROVE Atomic!Next
<1> USE DEF Idle, Locking, Examining, Inserting, Unlocking, Returning
<1>1. \A k \in Keys : Inserters(k)' = Inserters(k)
  BY DEF Return, Inserters, IInv, ShapeInv
<1>2. \A k \in Keys : Held(k)' = Held(k)
  <2> SUFFICES ASSUME NEW k \in Keys PROVE Held(k)' = Held(k)
    OBVIOUS
  <2>1. c \notin Inserters(k)
    BY DEF Return, Inserters
  <2>2. \A d \in Inserters(k) : obj_val'[d] = obj_val[d]
    BY <2>1 DEF Return, Inserters, IInv, ShapeInv
  <2> QED BY <1>1, <2>2, SameHeld DEF Return
<1>3. entriesBar' = entriesBar
  BY <1>2, SameBar DEF Return
<1>4. phaseBar[c] = "done" /\ phaseBar' = [phaseBar EXCEPT ![c] = "idle"]
  BY DEF Return, phaseBar, IInv, ShapeInv
<1>5. Atomic!Return(c)
  BY <1>3, <1>4 DEF Return, Atomic!Return
<1> QED BY <1>5 DEF Atomic!Next

\* Every behaviour of insert and lookup (insert with its write lock, viceroy/012 and
\* 013) is one of the store whose inserts happen at one instant: the instant at which
\* the existing object is examined.
THEOREM Refinement == Spec => ImplementsAtomic
<1>1. Init => Atomic!Init
  <2> SUFFICES ASSUME Init PROVE Atomic!Init
    OBVIOUS
  <2>1. entriesBar = [k \in Keys |-> Absent]
    <3>1. \A k \in Keys : Held(k) = Absent
      BY DEF Init, Held, Inserters, Idle, Inserting
    <3> QED BY <3>1, Bar DEF Seen, Expired
  <2>2. phaseBar = [c \in Writers |-> "idle"]
    BY DEF Init, phaseBar
  <2> QED BY <2>1, <2>2 DEF Init, Atomic!Init
<1>2. IInv /\ IInv' /\ [Next]_vars => [Atomic!Next]_(Atomic!vars)
  <2> SUFFICES ASSUME IInv, IInv', [Next]_vars PROVE Atomic!Next \/ UNCHANGED Atomic!vars
    OBVIOUS
  <2>1. ASSUME NEW c \in Writers, NEW k \in Keys, NEW mode \in Atomic!Modes,
               NEW g \in Atomic!Generations \cup {Absent}, NEW ttl \in {Absent, 1},
               Call(c, k, mode, g, ttl)
        PROVE  Atomic!Next
    BY <2>1, CallStep
  <2>2. ASSUME NEW c \in Writers, Examine(c) PROVE Atomic!Next
    BY <2>2, ExamineStep
  <2>3. ASSUME NEW c \in Writers, Return(c) PROVE Atomic!Next
    BY <2>3, ReturnStep
  <2>4. ASSUME NEW c \in Writers, NEW k \in Keys, Lookup(c, k) PROVE Atomic!Next
    BY <2>4, LookupStep
  <2>5. CASE Tick
    BY <2>5, TickStep
  <2>6. ASSUME NEW c \in Writers, Lock(c) \/ Insert(c) \/ Unlock(c)
        PROVE  UNCHANGED Atomic!vars
    BY <2>6, HiddenStep
  <2>7. CASE UNCHANGED vars
    BY <2>7 DEF vars, Atomic!vars, entriesBar, Inserters, phaseBar
  <2> QED BY <2>1, <2>2, <2>3, <2>4, <2>5, <2>6, <2>7 DEF Next
<1> QED BY <1>1, <1>2, Invariance, PTL DEF Spec, ImplementsAtomic, Atomic!Spec
=============================================================================
