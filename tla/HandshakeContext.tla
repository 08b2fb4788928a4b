-------------------------- MODULE HandshakeContext --------------------------
(***************************************************************************)
(* crypto/tls handshakeContext as patched by go/crypto/005: goroutines     *)
(* share one client connection and each hands its own cancellable context  *)
(* to HandshakeContext.  context.AfterFunc runs the cancellation callback  *)
(* in a goroutine of its own, which loads isHandshakeComplete and closes   *)
(* the connection in two steps.                                            *)
(***************************************************************************)
CONSTANT Callers  \* goroutines that call HandshakeContext, once each

VARIABLES
    isHandshakeComplete,  \* c.isHandshakeComplete
    handshakeErr,         \* whether c.handshakeErr is set
    closed,               \* whether c.conn.Close() was called
    handshakeMutex,       \* the holder of c.handshakeMutex, or Nobody
    pc,                   \* where each caller is in handshakeContext
    ret,                  \* what each caller returns
    cancelled,            \* whether each caller's context is cancelled
    callback,             \* what each caller's AfterFunc is doing
    early                 \* callers cancelled before the handshake completed

callerVars == <<pc, ret>>
contextVars == <<cancelled, callback, early>>
vars == <<isHandshakeComplete, handshakeErr, closed, handshakeMutex, callerVars, contextVars>>

Nobody == "nobody"

\* No caller is called as the one that is not there.
NobodyAssumption == Nobody \notin Callers

\* A caller's places.
Idle == "idle"                \* HandshakeContext not yet called
Locking == "locking"          \* AfterFunc armed, about to lock handshakeMutex
Handshaking == "handshaking"  \* in handshakeFn
Exchanged == "exchanged"      \* the last message of the handshake is written
Unlocking == "unlocking"      \* handshakeFn is over
Stopping == "stopping"        \* in the deferred cleanup, about to call stop()
NotStopped == "not_stopped"   \* stop() was false, the flag not yet loaded
Returned == "returned"

\* What a caller returns.
Nil == "nil"
HandshakeError == "handshake_error"
CtxError == "ctx_error"

\* AfterFunc's callback.
Unarmed == "unarmed"
Armed == "armed"
Started == "started"  \* its goroutine runs: stop() returns false
Closing == "closing"  \* it found the handshake incomplete
Done == "done"
Stopped == "stopped"  \* stop() came first

TypeOK ==
    /\ isHandshakeComplete \in BOOLEAN /\ handshakeErr \in BOOLEAN /\ closed \in BOOLEAN
    /\ handshakeMutex \in Callers \cup {Nobody}
    /\ pc \in [Callers -> {Idle, Locking, Handshaking, Exchanged, Unlocking, Stopping,
                           NotStopped, Returned}]
    /\ ret \in [Callers -> {Nil, HandshakeError, CtxError}]
    /\ cancelled \in [Callers -> BOOLEAN]
    /\ callback \in [Callers -> {Unarmed, Armed, Started, Closing, Done, Stopped}]
    /\ early \subseteq {c \in Callers : cancelled[c]}

Init ==
    /\ isHandshakeComplete = FALSE /\ handshakeErr = FALSE /\ closed = FALSE
    /\ handshakeMutex = Nobody
    /\ pc = [c \in Callers |-> Idle]
    /\ ret = [c \in Callers |-> Nil]
    /\ cancelled = [c \in Callers |-> FALSE]
    /\ callback = [c \in Callers |-> Unarmed]
    /\ early = {}

-----------------------------------------------------------------------------
\* The owner of a context cancels it.
Cancel(c) ==
    /\ ~cancelled[c]
    /\ cancelled' = [cancelled EXCEPT ![c] = TRUE]
    /\ early' = IF isHandshakeComplete THEN early ELSE early \cup {c}
    /\ UNCHANGED <<isHandshakeComplete, handshakeErr, closed, handshakeMutex, callerVars, callback>>

\* The context package starts the callback's goroutine.
StartCallback(c) ==
    /\ callback[c] = Armed
    /\ cancelled[c]
    /\ callback' = [callback EXCEPT ![c] = Started]
    /\ UNCHANGED <<isHandshakeComplete, handshakeErr, closed, handshakeMutex, callerVars,
                   cancelled, early>>

\* Mutant: the callback before the patch closes whatever the flag says.
CheckNothing(c) ==
    /\ callback[c] = Started
    /\ callback' = [callback EXCEPT ![c] = Closing]
    /\ UNCHANGED <<isHandshakeComplete, handshakeErr, closed, handshakeMutex, callerVars,
                   cancelled, early>>

\* Mutant: the test the wrong way round.
CheckInverted(c) ==
    /\ callback[c] = Started
    /\ callback' = [callback EXCEPT ![c] = IF isHandshakeComplete THEN Closing ELSE Done]
    /\ UNCHANGED <<isHandshakeComplete, handshakeErr, closed, handshakeMutex, callerVars,
                   cancelled, early>>

\* if !c.isHandshakeComplete.Load()
CheckComplete(c) ==
    /\ callback[c] = Started
    /\ callback' = [callback EXCEPT ![c] = IF isHandshakeComplete THEN Done ELSE Closing]
    /\ UNCHANGED <<isHandshakeComplete, handshakeErr, closed, handshakeMutex, callerVars,
                   cancelled, early>>

\* { _ = c.conn.Close() }
Close(c) ==
    /\ callback[c] = Closing
    /\ closed' = TRUE
    /\ callback' = [callback EXCEPT ![c] = Done]
    /\ UNCHANGED <<isHandshakeComplete, handshakeErr, handshakeMutex, callerVars, cancelled, early>>

-----------------------------------------------------------------------------
\* handshakeContext returns nil at once when the handshake is complete, and
\* otherwise arms the callback.
Enter(c) ==
    /\ pc[c] = Idle
    /\ IF isHandshakeComplete
       THEN pc' = [pc EXCEPT ![c] = Returned] /\ UNCHANGED callback
       ELSE pc' = [pc EXCEPT ![c] = Locking] /\ callback' = [callback EXCEPT ![c] = Armed]
    /\ UNCHANGED <<isHandshakeComplete, handshakeErr, closed, handshakeMutex, ret, cancelled, early>>

\* Mutant: the lock is taken and what other callers did meanwhile is not looked at.
LockAndHandshake(c) ==
    /\ pc[c] = Locking
    /\ handshakeMutex = Nobody
    /\ handshakeMutex' = c
    /\ pc' = [pc EXCEPT ![c] = Handshaking]
    /\ UNCHANGED <<isHandshakeComplete, handshakeErr, closed, ret, contextVars>>

\* Under handshakeMutex: an earlier error or success is the answer, else this
\* caller does the handshake.
LockMutex(c) ==
    /\ pc[c] = Locking
    /\ handshakeMutex = Nobody
    /\ handshakeMutex' = c
    /\ ret' = [ret EXCEPT ![c] = IF handshakeErr THEN HandshakeError ELSE Nil]
    /\ pc' = [pc EXCEPT ![c] = IF handshakeErr \/ isHandshakeComplete THEN Unlocking ELSE Handshaking]
    /\ UNCHANGED <<isHandshakeComplete, handshakeErr, closed, contextVars>>

\* handshakeFn exchanges its messages over the open connection.
Exchange(c) ==
    /\ pc[c] = Handshaking
    /\ ~closed
    /\ pc' = [pc EXCEPT ![c] = Exchanged]
    /\ UNCHANGED <<isHandshakeComplete, handshakeErr, closed, handshakeMutex, ret, contextVars>>

\* handshakeFn records its success: isHandshakeComplete.Store(true).
Complete(c) ==
    /\ pc[c] = Exchanged
    /\ isHandshakeComplete' = TRUE
    /\ pc' = [pc EXCEPT ![c] = Unlocking]
    /\ UNCHANGED <<handshakeErr, closed, handshakeMutex, ret, contextVars>>

\* handshakeFn fails: because the connection is closed, or because of the peer.
Fail(c) ==
    /\ pc[c] = Handshaking
    /\ handshakeErr' = TRUE
    /\ ret' = [ret EXCEPT ![c] = HandshakeError]
    /\ pc' = [pc EXCEPT ![c] = Unlocking]
    /\ UNCHANGED <<isHandshakeComplete, closed, handshakeMutex, contextVars>>

\* The deferred handshakeMutex.Unlock(), which runs before the older defers.
UnlockMutex(c) ==
    /\ pc[c] = Unlocking
    /\ handshakeMutex' = Nobody
    /\ pc' = [pc EXCEPT ![c] = Stopping]
    /\ UNCHANGED <<isHandshakeComplete, handshakeErr, closed, ret, contextVars>>

\* stop() is true when the callback was armed and now will not run.
Stop(c) ==
    /\ pc[c] = Stopping
    /\ IF callback[c] = Armed
       THEN callback' = [callback EXCEPT ![c] = Stopped] /\ pc' = [pc EXCEPT ![c] = Returned]
       ELSE UNCHANGED callback /\ pc' = [pc EXCEPT ![c] = NotStopped]
    /\ UNCHANGED <<isHandshakeComplete, handshakeErr, closed, handshakeMutex, ret, cancelled, early>>

\* Mutant: before the patch ret = ctx.Err() whenever stop() was false.
ReturnCtxError(c) ==
    /\ pc[c] = NotStopped
    /\ ret' = [ret EXCEPT ![c] = CtxError]
    /\ pc' = [pc EXCEPT ![c] = Returned]
    /\ UNCHANGED <<isHandshakeComplete, handshakeErr, closed, handshakeMutex, contextVars>>

\* !stop() && !c.isHandshakeComplete.Load(): ret = ctx.Err()
ReturnNotStopped(c) ==
    /\ pc[c] = NotStopped
    /\ ret' = [ret EXCEPT ![c] = IF isHandshakeComplete THEN @ ELSE CtxError]
    /\ pc' = [pc EXCEPT ![c] = Returned]
    /\ UNCHANGED <<isHandshakeComplete, handshakeErr, closed, handshakeMutex, contextVars>>

Next ==
    \E c \in Callers :
        \/ Cancel(c) \/ StartCallback(c) \/ CheckComplete(c) \/ Close(c)
        \/ Enter(c) \/ LockMutex(c) \/ Exchange(c) \/ Complete(c) \/ Fail(c)
        \/ UnlockMutex(c) \/ Stop(c) \/ ReturnNotStopped(c)

\* Goroutines that can run do, and reading from a closed connection fails.  The
\* peer need not answer, so Exchange is under no fairness, nor is a failure on
\* a connection that is open.
Fairness ==
    \A c \in Callers :
        /\ WF_vars(StartCallback(c)) /\ WF_vars(CheckComplete(c)) /\ WF_vars(Close(c))
        /\ WF_vars(LockMutex(c)) /\ WF_vars(Complete(c)) /\ WF_vars(closed /\ Fail(c))
        /\ WF_vars(UnlockMutex(c)) /\ WF_vars(Stop(c)) /\ WF_vars(ReturnNotStopped(c))

Spec == Init /\ [][Next]_vars
FairSpec == Spec /\ Fairness

-----------------------------------------------------------------------------
\* What a caller is told agrees with the connection: nil only if the handshake
\* is complete, an error only if it failed, however late its context was
\* cancelled and whoever did the handshake.
ResultAgrees ==
    \A c \in Callers :
        pc[c] = Returned =>
            IF ret[c] = Nil THEN isHandshakeComplete ELSE handshakeErr /\ ~isHandshakeComplete

\* A context cancelled after the handshake completed closes nothing: the
\* connection is closed only if some context was cancelled before.
LateCancelHarmless == closed => early # {}

\* handshakeMutex does its work: one caller at most runs handshakeFn, and it
\* fails or completes once for all.
OneHandshake ==
    /\ ~(handshakeErr /\ isHandshakeComplete)
    /\ \A c \in Callers :
        pc[c] \in {Handshaking, Exchanged} =>
            handshakeMutex = c /\ ~handshakeErr /\ ~isHandshakeComplete

\* Cancellation still frees a caller while the handshake is pending, though the
\* peer never answers, and though another caller is the one in handshakeFn.
CancelReturns ==
    \A c \in Callers : cancelled[c] /\ pc[c] # Idle ~> pc[c] = Returned

\* "After the handshake finishes, cancellation cleanup must not close the
\* connection" (005, line 39).
CompletedStaysOpen == [][isHandshakeComplete /\ ~closed => ~closed']_vars
=============================================================================
