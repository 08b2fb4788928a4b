----------------------------- MODULE SealNonce -----------------------------
(***************************************************************************)
(* Sender.Seal of Go's crypto/hpke (go/crypto/008 and 009).  008 takes the *)
(* nonce of seqNum and raises it under a mutex; 009 refuses the last       *)
(* number, for one goroutine at a time.  The two patches change the same   *)
(* lines and are modelled each on its own.  A nonce is its number:         *)
(* baseNonce XOR seqNum is one to one.                                     *)
(***************************************************************************)
EXTENDS Integers, FiniteSets

CONSTANTS
    Goroutines,
    Numbers      \* a sequence number is 0 .. Numbers - 1 (2^64)

VARIABLES
    patch,       \* the code that runs: none, "008" or "009"
    sealing,     \* each goroutine's place in Seal
    seqNumMu,    \* who holds the mutex of 008
    seqNum,
    nonce,       \* each goroutine's nonce
    sealed,      \* how often each nonce was given to aead.Seal
    handed       \* how many nonces were taken

vars == <<patch, sealing, seqNumMu, seqNum, nonce, sealed, handed>>

Free == "free"

Init ==
    /\ patch = "none"
    /\ sealing = [g \in Goroutines |-> "idle"]
    /\ seqNumMu = Free /\ seqNum = 0
    /\ nonce = [g \in Goroutines |-> 0]
    /\ sealed = [k \in 0 .. Numbers - 1 |-> 0]
    /\ handed = 0

NewSender ==
    /\ patch = "none"
    /\ patch' \in {"008", "009"}
    /\ UNCHANGED <<sealing, seqNumMu, seqNum, nonce, sealed, handed>>

Goto(g, from, to) ==
    /\ sealing[g] = from
    /\ sealing' = [sealing EXCEPT ![g] = to]

\* Mutant: the sequence number is read without the mutex.
LockNothing(g) ==
    /\ patch = "008" /\ handed < Numbers
    /\ Goto(g, "idle", "locked")
    /\ UNCHANGED <<patch, seqNumMu, seqNum, nonce, sealed, handed>>

\* 008.  Bounded by the calls that the numbers are enough for.
Lock(g) ==
    /\ patch = "008" /\ handed < Numbers
    /\ seqNumMu = Free
    /\ Goto(g, "idle", "locked")
    /\ seqNumMu' = g
    /\ UNCHANGED <<patch, seqNum, nonce, sealed, handed>>

NextNonce(g) ==
    /\ Goto(g, "locked", "taken")
    /\ nonce' = [nonce EXCEPT ![g] = seqNum]
    /\ handed' = handed + 1
    /\ UNCHANGED <<patch, seqNumMu, seqNum, sealed>>

\* seqNum++ and Unlock.
Raise(g) ==
    /\ Goto(g, "taken", "sealing")
    /\ seqNum' = (seqNum + 1) % Numbers
    /\ seqNumMu' = Free
    /\ UNCHANGED <<patch, nonce, sealed, handed>>

AeadSeal(g) ==
    /\ Goto(g, "sealing", "idle")
    /\ sealed' = [sealed EXCEPT ![nonce[g]] = @ + 1]
    /\ UNCHANGED <<patch, seqNumMu, seqNum, nonce, handed>>

\* 009.  One goroutine: the limit, aead.Seal with the nonce, seqNum++.
SealLimited(g) ==
    /\ patch = "009" /\ \A h \in Goroutines \ {g} : sealing[h] = "idle"
    /\ seqNum # Numbers - 1
    /\ Goto(g, "idle", "limited")
    /\ sealed' = [sealed EXCEPT ![seqNum] = @ + 1]
    /\ handed' = handed + 1
    /\ UNCHANGED <<patch, seqNumMu, seqNum, nonce>>

RaiseLimited(g) ==
    /\ Goto(g, "limited", "idle")
    /\ seqNum' = (seqNum + 1) % Numbers
    /\ UNCHANGED <<patch, seqNumMu, nonce, sealed, handed>>

Next ==
    \/ NewSender
    \/ \E g \in Goroutines :
        \/ Lock(g) \/ NextNonce(g) \/ Raise(g) \/ AeadSeal(g)
        \/ SealLimited(g) \/ RaiseLimited(g)

-----------------------------------------------------------------------------
Holding(k) == {g \in Goroutines : sealing[g] \in {"taken", "sealing"} /\ nonce[g] = k}

\* No nonce is used twice.  With 008 every number below those handed out has been
\* sealed with, or one goroutine is about to; with 009 the last number never is,
\* however often Seal is called.
NoncesDistinct ==
    /\ \A k \in 0 .. Numbers - 1 :
        sealed[k] + Cardinality(Holding(k)) = IF k < handed THEN 1 ELSE 0
    /\ patch = "009" => handed < Numbers
=============================================================================
