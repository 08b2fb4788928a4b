------------------------------ MODULE MetaVars ------------------------------
(***************************************************************************)
(* rust-stdlib/pocs/065: the scan of a token stream for metavariables.  A  *)
(* token is "$", another punct, an identifier, or a group: a sequence.     *)
(***************************************************************************)
EXTENDS Naturals, Sequences

CONSTANT Streams   \* the token streams, with those of their groups

Dollar == [kind |-> "dollar"]

\* What is pushed in a pass over a stream: the identifiers at some places, and what
\* below has for each group.
Gathered(stream, places, below) ==
    LET out[k \in 0 .. Len(stream)] ==
            IF k = 0 THEN <<>>
            ELSE CASE stream[k].kind = "group" -> out[k - 1] \o below[stream[k].inner]
                   [] stream[k].kind = "ident" /\ k \in places -> Append(out[k - 1], stream[k])
                   [] OTHER -> out[k - 1]
    IN  out[Len(stream)]

\* An identifier that is peeked at behind a "$" is pushed and passed.
Peeked(stream) == {k \in 2 .. Len(stream) : stream[k - 1] = Dollar}

Helper[stream \in Streams] == Gathered(stream, Peeked(stream), Helper)

CollectMetaVars(stream) == Helper[stream]

-----------------------------------------------------------------------------
\* How many "$" stand in a row before place k.
DollarsBefore(stream, k) ==
    CHOOSE m \in 0 .. k - 1 :
        /\ \A j \in k - m .. k - 1 : stream[j] = Dollar
        /\ m < k - 1 => stream[k - m - 1] # Dollar

\* The identifiers behind a number of "$" that is in runs, groups and all.
BehindRuns(runs, stream) == {k \in DOMAIN stream : DollarsBefore(stream, k) \in runs}

Behind(runs, stream) ==
    LET behind[s \in Streams] == Gathered(s, BehindRuns(runs, s), behind) IN behind[stream]

\* The scan takes an identifier behind any number of "$".  With "$$" a literal
\* dollar it would be an odd one: the two differ on exactly the streams where
\* an identifier stands behind an even run, at any depth.
AnyRunCollects(stream) ==
    LET even == {m \in Nat \ {0} : m % 2 = 0} odd == {m \in Nat : m % 2 = 1} IN
    /\ CollectMetaVars(stream) = Behind(odd \cup even, stream)
    /\ CollectMetaVars(stream) # Behind(odd, stream) <=> Behind(even, stream) # <<>>
=============================================================================
