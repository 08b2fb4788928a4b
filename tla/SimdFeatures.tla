---------------------------- MODULE SimdFeatures ----------------------------
(***************************************************************************)
(* rust-stdlib/pocs/063: the features that std_detect reads from fields of *)
(* 4 bits of two registers.  15 says that there is no such unit; asimd     *)
(* must agree with fp on half precision.                                   *)
(***************************************************************************)
EXTENDS Naturals

Extensions == {"aes", "sha2", "rdm", "dotprod", "sve"}
Least == [aes |-> 2, sha1 |-> 1, sha2 |-> 1, rdm |-> 1, dotprod |-> 1, sve |-> 1]
Has(reg, field) == reg[field] >= Least[field]

\* SIMD as a whole: fp && asimd && (!fphp | asimdhp).
Simd(reg) ==
    /\ reg.fp < 15 /\ reg.asimd < 15
    /\ reg.fp >= 1 => reg.asimd >= 1

\* What the extensions would be if they waited for all of SIMD.
ParseGated(reg) ==
    {e \in Extensions : Simd(reg) /\ Has(reg, e) /\ (e = "sha2" => Has(reg, "sha1"))}
    \cup (IF Simd(reg) THEN {"asimd"} ELSE {})

\* The extensions wait for the field of asimd only.
ParseBuggy(reg) ==
    {e \in Extensions : reg.asimd < 15 /\ Has(reg, e) /\ (e = "sha2" => Has(reg, "sha1"))}
    \cup (IF Simd(reg) THEN {"asimd"} ELSE {})

\* The assertions of main().
Triggered063(reg) == ParseBuggy(reg) = Extensions

-----------------------------------------------------------------------------
\* Extensions are reported without SIMD in two ways, which 063 tells apart from
\* all others: there is no floating point, or it has half precision alone.
\* Where SIMD is there, each is reported by its own fields.
ExtensionsGated(reg) ==
    LET stray == ParseBuggy(reg) # {} /\ "asimd" \notin ParseBuggy(reg) IN
    /\ stray => reg.fp = 15 \/ (reg.fp >= 1 /\ reg.asimd = 0)
    /\ Triggered063(reg) <=>
        /\ reg.asimd < 15 /\ (reg.fp = 15 \/ (reg.fp >= 1 /\ reg.asimd = 0))
        /\ \A field \in DOMAIN Least : Has(reg, field)
    /\ Simd(reg) => ParseBuggy(reg) = ParseGated(reg)
=============================================================================
