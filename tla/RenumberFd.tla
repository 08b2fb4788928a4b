---------------------------- MODULE RenumberFd ----------------------------
(***************************************************************************)
(* The descriptors of a WASI preview 1 guest, with fd_renumber as patched  *)
(* by wasmtime-wasi/001.  A descriptor stands for a resource in the host's *)
(* table, which only an explicit drop takes out.  Opening and closing are  *)
(* external: the first takes a free descriptor or the next new one.        *)
(***************************************************************************)
EXTENDS Integers, FiniteSets

CONSTANTS
    MaxFd,       \* bound: descriptors are 0 .. MaxFd - 1
    MaxOpens     \* bound on the resources ever opened

VARIABLES
    guest,       \* running or trapped
    used,        \* descriptors.used: the resource of each descriptor in use
    free,        \* descriptors.free
    resources,   \* the resources in the host's table
    opened,      \* how many were opened: resources are 1 .. opened
    undropped    \* resources whose drop failed

vars == <<guest, used, free, resources, opened, undropped>>

Init ==
    /\ guest = "running"
    /\ used = <<>> /\ free = {}
    /\ resources = {} /\ opened = 0 /\ undropped = {}

Without(fds) == [fd \in DOMAIN used \ fds |-> used[fd]]

PathOpen ==
    /\ guest = "running" /\ opened < MaxOpens
    /\ LET new == Cardinality(DOMAIN used \cup free) IN
       \E fd \in IF free # {} THEN free ELSE {new} \cap 0 .. MaxFd - 1 :
        /\ used' = [f \in DOMAIN used \cup {fd} |-> IF f = fd THEN opened + 1 ELSE used[f]]
        /\ free' = free \ {fd}
    /\ opened' = opened + 1
    /\ resources' = resources \cup {opened + 1}
    /\ UNCHANGED <<guest, undropped>>

\* What drop does with the resource r: it may fail, which traps the guest.
DropResource(r) ==
    \/ resources' = resources \ {r} /\ UNCHANGED <<guest, undropped>>
    \/ guest' = "trapped" /\ undropped' = undropped \cup {r} /\ UNCHANGED resources

FdClose(fd) ==
    /\ guest = "running" /\ fd \in DOMAIN used
    /\ used' = Without({fd})
    /\ free' = free \cup {fd}
    /\ DropResource(used[fd])
    /\ UNCHANGED opened

\* Mutant: the resource that is replaced is not dropped.
RenumberOver(from, to) ==
    /\ guest = "running" /\ {from, to} \subseteq DOMAIN used /\ from # to
    /\ free' = (free \cup {from}) \ {to}
    /\ used' = [fd \in DOMAIN used \ {from} |-> IF fd = to THEN used[from] ELSE used[fd]]
    /\ UNCHANGED <<guest, resources, opened, undropped>>

\* The descriptor moves first, and the resource it replaces is dropped when the
\* tables are released.  Badf, and from = to, change nothing.
FdRenumber(from, to) ==
    /\ guest = "running" /\ {from, to} \subseteq DOMAIN used /\ from # to
    /\ free' = (free \cup {from}) \ {to}
    /\ used' = [fd \in DOMAIN used \ {from} |-> IF fd = to THEN used[from] ELSE used[fd]]
    /\ DropResource(used[to])
    /\ UNCHANGED opened

Next ==
    \/ PathOpen
    \/ \E fd \in DOMAIN used : FdClose(fd)
    \/ \E from, to \in DOMAIN used : FdRenumber(from, to)

-----------------------------------------------------------------------------
\* After any calls every resource in the host's table has one descriptor, but
\* for one whose drop failed and trapped the guest; a descriptor in use has its
\* resource, and is not free, and no descriptor is neither.
ResourcesOwned ==
    /\ resources = {used[fd] : fd \in DOMAIN used} \cup undropped
    /\ Cardinality(resources) = Cardinality(DOMAIN used) + Cardinality(undropped)
    /\ DOMAIN used \cap free = {}
    /\ DOMAIN used \cup free = 0 .. Cardinality(DOMAIN used \cup free) - 1
    /\ guest = "running" => undropped = {}
=============================================================================
