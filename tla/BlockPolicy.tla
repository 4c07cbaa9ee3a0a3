---------------------------- MODULE BlockPolicy ----------------------------
(***************************************************************************)
(* What the service promises, whatever fails on the way: an address is     *)
(* blocked, in the database or in the firewall, only if there is evidence  *)
(* against it and it is not on the whitelist; and a block is lifted, in    *)
(* either, only when it has lasted long enough.  Evidence never lapses.    *)
(* Nothing is said of how the promise is kept; CoreService implements it.  *)
(***************************************************************************)
CONSTANTS Attempts, Ips, Keys, Whitelist, None

VARIABLES
    source,    \* the address an attempt came from, None before it was seen
    target,    \* the address or range that a rule against it names
    accused,   \* attempts with evidence against them
    ledger,    \* the block of an attempt in the database
    overdue,   \* blocks that have lasted long enough
    guarded    \* addresses and ranges that the firewall blocks

policyVars == <<source, target, accused, ledger, overdue, guarded>>

\* Evidence is kept, and is found only against attempts that were seen.
GatherEvidence == accused \subseteq accused' /\ \A a \in accused' : source'[a] # None

\* An attempt is seen.  Attempts may become accused with it.
Observe(a, i, k) ==
    /\ source[a] = None
    /\ source' = [source EXCEPT ![a] = i]
    /\ target' = [target EXCEPT ![a] = k]
    /\ GatherEvidence
    /\ UNCHANGED <<ledger, overdue, guarded>>

Accuse ==
    /\ GatherEvidence
    /\ UNCHANGED <<source, target, ledger, overdue, guarded>>

Convicted(a) == a \in accused /\ source[a] \notin Whitelist

Enter(a) ==
    /\ ledger[a] = "none"
    /\ Convicted(a)
    /\ ledger' = [ledger EXCEPT ![a] = "blocked"]
    /\ UNCHANGED <<source, target, accused, overdue, guarded>>

Guard(a) ==
    /\ Convicted(a)
    /\ guarded' = guarded \cup {target[a]}
    /\ UNCHANGED <<source, target, accused, ledger, overdue>>

Age(a) ==
    /\ ledger[a] = "blocked"
    /\ overdue' = overdue \cup {a}
    /\ UNCHANGED <<source, target, accused, ledger, guarded>>

Lift(a) ==
    /\ ledger[a] = "blocked" /\ a \in overdue
    /\ ledger' = [ledger EXCEPT ![a] = "unblocked"]
    /\ UNCHANGED <<source, target, accused, overdue, guarded>>

\* Only a rule on behalf of an overdue block is removed.  (It may be the rule
\* of another block of the same address.)
Release(a) ==
    /\ a \in overdue
    /\ guarded' = guarded \ {target[a]}
    /\ UNCHANGED <<source, target, accused, ledger, overdue>>

PolicyInit ==
    /\ source = [a \in Attempts |-> None]
    /\ target = [a \in Attempts |-> None]
    /\ accused = {}
    /\ ledger = [a \in Attempts |-> "none"]
    /\ overdue = {}
    /\ guarded = {}

PolicyNext ==
    \/ \E a \in Attempts, i \in Ips, k \in Keys : Observe(a, i, k)
    \/ Accuse
    \/ \E a \in Attempts : Enter(a) \/ Guard(a) \/ Age(a) \/ Lift(a) \/ Release(a)

PolicySpec == PolicyInit /\ [][PolicyNext]_policyVars

=============================================================================
