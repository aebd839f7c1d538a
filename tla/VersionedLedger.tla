-------------------------- MODULE VersionedLedger --------------------------
(***************************************************************************)
(* What the profile store promises its callers, and nothing of how it does *)
(* so: every identity has an append-only ledger of published versions, at  *)
(* most the newest of which is live, and a clock dates what is published.  *)
(* "A registered compatibility profile, immutable by generation.           *)
(* Superseding an identity never mutates a historical record; it adds a    *)
(* fresh generation." (include/compat/registry.hpp:29-30)                  *)
(***************************************************************************)
EXTENDS Integers, Sequences

CONSTANTS Id,       \* identities
          Content   \* what a version of a profile says

VARIABLES ledger,   \* the versions of each identity, oldest first
          live,     \* whether the newest version of an identity is live
          clock     \* the generation of the registry

ledgerVars == <<ledger, live, clock>>

Init == /\ ledger = [id \in Id |-> <<>>]
        /\ live = [id \in Id |-> FALSE]
        /\ clock = 0

\* A new version of id, dated by a new value of the clock.
Publish(id, c, l) ==
    /\ ledger' = [ledger EXCEPT ![id] = Append(@, c)]
    /\ live' = [live EXCEPT ![id] = l]
    /\ clock' = clock + 1

\* The identities in S stop being live; no version changes.
Withdraw(S) ==
    /\ live' = [id \in Id |-> live[id] /\ id \notin S]
    /\ clock' \in {clock, clock + 1}
    /\ UNCHANGED ledger

Next == \/ \E id \in Id, c \in Content, l \in BOOLEAN : Publish(id, c, l)
        \/ \E S \in SUBSET Id : Withdraw(S)

Spec == Init /\ [][Next]_ledgerVars
=============================================================================
