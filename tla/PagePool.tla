------------------------------ MODULE PagePool ------------------------------
(***************************************************************************)
(* What the prompt cache manager promises about memory, without prefixes,  *)
(* hashes, estimates or recency: a fixed set of pages is divided between   *)
(* leases, cached holders and nobody.  A lease gets its pages in one step  *)
(* and keeps all of them until its own release; cached pages may be        *)
(* reclaimed at any time; every page is always in exactly one place.       *)
(***************************************************************************)
CONSTANTS Pages, Leases, Slots

VARIABLES leased,   \* the pages of every lease
          cached,   \* the pages of every cached holder
          free

poolVars == <<leased, cached, free>>

Init ==
    /\ leased = [l \in Leases |-> {}]
    /\ cached = [s \in Slots |-> {}]
    /\ free = Pages

Reclaimed(victims) == UNION {cached[s] : s \in victims}
Without(victims) == [s \in Slots |-> IF s \in victims THEN {} ELSE cached[s]]

\* Reclaim some cached pages and lease pages out of what is then free.
Lease(l) ==
    /\ leased[l] = {}
    /\ \E victims \in SUBSET Slots :
         \E taken \in SUBSET (free \cup Reclaimed(victims)) :
            /\ leased' = [leased EXCEPT ![l] = taken]
            /\ cached' = Without(victims)
            /\ free' = (free \cup Reclaimed(victims)) \ taken

Release(l) ==
    /\ leased' = [leased EXCEPT ![l] = {}]
    /\ free' = free \cup leased[l]
    /\ UNCHANGED cached

\* Reclaim some cached pages and fill an empty slot out of what is then free.
Fill(s) ==
    \E victims \in SUBSET Slots :
        /\ Without(victims)[s] = {}
        /\ \E taken \in SUBSET (free \cup Reclaimed(victims)) :
            /\ cached' = [Without(victims) EXCEPT ![s] = taken]
            /\ free' = (free \cup Reclaimed(victims)) \ taken
            /\ UNCHANGED leased

Reclaim ==
    \E victims \in SUBSET Slots :
        /\ cached' = Without(victims)
        /\ free' = free \cup Reclaimed(victims)
        /\ UNCHANGED leased

Next ==
    \/ \E l \in Leases : Lease(l) \/ Release(l)
    \/ \E s \in Slots : Fill(s)
    \/ Reclaim

Spec == Init /\ [][Next]_poolVars
=============================================================================
