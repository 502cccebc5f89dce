---------------------------- MODULE PromptCache ----------------------------
(***************************************************************************)
(* The logical-page prompt cache manager of mlx-engine                     *)
(* (crates/mlx-engine/src/prompt_cache.rs).  The manager does accounting   *)
(* only: it owns a fixed set of logical pages and hands them to active     *)
(* requests (begin_request .. finish_request) and to cached prompt         *)
(* prefixes (store_prefix .. eviction).  A request whose prompt extends a  *)
(* cached prefix pins the entry and borrows its bytes.                     *)
(*                                                                         *)
(* Abstractions.  A page is a model value and free_pages is the set of     *)
(* free pages: which page of the stack is popped is left open.             *)
(* last_accessed is kept as the order `older' it induces on the entries.   *)
(* An Option is a set of at most one element.  Request ids come from       *)
(* Requests and are fresh while active.  The usize overflow errors need    *)
(* prompts of more than 2^32 tokens and are not modelled.                  *)
(***************************************************************************)
EXTENDS Integers, Sequences, FiniteSets, FiniteSetsExt, Functions

CONSTANTS
    Tokens,             \* token ids
    Prompts,            \* the prompts callers may present (token sequences)
    Keys,               \* 64-bit hash values
    Hash,               \* hash_tokens, as a function from Prompts to Keys
    Requests,           \* request ids
    Pages,              \* the logical pages, total_pages = Cardinality(Pages)
    PageSize,           \* page_size_bytes
    BytesPerToken,      \* KV bytes of one token, an argument of the calls
    MaxPrefixEntries,   \* max_prefix_entries
    MinPrefixTokens,    \* min_prefix_tokens
    MaxTokens,          \* the max_tokens values callers use
    ObservedBytes,      \* the observed_runtime_bytes values callers measure
    MaxPins             \* bound: an entry is pinned at most this often

ASSUME PagesAssumption   == IsFiniteSet(Pages)
ASSUME RequestAssumption == IsFiniteSet(Requests)
ASSUME PromptAssumption  == Prompts \subseteq Seq(Tokens)
ASSUME HashAssumption    == Hash \in [Prompts -> Keys]
ASSUME SizeAssumption    ==
    /\ PageSize \in Nat \ {0}
    /\ BytesPerToken \in Nat
    /\ MaxPrefixEntries \in Nat
    /\ MinPrefixTokens \in Nat
    /\ MaxTokens \subseteq Nat
    /\ ObservedBytes \subseteq Nat

VARIABLES
    entries,            \* prefix entries by hash key
    older,              \* <<j, k>>: entry j was accessed before entry k
    active_requests,    \* reservations by request id
    free_pages          \* pages nobody holds

vars == <<entries, older, active_requests, free_pages>>

Entry == [tokens : Prompts, pages : SUBSET Pages,
          estimated_bytes : Nat, pin_count : Nat]

\* `prompt' and `prefix_len' are what the returned RequestReservation tells
\* the caller; the manager itself keeps the other three fields.
Reservation == [owned_pages : SUBSET Pages, borrowed_prefix : SUBSET Keys,
                estimated_bytes : Nat, prompt : Prompts, prefix_len : Nat]

Capacity == Cardinality(Pages) * PageSize
\* Mutant: rounds down, so a partly used page is not reserved.
PagesForBytesFloor(bytes) == bytes \div PageSize
PagesForBytes(bytes) == (bytes + PageSize - 1) \div PageSize
PagesOf(ks) == UNION {entries[k].pages : k \in ks}
\* Mutant: an eviction candidate is any entry, pinned or not.
UnpinnedIgnoringPins == DOMAIN entries
Unpinned == {k \in DOMAIN entries : entries[k].pin_count = 0}

Init ==
    /\ entries = << >>
    /\ older = {}
    /\ active_requests = << >>
    /\ free_pages = Pages

-----------------------------------------------------------------------------
(***************************************************************************)
(* Finding and pinning a prefix                                            *)
(***************************************************************************)

\* Mutant: compares the lengths and not the tokens.
IsShorter(p, t) == Len(p) < Len(t)
IsProperPrefix(p, t) == Len(p) < Len(t) /\ SubSeq(t, 1, Len(p)) = p

PrefixMatches(prompt) ==
    {k \in DOMAIN entries : /\ Len(entries[k].tokens) >= MinPrefixTokens
                            /\ IsProperPrefix(entries[k].tokens, prompt)}

\* The key of the longest entry that is a proper prefix of the prompt, if any.
FindLongestPrefixKey(prompt) ==
    {k \in PrefixMatches(prompt) :
        \A j \in PrefixMatches(prompt) :
            Len(entries[j].tokens) <= Len(entries[k].tokens)}

PrefixLen(borrowed) ==
    IF borrowed = {} THEN 0
    ELSE Len(entries[CHOOSE k \in borrowed : TRUE].tokens)

EstimatedBytes(prompt, max_tokens) == (Len(prompt) + max_tokens) * BytesPerToken

\* estimated_bytes less what the borrowed entry already accounts for.
AdditionalBytes(estimated, borrowed) ==
    IF borrowed = {} THEN estimated
    ELSE estimated - Min({estimated,
                          entries[CHOOSE k \in borrowed : TRUE].estimated_bytes})

Pinned(borrowed) ==
    [k \in DOMAIN entries |->
        IF k \in borrowed THEN [entries[k] EXCEPT !.pin_count = @ + 1]
                          ELSE entries[k]]

\* Of the entries kept, the touched ones become the most recently accessed.
Touch(kept, touched) ==
    older' = {p \in older : {p[1], p[2]} \subseteq kept \ touched}
                \cup ((kept \ touched) \X touched)

-----------------------------------------------------------------------------
(***************************************************************************)
(* Evicting.  The loops `while no room { evict_lru_prefix }' remove the    *)
(* least recently accessed unpinned entry until there is room or none is   *)
(* left: room means at most `slots' entries and `required' free pages.     *)
(***************************************************************************)

\* Mutant: tests the number of entries with `>' instead of `>='.
RoomOffByOne(victims, slots, required) ==
    /\ Cardinality(DOMAIN entries \ victims) <= slots + 1
    /\ Cardinality(free_pages \cup PagesOf(victims)) >= required

Room(victims, slots, required) ==
    /\ Cardinality(DOMAIN entries \ victims) <= slots
    /\ Cardinality(free_pages \cup PagesOf(victims)) >= required

\* Mutant: evicts any unpinned entries, whenever they were used.
EvictsInAnyOrder(victims, evictable, slots, required) ==
    /\ victims \subseteq evictable
    /\ victims = evictable \/ Room(victims, slots, required)

\* The loop evicts exactly `victims': oldest first, each while room lacked.
Evicts(victims, evictable, slots, required) ==
    /\ \A v \in victims, k \in evictable \ victims : <<v, k>> \in older
    /\ \A v \in victims :
         ~Room({w \in victims : <<w, v>> \in older}, slots, required)
    /\ victims = evictable \/ Room(victims, slots, required)

EnsureFreePages(victims, evictable, required) ==
    Evicts(victims, evictable, Cardinality(DOMAIN entries), required)

-----------------------------------------------------------------------------
(***************************************************************************)
(* begin_request                                                           *)
(***************************************************************************)

\* The estimate alone is over the budget: nothing has been touched yet.
BeginOverBudget(prompt, max_tokens) ==
    /\ EstimatedBytes(prompt, max_tokens) > Capacity
    /\ UNCHANGED vars

\* Past the first check the matched prefix is pinned, whatever happens next.
BeginPins(prompt, max_tokens) ==
    /\ EstimatedBytes(prompt, max_tokens) <= Capacity
    /\ \A k \in FindLongestPrefixKey(prompt) : entries[k].pin_count < MaxPins

Additional(prompt, max_tokens) ==
    AdditionalBytes(EstimatedBytes(prompt, max_tokens), FindLongestPrefixKey(prompt))

RequiredPages(prompt, max_tokens) == PagesForBytes(Additional(prompt, max_tokens))

\* The early return at the observed-memory check leaves the prefix pinned.
BeginOverRuntimeBudget(prompt, max_tokens, observed) ==
    LET borrowed == FindLongestPrefixKey(prompt)
    IN  /\ BeginPins(prompt, max_tokens)
        /\ observed + Additional(prompt, max_tokens) > Capacity
        /\ entries' = Pinned(borrowed)
        /\ Touch(DOMAIN entries, borrowed)
        /\ UNCHANGED <<active_requests, free_pages>>

\* Mutant: the failed call puts the evicted entries back but not their pages.
BeginNoPagesRestoresEntries(prompt, max_tokens, observed) ==
    LET borrowed == FindLongestPrefixKey(prompt)
        victims  == Unpinned \ borrowed
    IN  /\ BeginPins(prompt, max_tokens)
        /\ observed + Additional(prompt, max_tokens) <= Capacity
        /\ ~Room(victims, Cardinality(DOMAIN entries), RequiredPages(prompt, max_tokens))
        /\ free_pages' = free_pages \cup PagesOf(victims)
        /\ entries' = Pinned(borrowed)
        /\ Touch(DOMAIN entries, borrowed)
        /\ UNCHANGED active_requests

\* So does a failed ensure_free_pages, which has evicted all it could.
BeginNoPages(prompt, max_tokens, observed) ==
    LET borrowed == FindLongestPrefixKey(prompt)
        victims  == Unpinned \ borrowed
    IN  /\ BeginPins(prompt, max_tokens)
        /\ observed + Additional(prompt, max_tokens) <= Capacity
        /\ ~Room(victims, Cardinality(DOMAIN entries), RequiredPages(prompt, max_tokens))
        /\ free_pages' = free_pages \cup PagesOf(victims)
        /\ entries' = Restrict(Pinned(borrowed), DOMAIN entries \ victims)
        /\ Touch(DOMAIN entries \ victims, borrowed)
        /\ UNCHANGED active_requests

BeginAdmitted(r, prompt, max_tokens, observed) ==
    \E victims \in SUBSET (Unpinned \ FindLongestPrefixKey(prompt)) :
        LET borrowed  == FindLongestPrefixKey(prompt)
            required  == RequiredPages(prompt, max_tokens)
            available == free_pages \cup PagesOf(victims)
        IN  /\ r \notin DOMAIN active_requests
            /\ BeginPins(prompt, max_tokens)
            /\ observed + Additional(prompt, max_tokens) <= Capacity
            /\ EnsureFreePages(victims, Unpinned \ borrowed, required)
            /\ Cardinality(available) >= required
            /\ \E owned \in kSubset(required, available) :
                 /\ free_pages' = available \ owned
                 /\ active_requests' =
                      [q \in DOMAIN active_requests \cup {r} |->
                         IF q # r THEN active_requests[q] ELSE
                         [owned_pages |-> owned, borrowed_prefix |-> borrowed,
                          estimated_bytes |-> EstimatedBytes(prompt, max_tokens),
                          prompt |-> prompt, prefix_len |-> PrefixLen(borrowed)]]
            /\ entries' = Restrict(Pinned(borrowed), DOMAIN entries \ victims)
            /\ Touch(DOMAIN entries \ victims, borrowed)

BeginRequest(prompt, max_tokens, observed) ==
    \/ BeginOverBudget(prompt, max_tokens)
    \/ BeginOverRuntimeBudget(prompt, max_tokens, observed)
    \/ BeginNoPages(prompt, max_tokens, observed)
    \/ \E r \in Requests : BeginAdmitted(r, prompt, max_tokens, observed)

-----------------------------------------------------------------------------
(***************************************************************************)
(* finish_request                                                          *)
(***************************************************************************)

SaturatingDec(n) == IF n = 0 THEN 0 ELSE n - 1

\* Mutant: unpins but does not return the pages.
FinishRequestKeepsPages(r) ==
    /\ r \in DOMAIN active_requests
    /\ LET borrowed == active_requests[r].borrowed_prefix \cap DOMAIN entries
       IN  /\ entries' = [k \in DOMAIN entries |->
                IF k \in borrowed
                THEN [entries[k] EXCEPT !.pin_count = SaturatingDec(@)]
                ELSE entries[k]]
           /\ Touch(DOMAIN entries, borrowed)
    /\ active_requests' = Restrict(active_requests, DOMAIN active_requests \ {r})
    /\ UNCHANGED free_pages

\* Pages come back; the borrowed entry, if it is still there, is unpinned.
FinishRequest(r) ==
    /\ r \in DOMAIN active_requests
    /\ LET borrowed == active_requests[r].borrowed_prefix \cap DOMAIN entries
       IN  /\ entries' = [k \in DOMAIN entries |->
                IF k \in borrowed
                THEN [entries[k] EXCEPT !.pin_count = SaturatingDec(@)]
                ELSE entries[k]]
           /\ Touch(DOMAIN entries, borrowed)
    /\ free_pages' = free_pages \cup active_requests[r].owned_pages
    /\ active_requests' = Restrict(active_requests, DOMAIN active_requests \ {r})

-----------------------------------------------------------------------------
(***************************************************************************)
(* store_prefix                                                            *)
(***************************************************************************)

PrefixBytes(prompt) == Len(prompt) * BytesPerToken

Cacheable(prompt) ==
    /\ MaxPrefixEntries # 0
    /\ Len(prompt) >= MinPrefixTokens
    /\ PrefixBytes(prompt) # 0
    /\ PagesForBytes(PrefixBytes(prompt)) <= Cardinality(Pages)

AlreadyStored(prompt) ==
    /\ Hash[prompt] \in DOMAIN entries
    /\ entries[Hash[prompt]].tokens = prompt

StoreSkipped(prompt) ==
    /\ ~Cacheable(prompt)
    /\ UNCHANGED vars

\* The same tokens are cached: the snapshot is replaced, the pages are kept.
StoreReplaced(prompt) ==
    /\ Cacheable(prompt)
    /\ AlreadyStored(prompt)
    /\ Touch(DOMAIN entries, {Hash[prompt]})
    /\ UNCHANGED <<entries, active_requests, free_pages>>

\* Room was made.  An entry of other tokens with the same hash is overwritten,
\* its pages and its pins with it.
StoreInserted(prompt) ==
    \E victims \in SUBSET Unpinned :
        LET key       == Hash[prompt]
            required  == PagesForBytes(PrefixBytes(prompt))
            available == free_pages \cup PagesOf(victims)
            kept      == DOMAIN entries \ victims
        IN  /\ Cacheable(prompt)
            /\ ~AlreadyStored(prompt)
            /\ Evicts(victims, Unpinned, MaxPrefixEntries - 1, required)
            /\ Room(victims, MaxPrefixEntries - 1, required)
            /\ \E owned \in kSubset(required, available) :
                 /\ free_pages' = available \ owned
                 /\ entries' = [k \in kept \cup {key} |->
                      IF k # key THEN entries[k] ELSE
                      [tokens |-> prompt, pages |-> owned,
                       estimated_bytes |-> PrefixBytes(prompt), pin_count |-> 0]]
            /\ Touch(kept \cup {key}, {key})
            /\ UNCHANGED active_requests

\* Everything unpinned was evicted and there is still no room.
StoreGivesUp(prompt) ==
    /\ Cacheable(prompt)
    /\ ~AlreadyStored(prompt)
    /\ ~Room(Unpinned, MaxPrefixEntries - 1, PagesForBytes(PrefixBytes(prompt)))
    /\ free_pages' = free_pages \cup PagesOf(Unpinned)
    /\ entries' = Restrict(entries, DOMAIN entries \ Unpinned)
    /\ Touch(DOMAIN entries \ Unpinned, {})
    /\ UNCHANGED active_requests

StorePrefix(prompt) ==
    \/ StoreSkipped(prompt)
    \/ StoreReplaced(prompt)
    \/ StoreInserted(prompt)
    \/ StoreGivesUp(prompt)

-----------------------------------------------------------------------------
(***************************************************************************)
(* clear_prefixes                                                          *)
(***************************************************************************)

\* Mutant: returns the pages of pinned entries too.
ClearPrefixesFreesPinned ==
    /\ free_pages' = free_pages \cup PagesOf(DOMAIN entries)
    /\ entries' = Restrict(entries, DOMAIN entries \ Unpinned)
    /\ Touch(DOMAIN entries \ Unpinned, {})
    /\ UNCHANGED active_requests

\* Mutant: removes the entries and drops their pages.
ClearPrefixesDropsPages ==
    /\ entries' = Restrict(entries, DOMAIN entries \ Unpinned)
    /\ Touch(DOMAIN entries \ Unpinned, {})
    /\ UNCHANGED <<active_requests, free_pages>>

ClearPrefixes ==
    /\ free_pages' = free_pages \cup PagesOf(Unpinned)
    /\ entries' = Restrict(entries, DOMAIN entries \ Unpinned)
    /\ Touch(DOMAIN entries \ Unpinned, {})
    /\ UNCHANGED active_requests

Next ==
    \/ \E prompt \in Prompts, max_tokens \in MaxTokens, observed \in ObservedBytes :
         BeginRequest(prompt, max_tokens, observed)
    \/ \E r \in Requests : FinishRequest(r)
    \/ \E prompt \in Prompts : StorePrefix(prompt)
    \/ ClearPrefixes

Spec == Init /\ [][Next]_vars
-----------------------------------------------------------------------------
(***************************************************************************)
(* stats                                                                   *)
(***************************************************************************)

Stats ==
    [active_request_bytes |->
        SumFunction([r \in DOMAIN active_requests |-> active_requests[r].estimated_bytes]),
     prefix_bytes |->
        SumFunction([k \in DOMAIN entries |-> entries[k].estimated_bytes]),
     total_used_bytes |-> (Cardinality(Pages) - Cardinality(free_pages)) * PageSize,
     total_capacity_bytes |-> Capacity,
     free_pages |-> Cardinality(free_pages),
     active_requests |-> Cardinality(DOMAIN active_requests),
     prefix_entries |-> Cardinality(DOMAIN entries)]

-----------------------------------------------------------------------------
(***************************************************************************)
(* Properties                                                              *)
(***************************************************************************)

TypeOK ==
    /\ DOMAIN entries \subseteq Keys
    /\ \A k \in DOMAIN entries : entries[k] \in Entry
    /\ older \subseteq (DOMAIN entries) \X (DOMAIN entries)
    /\ DOMAIN active_requests \subseteq Requests
    /\ \A r \in DOMAIN active_requests : active_requests[r] \in Reservation
    /\ free_pages \subseteq Pages

\* 64-bit hash values of different prompts differ.  store_prefix overwrites an
\* entry of other tokens, so conservation and pinning hold only under this.
HashInjective == \A p, q \in Prompts : Hash[p] = Hash[q] => p = q

\* The code hands every page to at most one holder: free list, requests and
\* entries never share a page, through every eviction, failed call and even a
\* hash collision.
NoPageHeldTwice ==
    /\ \A k \in DOMAIN entries : entries[k].pages \cap free_pages = {}
    /\ \A r \in DOMAIN active_requests :
         active_requests[r].owned_pages \cap free_pages = {}
    /\ \A k \in DOMAIN entries, r \in DOMAIN active_requests :
         entries[k].pages \cap active_requests[r].owned_pages = {}
    /\ \A j, k \in DOMAIN entries : j # k => entries[j].pages \cap entries[k].pages = {}
    /\ \A q, r \in DOMAIN active_requests :
         q # r => active_requests[q].owned_pages \cap active_requests[r].owned_pages = {}

\* No page leaks: whatever is not free belongs to an entry or to an active
\* request, so finishing requests and evicting entries recovers the budget.
NoPageLost ==
    Pages = free_pages
              \cup PagesOf(DOMAIN entries)
              \cup UNION {active_requests[r].owned_pages : r \in DOMAIN active_requests}

Borrowers(k) == {r \in DOMAIN active_requests : k \in active_requests[r].borrowed_prefix}

\* An entry carries at least one pin per active request that borrows it, so
\* no eviction or clear can take it away under a running generation.
PinsCoverBorrowers ==
    \A r \in DOMAIN active_requests : \A k \in active_requests[r].borrowed_prefix :
        k \in DOMAIN entries /\ entries[k].pin_count >= Cardinality(Borrowers(k))

\* For as long as a request runs, the entry it borrows from still holds exactly
\* the prompt tokens that its reservation told it not to prefill.
BorrowedPrefixIntact ==
    \A r \in DOMAIN active_requests :
        LET active == active_requests[r]
        IN  \A k \in active.borrowed_prefix :
              /\ k \in DOMAIN entries
              /\ entries[k].tokens = SubSeq(active.prompt, 1, active.prefix_len)

\* Own pages plus the borrowed entry's pages are enough for the bytes the
\* request was admitted with: rounding and borrowing never under-reserve.
ReservationCoversEstimate ==
    \A r \in DOMAIN active_requests :
        LET active == active_requests[r]
        IN  Cardinality(active.owned_pages \cup PagesOf(active.borrowed_prefix)) * PageSize
              >= active.estimated_bytes

\* The prefix cache holds at most max_prefix_entries entries and `older' orders
\* them totally: last_accessed always names one eviction candidate.
EntriesBoundedAndOrdered ==
    /\ Cardinality(DOMAIN entries) <= MaxPrefixEntries
    /\ \A j, k \in DOMAIN entries : j # k => (<<j, k>> \in older <=> <<k, j>> \notin older)
    /\ \A k \in DOMAIN entries : <<k, k>> \notin older

\* Memory pressure evicts in LRU order and never under a pin: when an entry goes,
\* it was unpinned and every unpinned entry left untouched was used after it.
EvictsLeastRecent ==
    [][\A v \in DOMAIN entries \ DOMAIN entries' :
         /\ entries[v].pin_count = 0
         /\ \A k \in DOMAIN entries \cap DOMAIN entries' :
              entries[k].pin_count = 0 /\ entries'[k].pin_count = 0 => <<v, k>> \in older
      ]_vars

\* The pages of an active request change only by that request's own finish:
\* no other request, store, eviction or clear takes from it.
LeasesAreExclusive ==
    [][\A r \in DOMAIN active_requests :
         /\ r \in DOMAIN active_requests' => active_requests'[r] = active_requests[r]
         /\ r \notin DOMAIN active_requests' =>
              free_pages' = free_pages \cup active_requests[r].owned_pages]_vars

Pool == INSTANCE PagePool WITH
    Leases <- Requests,
    Slots  <- Keys,
    leased <- [r \in Requests |-> IF r \in DOMAIN active_requests
                                  THEN active_requests[r].owned_pages ELSE {}],
    cached <- [k \in Keys |-> IF k \in DOMAIN entries THEN entries[k].pages ELSE {}],
    free   <- free_pages

\* The manager implements the abstract page pool.
ImplementsPagePool == Pool!Spec

\* clear_prefixes on an idle manager leaves no entry behind, as its unit test
\* asserts after a request that borrowed a prefix has finished.
ClearWhenIdleEmpties ==
    [][ClearPrefixes /\ active_requests = << >> => entries' = << >>]_vars

\* What a request borrows is estimated at.
BorrowedBy(r) ==
    LET borrowed == active_requests[r].borrowed_prefix
    IN  IF borrowed = {} THEN 0 ELSE entries[CHOOSE k \in borrowed : TRUE].estimated_bytes

BorrowedBytes == SumFunction([r \in DOMAIN active_requests |-> BorrowedBy(r)])

\* The counters of stats agree: the pages in use pay for what requests and
\* prefixes are estimated at, except that borrowed bytes are counted in both
\* (total_used_bytes is documented as `active + prefix', which it is not).
StatsAddUp ==
    /\ Stats.total_used_bytes + BorrowedBytes >= Stats.active_request_bytes + Stats.prefix_bytes
    /\ Stats.total_used_bytes <= Stats.total_capacity_bytes
=============================================================================
