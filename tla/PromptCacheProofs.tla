------------------------ MODULE PromptCacheProofs ------------------------
(***************************************************************************)
(* Theorems about the prompt cache manager, for every set of prompts,      *)
(* pages and requests and every page size, entry limit and budget: who     *)
(* holds which page, pins, the eviction order, and what is counted.        *)
(***************************************************************************)
EXTENDS PromptCache, FoldProofs

-----------------------------------------------------------------------------
(***************************************************************************)
(* The manager with any caller.  ObservedBytes only bounds what TLC tries; *)
(* a caller may measure anything, as the threads of module Engine do, and  *)
(* everything below is proved whatever it measures.                        *)
(***************************************************************************)

ManagerNext ==
    \/ \E observed : \E prompt \in Prompts, max_tokens \in MaxTokens :
         BeginRequest(prompt, max_tokens, observed)
    \/ \E r \in Requests : FinishRequest(r)
    \/ \E prompt \in Prompts : StorePrefix(prompt)
    \/ ClearPrefixes

ManagerSpec == Init /\ [][ManagerNext]_vars

\* What callers of module PromptCache do is among what any caller does.
LEMMA SpecIsManagerSpec == Spec => ManagerSpec
<1>1. [Next]_vars => [ManagerNext]_vars
  BY DEF Next, ManagerNext
<1> QED
  BY <1>1, PTL DEF Spec, ManagerSpec

-----------------------------------------------------------------------------
(***************************************************************************)
(* Facts about the operators                                               *)
(***************************************************************************)

LEMMA NatProduct == \A m, n \in Nat : m * n \in Nat
  OBVIOUS

\* The longest prefix is an entry, and its tokens start the prompt.
LEMMA LongestPrefixIsEntry ==
  ASSUME NEW prompt
  PROVE  /\ FindLongestPrefixKey(prompt) \subseteq DOMAIN entries
         /\ FindLongestPrefixKey(prompt) \subseteq PrefixMatches(prompt)
  BY DEF FindLongestPrefixKey, PrefixMatches

\* Pinning keeps the domain and everything but pin counts.
LEMMA PinnedEntries ==
  ASSUME TypeOK, NEW borrowed, NEW k \in DOMAIN entries
  PROVE  /\ DOMAIN Pinned(borrowed) = DOMAIN entries
         /\ Pinned(borrowed)[k] \in Entry
         /\ Pinned(borrowed)[k].tokens = entries[k].tokens
         /\ Pinned(borrowed)[k].pages = entries[k].pages
         /\ Pinned(borrowed)[k].estimated_bytes = entries[k].estimated_bytes
         /\ Pinned(borrowed)[k].pin_count =
              IF k \in borrowed THEN entries[k].pin_count + 1 ELSE entries[k].pin_count
  BY DEF TypeOK, Entry, Pinned

\* Estimates are numbers of bytes.
LEMMA PrefixBytesType == \A prompt \in Prompts : PrefixBytes(prompt) \in Nat
  BY PromptAssumption, NatProduct, SizeAssumption DEF PrefixBytes

LEMMA EstimateType ==
  \A prompt \in Prompts, max_tokens \in MaxTokens :
     EstimatedBytes(prompt, max_tokens) \in Nat
<1>1. \A prompt \in Prompts, max_tokens \in MaxTokens : Len(prompt) + max_tokens \in Nat
  BY PromptAssumption, SizeAssumption
<1> QED
  BY <1>1, NatProduct, SizeAssumption DEF EstimatedBytes

LEMMA PrefixLenType ==
  ASSUME TypeOK, NEW borrowed \in SUBSET DOMAIN entries
  PROVE  PrefixLen(borrowed) \in Nat
<1>1. CASE borrowed = {}
  BY <1>1 DEF PrefixLen
<1>2. CASE borrowed # {}
  <2>1. (CHOOSE k \in borrowed : TRUE) \in DOMAIN entries
    BY <1>2
  <2>2. entries[CHOOSE k \in borrowed : TRUE].tokens \in Seq(Tokens)
    BY <2>1, PromptAssumption DEF TypeOK, Entry
  <2> QED
    BY <1>2, <2>2 DEF PrefixLen
<1> QED
  BY <1>1, <1>2

LEMMA PagesOfType ==
  ASSUME TypeOK, NEW ks \in SUBSET DOMAIN entries
  PROVE  PagesOf(ks) \subseteq Pages
  BY DEF TypeOK, Entry, PagesOf

\* Touch orders the entries it is told about.
LEMMA TouchType ==
  ASSUME TypeOK, NEW kept, NEW touched \in SUBSET kept, Touch(kept, touched)
  PROVE  older' \subseteq kept \X kept
  BY DEF TypeOK, Touch

-----------------------------------------------------------------------------
(***************************************************************************)
(* What each action does, once, for all the proofs below: which entries it *)
(* keeps, what becomes of their fields, and where the pages go.            *)
(***************************************************************************)

SameButPins(k) ==
    /\ entries'[k] \in Entry
    /\ entries'[k].tokens = entries[k].tokens
    /\ entries'[k].pages = entries[k].pages
    /\ entries'[k].estimated_bytes = entries[k].estimated_bytes

\* The entries kept lose no pin, the borrowed ones gain one.
KeepsEntries(kept, borrowed) ==
    /\ borrowed \subseteq kept
    /\ kept \subseteq DOMAIN entries
    /\ \A k \in DOMAIN entries \ kept : entries[k].pin_count = 0
    /\ DOMAIN entries' = kept
    /\ \A k \in kept :
         /\ SameButPins(k)
         /\ entries'[k].pin_count =
              IF k \in borrowed THEN entries[k].pin_count + 1 ELSE entries[k].pin_count
    /\ older' \subseteq kept \X kept

LEMMA PinAndEvict ==
  ASSUME TypeOK, NEW borrowed \in SUBSET DOMAIN entries,
         NEW victims \in SUBSET (Unpinned \ borrowed),
         entries' = Restrict(Pinned(borrowed), DOMAIN entries \ victims),
         Touch(DOMAIN entries \ victims, borrowed)
  PROVE  KeepsEntries(DOMAIN entries \ victims, borrowed)
<1> DEFINE kept == DOMAIN entries \ victims
<1>1. /\ borrowed \subseteq kept
      /\ \A k \in DOMAIN entries \ kept : entries[k].pin_count = 0
  BY DEF Unpinned
<1>2. DOMAIN entries' = kept /\ \A k \in kept : entries'[k] = Pinned(borrowed)[k]
  BY DEF Restrict
<1>3. older' \subseteq kept \X kept
  BY <1>1, TouchType
<1>4. ASSUME NEW k \in kept
      PROVE  /\ SameButPins(k)
             /\ entries'[k].pin_count =
                  IF k \in borrowed THEN entries[k].pin_count + 1 ELSE entries[k].pin_count
  <2>1. k \in DOMAIN entries /\ entries'[k] = Pinned(borrowed)[k]
    BY <1>2
  <2> QED
    BY <2>1, PinnedEntries DEF SameButPins
<1> HIDE DEF kept
<1>5. kept \subseteq DOMAIN entries
  BY DEF kept
<1>6. KeepsEntries(kept, borrowed)
  BY <1>1, <1>2, <1>3, <1>4, <1>5 DEF KeepsEntries
<1> QED
  BY <1>6 DEF kept

LEMMA BeginOverRuntimeBudgetEffect ==
  ASSUME TypeOK, NEW prompt \in Prompts, NEW max_tokens \in MaxTokens,
         NEW observed,
         BeginOverRuntimeBudget(prompt, max_tokens, observed)
  PROVE  /\ KeepsEntries(DOMAIN entries, FindLongestPrefixKey(prompt))
         /\ UNCHANGED <<active_requests, free_pages>>
<1> DEFINE borrowed == FindLongestPrefixKey(prompt)
<1>1. /\ entries' = Pinned(borrowed)
      /\ Touch(DOMAIN entries, borrowed)
      /\ UNCHANGED <<active_requests, free_pages>>
  BY DEF BeginOverRuntimeBudget
<1>2. borrowed \subseteq DOMAIN entries
  BY LongestPrefixIsEntry
<1>3. DOMAIN entries' = DOMAIN entries
  BY <1>1 DEF Pinned
<1>4. older' \subseteq (DOMAIN entries) \X (DOMAIN entries)
  BY <1>1, <1>2, TouchType
<1> QED
  BY <1>1, <1>2, <1>3, <1>4, PinnedEntries DEF KeepsEntries, SameButPins

LEMMA BeginNoPagesEffect ==
  ASSUME TypeOK, NEW prompt \in Prompts, NEW max_tokens \in MaxTokens,
         NEW observed,
         BeginNoPages(prompt, max_tokens, observed)
  PROVE  \E victims \in SUBSET DOMAIN entries :
            /\ KeepsEntries(DOMAIN entries \ victims, FindLongestPrefixKey(prompt))
            /\ free_pages' = free_pages \cup PagesOf(victims)
            /\ UNCHANGED active_requests
<1> DEFINE borrowed == FindLongestPrefixKey(prompt)
           victims  == Unpinned \ borrowed
<1>1. /\ free_pages' = free_pages \cup PagesOf(victims)
      /\ entries' = Restrict(Pinned(borrowed), DOMAIN entries \ victims)
      /\ Touch(DOMAIN entries \ victims, borrowed)
      /\ UNCHANGED active_requests
  BY DEF BeginNoPages
<1>2. borrowed \subseteq DOMAIN entries /\ victims \subseteq DOMAIN entries
  BY LongestPrefixIsEntry DEF Unpinned
<1>3. KeepsEntries(DOMAIN entries \ victims, borrowed)
  BY <1>1, <1>2, PinAndEvict
<1> QED
  BY <1>1, <1>2, <1>3

\* The reservation that begin_request records for an admitted request.
NewReservation(prompt, max_tokens, borrowed, owned) ==
    [owned_pages |-> owned, borrowed_prefix |-> borrowed,
     estimated_bytes |-> EstimatedBytes(prompt, max_tokens),
     prompt |-> prompt, prefix_len |-> PrefixLen(borrowed)]

Admits(r, reservation) ==
    /\ r \notin DOMAIN active_requests
    /\ DOMAIN active_requests' = DOMAIN active_requests \cup {r}
    /\ active_requests'[r] = reservation
    /\ \A q \in DOMAIN active_requests : active_requests'[q] = active_requests[q]

LEMMA BeginAdmittedEffect ==
  ASSUME TypeOK, NEW prompt \in Prompts, NEW max_tokens \in MaxTokens,
         NEW observed, NEW r \in Requests,
         BeginAdmitted(r, prompt, max_tokens, observed)
  PROVE  \E victims \in SUBSET DOMAIN entries, owned \in SUBSET Pages :
            /\ owned \subseteq free_pages \cup PagesOf(victims)
            /\ KeepsEntries(DOMAIN entries \ victims, FindLongestPrefixKey(prompt))
            /\ Cardinality(owned) = RequiredPages(prompt, max_tokens)
            /\ free_pages' = (free_pages \cup PagesOf(victims)) \ owned
            /\ Admits(r, NewReservation(prompt, max_tokens,
                                        FindLongestPrefixKey(prompt), owned))
<1> DEFINE borrowed == FindLongestPrefixKey(prompt)
<1>1. PICK victims \in SUBSET (Unpinned \ borrowed) :
        /\ r \notin DOMAIN active_requests
        /\ \E owned \in kSubset(RequiredPages(prompt, max_tokens),
                                free_pages \cup PagesOf(victims)) :
             /\ free_pages' = (free_pages \cup PagesOf(victims)) \ owned
             /\ active_requests' =
                  [q \in DOMAIN active_requests \cup {r} |->
                     IF q # r THEN active_requests[q] ELSE
                     NewReservation(prompt, max_tokens, borrowed, owned)]
        /\ entries' = Restrict(Pinned(borrowed), DOMAIN entries \ victims)
        /\ Touch(DOMAIN entries \ victims, borrowed)
  BY DEF BeginAdmitted, NewReservation
<1>2. PICK owned \in SUBSET (free_pages \cup PagesOf(victims)) :
        /\ Cardinality(owned) = RequiredPages(prompt, max_tokens)
        /\ free_pages' = (free_pages \cup PagesOf(victims)) \ owned
        /\ active_requests' =
             [q \in DOMAIN active_requests \cup {r} |->
                IF q # r THEN active_requests[q] ELSE
                NewReservation(prompt, max_tokens, borrowed, owned)]
  BY <1>1 DEF kSubset
<1>3. borrowed \subseteq DOMAIN entries /\ victims \in SUBSET DOMAIN entries
  BY LongestPrefixIsEntry DEF Unpinned
<1>4. KeepsEntries(DOMAIN entries \ victims, borrowed)
  BY <1>1, <1>3, PinAndEvict
<1>5. Admits(r, NewReservation(prompt, max_tokens, borrowed, owned))
  BY <1>1, <1>2 DEF Admits
<1>6. owned \in SUBSET Pages
  BY <1>2, <1>3, PagesOfType DEF TypeOK
<1> QED
  BY <1>2, <1>3, <1>4, <1>5, <1>6

LEMMA FinishRequestEffect ==
  ASSUME TypeOK, NEW r \in Requests, FinishRequest(r)
  PROVE  /\ r \in DOMAIN active_requests
         /\ DOMAIN entries' = DOMAIN entries
         /\ \A k \in DOMAIN entries :
              /\ SameButPins(k)
              /\ entries'[k].pin_count =
                   IF k \in active_requests[r].borrowed_prefix
                   THEN SaturatingDec(entries[k].pin_count)
                   ELSE entries[k].pin_count
         /\ older' \subseteq (DOMAIN entries) \X (DOMAIN entries)
         /\ free_pages' = free_pages \cup active_requests[r].owned_pages
         /\ DOMAIN active_requests' = DOMAIN active_requests \ {r}
         /\ \A q \in DOMAIN active_requests' : active_requests'[q] = active_requests[q]
<1> DEFINE borrowed == active_requests[r].borrowed_prefix \cap DOMAIN entries
<1>1. /\ r \in DOMAIN active_requests
      /\ entries' = [k \in DOMAIN entries |->
            IF k \in borrowed
            THEN [entries[k] EXCEPT !.pin_count = SaturatingDec(@)]
            ELSE entries[k]]
      /\ Touch(DOMAIN entries, borrowed)
      /\ free_pages' = free_pages \cup active_requests[r].owned_pages
      /\ active_requests' = Restrict(active_requests, DOMAIN active_requests \ {r})
  BY DEF FinishRequest
<1>2. \A k \in DOMAIN entries : SaturatingDec(entries[k].pin_count) \in Nat
  BY DEF TypeOK, Entry, SaturatingDec
<1>3. \A k \in DOMAIN entries :
        /\ SameButPins(k)
        /\ entries'[k].pin_count =
             IF k \in active_requests[r].borrowed_prefix
             THEN SaturatingDec(entries[k].pin_count)
             ELSE entries[k].pin_count
  BY <1>1, <1>2 DEF TypeOK, Entry, SameButPins
<1>4. older' \subseteq (DOMAIN entries) \X (DOMAIN entries)
  BY <1>1, TouchType
<1> QED
  BY <1>1, <1>3, <1>4 DEF Restrict

LEMMA StoreReplacedEffect ==
  ASSUME TypeOK, NEW prompt \in Prompts, StoreReplaced(prompt)
  PROVE  /\ UNCHANGED <<entries, active_requests, free_pages>>
         /\ older' \subseteq (DOMAIN entries) \X (DOMAIN entries)
<1>1. /\ Hash[prompt] \in DOMAIN entries
      /\ Touch(DOMAIN entries, {Hash[prompt]})
      /\ UNCHANGED <<entries, active_requests, free_pages>>
  BY DEF StoreReplaced, AlreadyStored
<1> QED
  BY <1>1, TouchType

LEMMA StoreInsertedEffect ==
  ASSUME TypeOK, NEW prompt \in Prompts, StoreInserted(prompt)
  PROVE  \E victims \in SUBSET Unpinned, owned \in SUBSET Pages :
            /\ owned \subseteq free_pages \cup PagesOf(victims)
            /\ ~AlreadyStored(prompt)
            /\ Room(victims, MaxPrefixEntries - 1, PagesForBytes(PrefixBytes(prompt)))
            /\ MaxPrefixEntries # 0
            /\ Cardinality(owned) = PagesForBytes(PrefixBytes(prompt))
            /\ free_pages' = (free_pages \cup PagesOf(victims)) \ owned
            /\ DOMAIN entries' = (DOMAIN entries \ victims) \cup {Hash[prompt]}
            /\ \A k \in DOMAIN entries \ victims :
                 k # Hash[prompt] => entries'[k] = entries[k]
            /\ entries'[Hash[prompt]] =
                 [tokens |-> prompt, pages |-> owned,
                  estimated_bytes |-> PrefixBytes(prompt), pin_count |-> 0]
            /\ older' \subseteq (DOMAIN entries') \X (DOMAIN entries')
            /\ UNCHANGED active_requests
<1> DEFINE key == Hash[prompt]
<1>1. PICK victims \in SUBSET Unpinned :
        /\ Cacheable(prompt)
        /\ ~AlreadyStored(prompt)
        /\ Room(victims, MaxPrefixEntries - 1, PagesForBytes(PrefixBytes(prompt)))
        /\ \E owned \in kSubset(PagesForBytes(PrefixBytes(prompt)),
                                free_pages \cup PagesOf(victims)) :
             /\ free_pages' = (free_pages \cup PagesOf(victims)) \ owned
             /\ entries' = [k \in (DOMAIN entries \ victims) \cup {key} |->
                  IF k # key THEN entries[k] ELSE
                  [tokens |-> prompt, pages |-> owned,
                   estimated_bytes |-> PrefixBytes(prompt), pin_count |-> 0]]
        /\ Touch((DOMAIN entries \ victims) \cup {key}, {key})
        /\ UNCHANGED active_requests
  BY DEF StoreInserted
<1>2. PICK owned \in SUBSET (free_pages \cup PagesOf(victims)) :
        /\ Cardinality(owned) = PagesForBytes(PrefixBytes(prompt))
        /\ free_pages' = (free_pages \cup PagesOf(victims)) \ owned
        /\ entries' = [k \in (DOMAIN entries \ victims) \cup {key} |->
             IF k # key THEN entries[k] ELSE
             [tokens |-> prompt, pages |-> owned,
              estimated_bytes |-> PrefixBytes(prompt), pin_count |-> 0]]
  BY <1>1 DEF kSubset
<1>3. older' \subseteq (DOMAIN entries') \X (DOMAIN entries')
  BY <1>1, <1>2, TouchType
<1>4. owned \in SUBSET Pages
  BY <1>2, PagesOfType DEF TypeOK, Unpinned
<1> QED
  BY <1>1, <1>2, <1>3, <1>4 DEF Cacheable

\* Giving up and clearing both evict every unpinned entry.
EvictsAllUnpinned ==
    /\ KeepsEntries(DOMAIN entries \ Unpinned, {})
    /\ free_pages' = free_pages \cup PagesOf(Unpinned)
    /\ UNCHANGED active_requests

LEMMA EvictAllEffect ==
  ASSUME TypeOK, (\E prompt \in Prompts : StoreGivesUp(prompt)) \/ ClearPrefixes
  PROVE  EvictsAllUnpinned
<1>1. /\ free_pages' = free_pages \cup PagesOf(Unpinned)
      /\ entries' = Restrict(entries, DOMAIN entries \ Unpinned)
      /\ Touch(DOMAIN entries \ Unpinned, {})
      /\ UNCHANGED active_requests
  BY DEF StoreGivesUp, ClearPrefixes
<1>2. older' \subseteq (DOMAIN entries \ Unpinned) \X (DOMAIN entries \ Unpinned)
  BY <1>1, TouchType
<1>3. \A k \in DOMAIN entries \ Unpinned : SameButPins(k) /\ entries'[k] = entries[k]
  BY <1>1 DEF SameButPins, Restrict, TypeOK
<1> QED
  BY <1>1, <1>2, <1>3 DEF EvictsAllUnpinned, KeepsEntries, Restrict, Unpinned

-----------------------------------------------------------------------------
(***************************************************************************)
(* Type correctness                                                        *)
(***************************************************************************)

LEMMA KeepsEntriesType ==
  ASSUME TypeOK, NEW kept, NEW borrowed, KeepsEntries(kept, borrowed)
  PROVE  /\ DOMAIN entries' \subseteq Keys
         /\ \A k \in DOMAIN entries' : entries'[k] \in Entry
         /\ older' \subseteq (DOMAIN entries') \X (DOMAIN entries')
  BY DEF KeepsEntries, SameButPins, TypeOK

LEMMA NewReservationType ==
  ASSUME TypeOK, NEW prompt \in Prompts, NEW max_tokens \in MaxTokens,
         NEW borrowed \in SUBSET DOMAIN entries, NEW owned \in SUBSET Pages
  PROVE  NewReservation(prompt, max_tokens, borrowed, owned) \in Reservation
<1>1. borrowed \in SUBSET Keys
  BY DEF TypeOK
<1>2. EstimatedBytes(prompt, max_tokens) \in Nat /\ PrefixLen(borrowed) \in Nat
  BY EstimateType, PrefixLenType
<1> QED
  BY <1>1, <1>2 DEF NewReservation, Reservation

LEMMA TypeStep == TypeOK /\ [ManagerNext]_vars => TypeOK'
<1> SUFFICES ASSUME TypeOK, [ManagerNext]_vars PROVE TypeOK'
  OBVIOUS
<1>1. ASSUME NEW prompt \in Prompts, NEW max_tokens \in MaxTokens,
             BeginOverBudget(prompt, max_tokens)
      PROVE  TypeOK'
  BY <1>1 DEF BeginOverBudget, TypeOK, vars
<1>2. ASSUME NEW prompt \in Prompts, NEW max_tokens \in MaxTokens,
             NEW observed,
             BeginOverRuntimeBudget(prompt, max_tokens, observed)
      PROVE  TypeOK'
  <2>1. /\ KeepsEntries(DOMAIN entries, FindLongestPrefixKey(prompt))
        /\ UNCHANGED <<active_requests, free_pages>>
    BY <1>2, BeginOverRuntimeBudgetEffect
  <2> QED
    BY <2>1, KeepsEntriesType DEF TypeOK
<1>3. ASSUME NEW prompt \in Prompts, NEW max_tokens \in MaxTokens,
             NEW observed,
             BeginNoPages(prompt, max_tokens, observed)
      PROVE  TypeOK'
  <2>1. PICK victims \in SUBSET DOMAIN entries :
           /\ KeepsEntries(DOMAIN entries \ victims, FindLongestPrefixKey(prompt))
           /\ free_pages' = free_pages \cup PagesOf(victims)
           /\ UNCHANGED active_requests
    BY <1>3, BeginNoPagesEffect
  <2>2. PagesOf(victims) \subseteq Pages
    BY PagesOfType
  <2> QED
    BY <2>1, <2>2, KeepsEntriesType DEF TypeOK
<1>4. ASSUME NEW prompt \in Prompts, NEW max_tokens \in MaxTokens,
             NEW observed, NEW r \in Requests,
             BeginAdmitted(r, prompt, max_tokens, observed)
      PROVE  TypeOK'
  <2> DEFINE borrowed == FindLongestPrefixKey(prompt)
  <2>1. PICK victims \in SUBSET DOMAIN entries, owned \in SUBSET Pages :
           /\ owned \subseteq free_pages \cup PagesOf(victims)
           /\ KeepsEntries(DOMAIN entries \ victims, borrowed)
           /\ free_pages' = (free_pages \cup PagesOf(victims)) \ owned
           /\ Admits(r, NewReservation(prompt, max_tokens, borrowed, owned))
    BY <1>4, BeginAdmittedEffect
  <2>2. free_pages' \subseteq Pages
    BY <2>1, PagesOfType DEF TypeOK
  <2>3. borrowed \subseteq DOMAIN entries
    BY LongestPrefixIsEntry
  <2>4. NewReservation(prompt, max_tokens, borrowed, owned) \in Reservation
    BY <2>2, <2>3, NewReservationType
  <2>5. /\ DOMAIN active_requests' \subseteq Requests
        /\ \A q \in DOMAIN active_requests' : active_requests'[q] \in Reservation
    BY <2>1, <2>4 DEF Admits, TypeOK
  <2> QED
    BY <2>1, <2>2, <2>5, KeepsEntriesType DEF TypeOK
<1>5. ASSUME NEW r \in Requests, FinishRequest(r)
      PROVE  TypeOK'
  BY <1>5, FinishRequestEffect DEF TypeOK, SameButPins, Reservation
<1>6. ASSUME NEW prompt \in Prompts, StoreSkipped(prompt)
      PROVE  TypeOK'
  BY <1>6 DEF StoreSkipped, TypeOK, vars
<1>7. ASSUME NEW prompt \in Prompts, StoreReplaced(prompt)
      PROVE  TypeOK'
  BY <1>7, StoreReplacedEffect DEF TypeOK
<1>8. ASSUME NEW prompt \in Prompts, StoreInserted(prompt)
      PROVE  TypeOK'
  <2>1. PICK victims \in SUBSET Unpinned, owned \in SUBSET Pages :
            /\ owned \subseteq free_pages \cup PagesOf(victims)
            /\ free_pages' = (free_pages \cup PagesOf(victims)) \ owned
            /\ DOMAIN entries' = (DOMAIN entries \ victims) \cup {Hash[prompt]}
            /\ \A k \in DOMAIN entries \ victims :
                 k # Hash[prompt] => entries'[k] = entries[k]
            /\ entries'[Hash[prompt]] =
                 [tokens |-> prompt, pages |-> owned,
                  estimated_bytes |-> PrefixBytes(prompt), pin_count |-> 0]
            /\ older' \subseteq (DOMAIN entries') \X (DOMAIN entries')
            /\ UNCHANGED active_requests
    BY <1>8, StoreInsertedEffect
  <2>2. free_pages' \subseteq Pages
    BY <2>1, PagesOfType DEF TypeOK, Unpinned
  <2>3. Hash[prompt] \in Keys
    BY HashAssumption
  <2>4. entries'[Hash[prompt]] \in Entry
    <3>1. PrefixBytes(prompt) \in Nat
      BY PrefixBytesType
    <3> QED BY <2>1, <2>2, <3>1 DEF Entry
  <2>5. DOMAIN entries' \subseteq Keys /\ \A k \in DOMAIN entries' : entries'[k] \in Entry
    BY <2>1, <2>3, <2>4 DEF TypeOK
  <2> QED
    BY <2>1, <2>2, <2>5 DEF TypeOK
<1>9. ASSUME (\E prompt \in Prompts : StoreGivesUp(prompt)) \/ ClearPrefixes
      PROVE  TypeOK'
  <2>1. EvictsAllUnpinned
    BY <1>9, EvictAllEffect
  <2>2. PagesOf(Unpinned) \subseteq Pages
    BY PagesOfType DEF Unpinned
  <2> QED
    BY <2>1, <2>2, KeepsEntriesType DEF EvictsAllUnpinned, TypeOK
<1>10. CASE UNCHANGED vars
  BY <1>10 DEF TypeOK, vars
<1> QED
  BY <1>1, <1>2, <1>3, <1>4, <1>5, <1>6, <1>7, <1>8, <1>9, <1>10
     DEF ManagerNext, BeginRequest, StorePrefix

\* The state of the manager always has the types its fields declare: keys,
\* pages and counts in range, recency only between cached entries.
LEMMA ManagerType == ManagerSpec => []TypeOK
<1>1. Init => TypeOK
  BY DEF Init, TypeOK
<1> QED
  BY <1>1, TypeStep, PTL DEF ManagerSpec

-----------------------------------------------------------------------------
(***************************************************************************)
(* Pages.  Every step moves pages in one of four ways; each keeps them     *)
(* apart, and each but the overwriting of a colliding entry loses none.    *)
(***************************************************************************)

LeasedPages == UNION {active_requests[r].owned_pages : r \in DOMAIN active_requests}

KeepsPages(kept) ==
    \A k \in kept : k \in DOMAIN entries /\ entries'[k].pages = entries[k].pages

\* Evict some entries and lease some of the pages, possibly none, to r.
EvictAndLease(victims, r, owned) ==
    /\ victims \subseteq DOMAIN entries
    /\ owned \subseteq free_pages \cup PagesOf(victims)
    /\ free_pages' = (free_pages \cup PagesOf(victims)) \ owned
    /\ DOMAIN entries' = DOMAIN entries \ victims
    /\ KeepsPages(DOMAIN entries')
    /\ r \notin DOMAIN active_requests
    /\ DOMAIN active_requests' = DOMAIN active_requests \cup {r}
    /\ active_requests'[r].owned_pages = owned
    /\ \A q \in DOMAIN active_requests : active_requests'[q] = active_requests[q]

EvictOnly(victims) ==
    /\ victims \subseteq DOMAIN entries
    /\ free_pages' = free_pages \cup PagesOf(victims)
    /\ DOMAIN entries' = DOMAIN entries \ victims
    /\ KeepsPages(DOMAIN entries')
    /\ UNCHANGED active_requests

EvictAndFill(victims, key, owned) ==
    /\ victims \subseteq DOMAIN entries
    /\ owned \subseteq free_pages \cup PagesOf(victims)
    /\ free_pages' = (free_pages \cup PagesOf(victims)) \ owned
    /\ DOMAIN entries' = (DOMAIN entries \ victims) \cup {key}
    /\ entries'[key].pages = owned
    /\ KeepsPages(DOMAIN entries' \ {key})
    /\ UNCHANGED active_requests

ReleaseLease(r) ==
    /\ r \in DOMAIN active_requests
    /\ free_pages' = free_pages \cup active_requests[r].owned_pages
    /\ DOMAIN entries' = DOMAIN entries
    /\ KeepsPages(DOMAIN entries)
    /\ DOMAIN active_requests' = DOMAIN active_requests \ {r}
    /\ \A q \in DOMAIN active_requests' : active_requests'[q] = active_requests[q]

LEMMA KeepsEntriesPages ==
  ASSUME NEW kept, NEW borrowed, KeepsEntries(kept, borrowed)
  PROVE  DOMAIN entries' = kept /\ KeepsPages(kept)
  BY DEF KeepsEntries, SameButPins, KeepsPages

\* Every step is one of the four moves; a fill overwrites an entry only if the
\* entry's hash collides with another prompt's.
LEMMA PageMoves ==
  ASSUME TypeOK, [ManagerNext]_vars
  PROVE  \/ \E victims \in SUBSET DOMAIN entries, r \in Requests, owned \in SUBSET Pages :
              EvictAndLease(victims, r, owned)
         \/ \E victims \in SUBSET DOMAIN entries : EvictOnly(victims)
         \/ \E victims \in SUBSET DOMAIN entries, prompt \in Prompts, owned \in SUBSET Pages :
              /\ EvictAndFill(victims, Hash[prompt], owned)
              /\ Hash[prompt] \in DOMAIN entries =>
                   entries[Hash[prompt]].tokens # prompt
         \/ \E r \in Requests : ReleaseLease(r)
<1>1. ASSUME UNCHANGED <<entries, active_requests, free_pages>>
      PROVE  EvictOnly({})
  BY <1>1 DEF EvictOnly, PagesOf, KeepsPages
<1>2. CASE UNCHANGED vars
  BY <1>1, <1>2 DEF vars
<1>3. ASSUME NEW prompt \in Prompts, NEW max_tokens \in MaxTokens,
             BeginOverBudget(prompt, max_tokens)
      PROVE  EvictOnly({})
  BY <1>1, <1>3 DEF BeginOverBudget, vars
<1>4. ASSUME NEW prompt \in Prompts, NEW max_tokens \in MaxTokens,
             NEW observed,
             BeginOverRuntimeBudget(prompt, max_tokens, observed)
      PROVE  EvictOnly({})
  <2>1. /\ KeepsEntries(DOMAIN entries, FindLongestPrefixKey(prompt))
        /\ UNCHANGED <<active_requests, free_pages>>
    BY <1>4, BeginOverRuntimeBudgetEffect
  <2> QED
    BY <2>1, KeepsEntriesPages DEF EvictOnly, PagesOf
<1>5. ASSUME NEW prompt \in Prompts, NEW max_tokens \in MaxTokens,
             NEW observed,
             BeginNoPages(prompt, max_tokens, observed)
      PROVE  \E victims \in SUBSET DOMAIN entries : EvictOnly(victims)
  <2>1. PICK victims \in SUBSET DOMAIN entries :
           /\ KeepsEntries(DOMAIN entries \ victims, FindLongestPrefixKey(prompt))
           /\ free_pages' = free_pages \cup PagesOf(victims)
           /\ UNCHANGED active_requests
    BY <1>5, BeginNoPagesEffect
  <2>2. EvictOnly(victims)
    BY <2>1, KeepsEntriesPages DEF EvictOnly
  <2> QED
    BY <2>2
<1>6. ASSUME NEW prompt \in Prompts, NEW max_tokens \in MaxTokens,
             NEW observed, NEW r \in Requests,
             BeginAdmitted(r, prompt, max_tokens, observed)
      PROVE  \E victims \in SUBSET DOMAIN entries, owned \in SUBSET Pages :
               EvictAndLease(victims, r, owned)
  <2> DEFINE borrowed == FindLongestPrefixKey(prompt)
  <2>1. PICK victims \in SUBSET DOMAIN entries, owned \in SUBSET Pages :
           /\ owned \subseteq free_pages \cup PagesOf(victims)
           /\ KeepsEntries(DOMAIN entries \ victims, borrowed)
           /\ free_pages' = (free_pages \cup PagesOf(victims)) \ owned
           /\ Admits(r, NewReservation(prompt, max_tokens, borrowed, owned))
    BY <1>6, BeginAdmittedEffect
  <2>2. DOMAIN entries' = DOMAIN entries \ victims /\ KeepsPages(DOMAIN entries \ victims)
    BY <2>1, KeepsEntriesPages
  <2>3. EvictAndLease(victims, r, owned)
    BY <2>1, <2>2 DEF EvictAndLease, Admits, NewReservation
  <2> QED
    BY <2>3
<1>7. ASSUME NEW r \in Requests, FinishRequest(r)
      PROVE  ReleaseLease(r)
  BY <1>7, FinishRequestEffect DEF ReleaseLease, KeepsPages, SameButPins
<1>8. ASSUME NEW prompt \in Prompts, StoreSkipped(prompt) \/ StoreReplaced(prompt)
      PROVE  EvictOnly({})
  BY <1>1, <1>8, StoreReplacedEffect DEF StoreSkipped, vars
<1>9. ASSUME NEW prompt \in Prompts, StoreInserted(prompt)
      PROVE  \E victims \in SUBSET DOMAIN entries, owned \in SUBSET Pages :
              /\ EvictAndFill(victims, Hash[prompt], owned)
              /\ Hash[prompt] \in DOMAIN entries =>
                   entries[Hash[prompt]].tokens # prompt
  <2>1. PICK victims \in SUBSET Unpinned, owned \in SUBSET Pages :
            /\ owned \subseteq free_pages \cup PagesOf(victims)
            /\ ~AlreadyStored(prompt)
            /\ free_pages' = (free_pages \cup PagesOf(victims)) \ owned
            /\ DOMAIN entries' = (DOMAIN entries \ victims) \cup {Hash[prompt]}
            /\ \A k \in DOMAIN entries \ victims :
                 k # Hash[prompt] => entries'[k] = entries[k]
            /\ entries'[Hash[prompt]] =
                 [tokens |-> prompt, pages |-> owned,
                  estimated_bytes |-> PrefixBytes(prompt), pin_count |-> 0]
            /\ UNCHANGED active_requests
    BY <1>9, StoreInsertedEffect
  <2>2. victims \in SUBSET DOMAIN entries
    BY DEF Unpinned
  <2>3. EvictAndFill(victims, Hash[prompt], owned)
    BY <2>1, <2>2 DEF EvictAndFill, KeepsPages
  <2> QED
    BY <2>1, <2>2, <2>3 DEF AlreadyStored
<1>10. ASSUME (\E prompt \in Prompts : StoreGivesUp(prompt)) \/ ClearPrefixes
       PROVE  EvictOnly(Unpinned) /\ Unpinned \in SUBSET DOMAIN entries
  <2>1. EvictsAllUnpinned
    BY <1>10, EvictAllEffect
  <2>2. Unpinned \subseteq DOMAIN entries
    BY DEF Unpinned
  <2> QED
    BY <2>1, <2>2, KeepsEntriesPages DEF EvictsAllUnpinned, EvictOnly
<1> QED
  BY <1>2, <1>1, <1>3, <1>4, <1>5, <1>6, <1>7, <1>8, <1>9, <1>10
     DEF ManagerNext, BeginRequest, StorePrefix

LEMMA ApartStep ==
  ASSUME TypeOK, NoPageHeldTwice, [ManagerNext]_vars
  PROVE  NoPageHeldTwice'
<1>1. ASSUME NEW victims \in SUBSET DOMAIN entries, NEW r \in Requests,
             NEW owned \in SUBSET Pages, EvictAndLease(victims, r, owned)
      PROVE  NoPageHeldTwice'
  BY <1>1 DEF EvictAndLease, KeepsPages, PagesOf, NoPageHeldTwice
<1>2. ASSUME NEW victims \in SUBSET DOMAIN entries, EvictOnly(victims)
      PROVE  NoPageHeldTwice'
  BY <1>2 DEF EvictOnly, KeepsPages, PagesOf, NoPageHeldTwice
<1>3. ASSUME NEW victims \in SUBSET DOMAIN entries, NEW key,
             NEW owned \in SUBSET Pages, EvictAndFill(victims, key, owned)
      PROVE  NoPageHeldTwice'
  BY <1>3 DEF EvictAndFill, KeepsPages, PagesOf, NoPageHeldTwice
<1>4. ASSUME NEW r \in Requests, ReleaseLease(r)
      PROVE  NoPageHeldTwice'
  BY <1>4 DEF ReleaseLease, KeepsPages, NoPageHeldTwice
<1> QED
  BY <1>1, <1>2, <1>3, <1>4, PageMoves

\* No page is ever held twice: not by two requests, two entries, a request and
\* an entry, or a holder and the free list.  Holds even if hashes collide.
LEMMA ManagerPagesApart == ManagerSpec => []NoPageHeldTwice
<1>1. Init => NoPageHeldTwice
  BY DEF Init, NoPageHeldTwice
<1>2. TypeOK /\ NoPageHeldTwice /\ [ManagerNext]_vars => NoPageHeldTwice'
  BY ApartStep
<1> QED
  BY <1>1, <1>2, ManagerType, PTL DEF ManagerSpec

-----------------------------------------------------------------------------
(***************************************************************************)
(* Keys.  An entry sits under the hash of its own tokens, so with distinct *)
(* hashes an insertion never finds its key taken.                          *)
(***************************************************************************)

KeyedByHash == \A k \in DOMAIN entries : Hash[entries[k].tokens] = k

\* An entry that outlives a step keeps its tokens, a new one has its own key.
LEMMA TokensStay ==
  ASSUME TypeOK, [ManagerNext]_vars, NEW k \in DOMAIN entries'
  PROVE  \/ k \in DOMAIN entries /\ entries'[k].tokens = entries[k].tokens
         \/ k = Hash[entries'[k].tokens]
<1>1. ASSUME NEW kept, NEW borrowed, KeepsEntries(kept, borrowed)
      PROVE  k \in DOMAIN entries /\ entries'[k].tokens = entries[k].tokens
  BY <1>1 DEF KeepsEntries, SameButPins
<1>2. ASSUME NEW prompt \in Prompts, NEW max_tokens \in MaxTokens,
             NEW observed, BeginRequest(prompt, max_tokens, observed)
      PROVE  k \in DOMAIN entries /\ entries'[k].tokens = entries[k].tokens
  BY <1>1, <1>2, BeginOverRuntimeBudgetEffect, BeginNoPagesEffect, BeginAdmittedEffect
     DEF BeginRequest, BeginOverBudget, vars
<1>3. ASSUME NEW r \in Requests, FinishRequest(r)
      PROVE  k \in DOMAIN entries /\ entries'[k].tokens = entries[k].tokens
  BY <1>3, FinishRequestEffect DEF SameButPins
<1>4. ASSUME NEW prompt \in Prompts, StoreInserted(prompt)
      PROVE  \/ k \in DOMAIN entries /\ entries'[k].tokens = entries[k].tokens
             \/ k = Hash[entries'[k].tokens]
  <2>1. PICK victims \in SUBSET Unpinned, owned \in SUBSET Pages :
            /\ DOMAIN entries' = (DOMAIN entries \ victims) \cup {Hash[prompt]}
            /\ \A j \in DOMAIN entries \ victims :
                 j # Hash[prompt] => entries'[j] = entries[j]
            /\ entries'[Hash[prompt]] =
                 [tokens |-> prompt, pages |-> owned,
                  estimated_bytes |-> PrefixBytes(prompt), pin_count |-> 0]
    BY <1>4, StoreInsertedEffect
  <2>2. CASE k = Hash[prompt]
    BY <2>1, <2>2
  <2>3. CASE k # Hash[prompt]
    BY <2>1, <2>3
  <2> QED
    BY <2>2, <2>3
<1>5. ASSUME NEW prompt \in Prompts, StoreSkipped(prompt) \/ StoreReplaced(prompt)
      PROVE  k \in DOMAIN entries /\ entries'[k].tokens = entries[k].tokens
  BY <1>5, StoreReplacedEffect DEF StoreSkipped, vars
<1>6. ASSUME (\E prompt \in Prompts : StoreGivesUp(prompt)) \/ ClearPrefixes
      PROVE  k \in DOMAIN entries /\ entries'[k].tokens = entries[k].tokens
  BY <1>1, <1>6, EvictAllEffect DEF EvictsAllUnpinned
<1>7. CASE UNCHANGED vars
  BY <1>7 DEF vars
<1>8. ASSUME NEW prompt \in Prompts, StorePrefix(prompt)
      PROVE  \/ k \in DOMAIN entries /\ entries'[k].tokens = entries[k].tokens
             \/ k = Hash[entries'[k].tokens]
  BY <1>4, <1>5, <1>6, <1>8 DEF StorePrefix
<1> QED
  BY <1>2, <1>3, <1>6, <1>7, <1>8 DEF ManagerNext

LEMMA KeysCorrect == ManagerSpec => []KeyedByHash
<1>1. Init => KeyedByHash
  BY DEF Init, KeyedByHash
<1>2. TypeOK /\ KeyedByHash /\ [ManagerNext]_vars => KeyedByHash'
  BY TokensStay DEF KeyedByHash
<1> QED
  BY <1>1, <1>2, ManagerType, PTL DEF ManagerSpec

\* With distinct hashes, an entry found under the hash of a prompt is that
\* prompt's, so whatever is not already stored has a free key.
LEMMA FreshKey ==
  ASSUME HashInjective, TypeOK, KeyedByHash, NEW prompt \in Prompts,
         Hash[prompt] \in DOMAIN entries
  PROVE  entries[Hash[prompt]].tokens = prompt
<1>1. entries[Hash[prompt]].tokens \in Prompts
  BY DEF TypeOK, Entry
<1> QED
  BY <1>1 DEF HashInjective, KeyedByHash

LEMMA NoLossStep ==
  ASSUME HashInjective, TypeOK, KeyedByHash, NoPageLost, [ManagerNext]_vars
  PROVE  NoPageLost'
<1>1. ASSUME NEW victims \in SUBSET DOMAIN entries, NEW r \in Requests,
             NEW owned \in SUBSET Pages, EvictAndLease(victims, r, owned)
      PROVE  NoPageLost'
  BY <1>1 DEF EvictAndLease, KeepsPages, PagesOf, NoPageLost
<1>2. ASSUME NEW victims \in SUBSET DOMAIN entries, EvictOnly(victims)
      PROVE  NoPageLost'
  BY <1>2 DEF EvictOnly, KeepsPages, PagesOf, NoPageLost
<1>3. ASSUME NEW victims \in SUBSET DOMAIN entries, NEW key,
             NEW owned \in SUBSET Pages, EvictAndFill(victims, key, owned),
             key \notin DOMAIN entries
      PROVE  NoPageLost'
  BY <1>3 DEF EvictAndFill, KeepsPages, PagesOf, NoPageLost
<1>4. ASSUME NEW r \in Requests, ReleaseLease(r)
      PROVE  NoPageLost'
  BY <1>4 DEF ReleaseLease, KeepsPages, PagesOf, NoPageLost
<1> QED
  BY <1>1, <1>2, <1>3, <1>4, PageMoves, FreshKey

\* Every page is accounted for: free, in an entry, or with an active request.
\* Together with PagesHeldOnce, the page table never shrinks.
LEMMA ManagerPagesKept == HashInjective => (ManagerSpec => []NoPageLost)
<1> SUFFICES ASSUME HashInjective PROVE ManagerSpec => []NoPageLost
  OBVIOUS
<1>1. Init => NoPageLost
  BY DEF Init, NoPageLost, PagesOf
<1>2. TypeOK /\ KeyedByHash /\ NoPageLost /\ [ManagerNext]_vars => NoPageLost'
  BY NoLossStep
<1> QED
  BY <1>1, <1>2, ManagerType, KeysCorrect, PTL DEF ManagerSpec

-----------------------------------------------------------------------------
(***************************************************************************)
(* Pins                                                                    *)
(***************************************************************************)

LEMMA BorrowersFinite ==
  ASSUME TypeOK, NEW k
  PROVE  /\ IsFiniteSet(Borrowers(k))
         /\ Cardinality(Borrowers(k)) \in Nat
<1>1. Borrowers(k) \subseteq Requests
  BY DEF Borrowers, TypeOK
<1> QED
  BY <1>1, RequestAssumption, FS_Subset, FS_CardinalityType

\* The same invariant seen from the entries: also those nobody borrows.
LEMMA PinsOfEntries ==
  ASSUME TypeOK, PinsCoverBorrowers, NEW k \in DOMAIN entries
  PROVE  entries[k].pin_count >= Cardinality(Borrowers(k))
<1>1. CASE Borrowers(k) = {}
  <2>1. Cardinality(Borrowers(k)) = 0
    BY <1>1, FS_EmptySet
  <2> QED
    BY <2>1 DEF TypeOK, Entry
<1>2. CASE Borrowers(k) # {}
  BY <1>2 DEF PinsCoverBorrowers, Borrowers
<1> QED
  BY <1>1, <1>2

\* Somebody borrows the entry, so it has a pin.
LEMMA BorrowedIsPinned ==
  ASSUME TypeOK, PinsCoverBorrowers, NEW r \in DOMAIN active_requests,
         NEW k \in active_requests[r].borrowed_prefix
  PROVE  k \in DOMAIN entries /\ entries[k].pin_count # 0
<1>1. r \in Borrowers(k)
  BY DEF Borrowers
<1>2. Cardinality(Borrowers(k)) # 0
  BY <1>1, BorrowersFinite, FS_EmptySet
<1>3. k \in DOMAIN entries /\ entries[k].pin_count >= Cardinality(Borrowers(k))
  BY DEF PinsCoverBorrowers
<1> QED
  BY <1>2, <1>3, BorrowersFinite DEF TypeOK, Entry

\* No call but the request's own finish takes pins away from what it borrows.
LEMMA PinsKept ==
  ASSUME TypeOK, PinsCoverBorrowers, UNCHANGED active_requests,
         \A k \in DOMAIN entries :
            entries[k].pin_count # 0 =>
               /\ k \in DOMAIN entries'
               /\ entries'[k].pin_count \in Nat
               /\ entries'[k].pin_count >= entries[k].pin_count
  PROVE  PinsCoverBorrowers'
<1> SUFFICES ASSUME NEW r \in DOMAIN active_requests,
                    NEW k \in active_requests[r].borrowed_prefix
             PROVE  /\ k \in DOMAIN entries'
                    /\ entries'[k].pin_count >= Cardinality(Borrowers(k)')
  BY DEF PinsCoverBorrowers
<1>1. k \in DOMAIN entries /\ entries[k].pin_count # 0
  BY BorrowedIsPinned
<1>2. entries[k].pin_count >= Cardinality(Borrowers(k))
  BY DEF PinsCoverBorrowers
<1>3. Borrowers(k)' = Borrowers(k)
  BY DEF Borrowers
<1> QED
  BY <1>1, <1>2, <1>3, BorrowersFinite DEF TypeOK, Entry

LEMMA KeepsEntriesPins ==
  ASSUME TypeOK, NEW kept, NEW borrowed, KeepsEntries(kept, borrowed),
         NEW k \in DOMAIN entries, entries[k].pin_count # 0
  PROVE  /\ k \in DOMAIN entries'
         /\ entries'[k].pin_count \in Nat
         /\ entries'[k].pin_count >= entries[k].pin_count
  BY DEF KeepsEntries, SameButPins, TypeOK, Entry

LEMMA PinsAdmitted ==
  ASSUME TypeOK, PinsCoverBorrowers, NEW kept, NEW borrowed,
         KeepsEntries(kept, borrowed), NEW r \in Requests, NEW reservation,
         reservation.borrowed_prefix = borrowed, Admits(r, reservation)
  PROVE  PinsCoverBorrowers'
<1> SUFFICES ASSUME NEW q \in DOMAIN active_requests',
                    NEW k \in active_requests'[q].borrowed_prefix
             PROVE  /\ k \in DOMAIN entries'
                    /\ entries'[k].pin_count >= Cardinality(Borrowers(k)')
  BY DEF PinsCoverBorrowers
<1>1. k \in DOMAIN entries
  BY BorrowedIsPinned DEF Admits, KeepsEntries
<1>2. entries[k].pin_count >= Cardinality(Borrowers(k)) /\ entries[k].pin_count \in Nat
  BY <1>1, PinsOfEntries DEF TypeOK, Entry
<1>3. CASE k \in borrowed
  <2>1. k \in DOMAIN entries' /\ entries'[k].pin_count = entries[k].pin_count + 1
    BY <1>3 DEF KeepsEntries
  <2>2. Borrowers(k)' = Borrowers(k) \cup {r}
    BY <1>3 DEF Borrowers, Admits
  <2>3. Cardinality(Borrowers(k)') <= Cardinality(Borrowers(k)) + 1
    BY <2>2, BorrowersFinite, FS_AddElement
  <2>4. Cardinality(Borrowers(k)') \in Nat
    BY <2>2, BorrowersFinite, FS_AddElement, FS_CardinalityType
  <2> QED
    BY <1>2, <2>1, <2>3, <2>4, BorrowersFinite
<1>4. CASE k \notin borrowed
  <2>1. q \in DOMAIN active_requests /\ k \in active_requests[q].borrowed_prefix
    BY <1>4 DEF Admits
  <2>2. entries[k].pin_count # 0
    BY <2>1, BorrowedIsPinned
  <2>3. Borrowers(k)' = Borrowers(k)
    BY <1>4 DEF Borrowers, Admits
  <2> QED
    BY <1>1, <1>2, <2>2, <2>3, KeepsEntriesPins, BorrowersFinite
<1> QED
  BY <1>3, <1>4

LEMMA PinsFinished ==
  ASSUME TypeOK, PinsCoverBorrowers, NEW r \in Requests, FinishRequest(r)
  PROVE  PinsCoverBorrowers'
<1> SUFFICES ASSUME NEW q \in DOMAIN active_requests',
                    NEW k \in active_requests'[q].borrowed_prefix
             PROVE  /\ k \in DOMAIN entries'
                    /\ entries'[k].pin_count >= Cardinality(Borrowers(k)')
  BY DEF PinsCoverBorrowers
<1>1. /\ q \in DOMAIN active_requests \ {r}
      /\ k \in active_requests[q].borrowed_prefix
  BY FinishRequestEffect
<1>2. k \in DOMAIN entries /\ entries[k].pin_count >= Cardinality(Borrowers(k))
  BY <1>1 DEF PinsCoverBorrowers
<1>3. entries[k].pin_count # 0 /\ entries[k].pin_count \in Nat
  BY <1>1, <1>2, BorrowedIsPinned DEF TypeOK, Entry
<1>4. Borrowers(k)' = Borrowers(k) \ {r}
  BY FinishRequestEffect DEF Borrowers
<1>5. Cardinality(Borrowers(k)') =
        IF r \in Borrowers(k) THEN Cardinality(Borrowers(k)) - 1
                              ELSE Cardinality(Borrowers(k))
  BY <1>4, BorrowersFinite, FS_RemoveElement
<1>6. r \in Borrowers(k) <=> k \in active_requests[r].borrowed_prefix
  BY FinishRequestEffect DEF Borrowers
<1>7. /\ k \in DOMAIN entries'
      /\ entries'[k].pin_count = IF r \in Borrowers(k) THEN entries[k].pin_count - 1
                                                       ELSE entries[k].pin_count
  BY <1>2, <1>3, <1>6, FinishRequestEffect DEF SaturatingDec
<1> QED
  BY <1>2, <1>3, <1>5, <1>7, BorrowersFinite

LEMMA PinsStep ==
  ASSUME HashInjective, TypeOK, KeyedByHash, PinsCoverBorrowers, [ManagerNext]_vars
  PROVE  PinsCoverBorrowers'
<1>1. ASSUME UNCHANGED <<entries, active_requests, free_pages>>
      PROVE  PinsCoverBorrowers'
  BY <1>1, PinsKept DEF TypeOK, Entry
<1>2. ASSUME NEW prompt \in Prompts, NEW max_tokens \in MaxTokens,
             NEW observed, BeginRequest(prompt, max_tokens, observed)
      PROVE  PinsCoverBorrowers'
  <2>1. CASE BeginOverBudget(prompt, max_tokens)
    BY <1>1, <2>1 DEF BeginOverBudget, vars
  <2>2. CASE BeginOverRuntimeBudget(prompt, max_tokens, observed)
    BY <2>2, BeginOverRuntimeBudgetEffect, KeepsEntriesPins, PinsKept
  <2>3. CASE BeginNoPages(prompt, max_tokens, observed)
    BY <2>3, BeginNoPagesEffect, KeepsEntriesPins, PinsKept
  <2>4. ASSUME NEW r \in Requests, BeginAdmitted(r, prompt, max_tokens, observed)
        PROVE  PinsCoverBorrowers'
    <3> DEFINE borrowed == FindLongestPrefixKey(prompt)
    <3>1. PICK victims \in SUBSET DOMAIN entries, owned \in SUBSET Pages :
             /\ KeepsEntries(DOMAIN entries \ victims, borrowed)
             /\ Admits(r, NewReservation(prompt, max_tokens, borrowed, owned))
      BY <2>4, BeginAdmittedEffect
    <3>2. NewReservation(prompt, max_tokens, borrowed, owned).borrowed_prefix = borrowed
      BY DEF NewReservation
    <3> QED
      BY <3>1, <3>2, PinsAdmitted
  <2> QED
    BY <1>2, <2>1, <2>2, <2>3, <2>4 DEF BeginRequest
<1>3. ASSUME NEW r \in Requests, FinishRequest(r)
      PROVE  PinsCoverBorrowers'
  BY <1>3, PinsFinished
<1>4. ASSUME NEW prompt \in Prompts, StoreInserted(prompt)
      PROVE  PinsCoverBorrowers'
  <2>1. PICK victims \in SUBSET Unpinned, owned \in SUBSET Pages :
            /\ ~AlreadyStored(prompt)
            /\ DOMAIN entries' = (DOMAIN entries \ victims) \cup {Hash[prompt]}
            /\ \A j \in DOMAIN entries \ victims :
                 j # Hash[prompt] => entries'[j] = entries[j]
            /\ UNCHANGED active_requests
    BY <1>4, StoreInsertedEffect
  <2>2. Hash[prompt] \notin DOMAIN entries
    BY <2>1, FreshKey DEF AlreadyStored
  <2>3. \A k \in DOMAIN entries :
           entries[k].pin_count # 0 => k \in DOMAIN entries' /\ entries'[k] = entries[k]
    BY <2>1, <2>2 DEF Unpinned
  <2> QED
    BY <2>1, <2>3, PinsKept DEF TypeOK, Entry
<1>5. ASSUME NEW prompt \in Prompts, StoreSkipped(prompt) \/ StoreReplaced(prompt)
      PROVE  PinsCoverBorrowers'
  BY <1>1, <1>5, StoreReplacedEffect DEF StoreSkipped, vars
<1>6. ASSUME (\E prompt \in Prompts : StoreGivesUp(prompt)) \/ ClearPrefixes
      PROVE  PinsCoverBorrowers'
  BY <1>6, EvictAllEffect, KeepsEntriesPins, PinsKept DEF EvictsAllUnpinned
<1>7. CASE UNCHANGED vars
  BY <1>1, <1>7 DEF vars
<1> QED
  BY <1>2, <1>3, <1>4, <1>5, <1>6, <1>7 DEF ManagerNext, StorePrefix

\* An entry carries at least one pin per active request that borrows it, so
\* neither pressure nor a clear evicts it under a running generation.
LEMMA ManagerPins == HashInjective => (ManagerSpec => []PinsCoverBorrowers)
<1> SUFFICES ASSUME HashInjective PROVE ManagerSpec => []PinsCoverBorrowers
  OBVIOUS
<1>1. Init => PinsCoverBorrowers
  BY DEF Init, PinsCoverBorrowers
<1>2. TypeOK /\ KeyedByHash /\ PinsCoverBorrowers /\ [ManagerNext]_vars => PinsCoverBorrowers'
  BY PinsStep
<1> QED
  BY <1>1, <1>2, ManagerType, KeysCorrect, PTL DEF ManagerSpec

-----------------------------------------------------------------------------
(***************************************************************************)
(* What a running request was promised                                     *)
(***************************************************************************)

\* The tokens of the longest prefix are the first prefix_len of the prompt.
LEMMA LongestPrefixTokens ==
  ASSUME TypeOK, NEW prompt \in Prompts, NEW k \in FindLongestPrefixKey(prompt)
  PROVE  entries[k].tokens =
           SubSeq(prompt, 1, PrefixLen(FindLongestPrefixKey(prompt)))
<1> DEFINE found == FindLongestPrefixKey(prompt)
           j     == CHOOSE i \in found : TRUE
<1>1. j \in found
  OBVIOUS
<1>2. k \in PrefixMatches(prompt) /\ j \in PrefixMatches(prompt)
  BY <1>1 DEF FindLongestPrefixKey
<1>3. /\ Len(entries[k].tokens) <= Len(entries[j].tokens)
      /\ Len(entries[j].tokens) <= Len(entries[k].tokens)
  BY <1>1, <1>2 DEF FindLongestPrefixKey
<1>4. /\ entries[k].tokens \in Seq(Tokens)
      /\ entries[j].tokens \in Seq(Tokens)
  BY <1>2, PromptAssumption DEF PrefixMatches, TypeOK, Entry
<1>5. Len(entries[k].tokens) = Len(entries[j].tokens)
  BY <1>3, <1>4
<1>6. SubSeq(prompt, 1, Len(entries[k].tokens)) = entries[k].tokens
  BY <1>2 DEF PrefixMatches, IsProperPrefix
<1>7. PrefixLen(found) = Len(entries[j].tokens)
  BY <1>1 DEF PrefixLen
<1> QED
  BY <1>5, <1>6, <1>7

\* An active request was active before with the same reservation, or was
\* admitted by this step with the prefix just found.
LEMMA ReservationsStay ==
  ASSUME TypeOK, [ManagerNext]_vars, NEW q \in DOMAIN active_requests'
  PROVE  \/ q \in DOMAIN active_requests /\ active_requests'[q] = active_requests[q]
         \/ \E prompt \in Prompts :
              /\ active_requests'[q].prompt = prompt
              /\ active_requests'[q].borrowed_prefix = FindLongestPrefixKey(prompt)
              /\ active_requests'[q].prefix_len = PrefixLen(FindLongestPrefixKey(prompt))
<1>1. ASSUME NEW prompt \in Prompts, NEW max_tokens \in MaxTokens,
             NEW observed, NEW r \in Requests,
             BeginAdmitted(r, prompt, max_tokens, observed)
      PROVE  \/ q \in DOMAIN active_requests /\ active_requests'[q] = active_requests[q]
             \/ /\ active_requests'[q].prompt = prompt
                /\ active_requests'[q].borrowed_prefix = FindLongestPrefixKey(prompt)
                /\ active_requests'[q].prefix_len = PrefixLen(FindLongestPrefixKey(prompt))
  <2>1. PICK owned \in SUBSET Pages :
           Admits(r, NewReservation(prompt, max_tokens, FindLongestPrefixKey(prompt), owned))
    BY <1>1, BeginAdmittedEffect
  <2> QED
    BY <2>1 DEF Admits, NewReservation
<1>2. ASSUME NEW prompt \in Prompts, NEW max_tokens \in MaxTokens,
             NEW observed,
             \/ BeginOverBudget(prompt, max_tokens)
             \/ BeginOverRuntimeBudget(prompt, max_tokens, observed)
             \/ BeginNoPages(prompt, max_tokens, observed)
      PROVE  UNCHANGED active_requests
  BY <1>2 DEF BeginOverBudget, BeginOverRuntimeBudget, BeginNoPages, vars
<1>3. ASSUME NEW prompt \in Prompts, StorePrefix(prompt)
      PROVE  UNCHANGED active_requests
  BY <1>3 DEF StorePrefix, StoreSkipped, StoreReplaced, StoreInserted, StoreGivesUp, vars
<1>4. ASSUME NEW r \in Requests, FinishRequest(r)
      PROVE  q \in DOMAIN active_requests /\ active_requests'[q] = active_requests[q]
  BY <1>4, FinishRequestEffect
<1>5. ASSUME ClearPrefixes \/ UNCHANGED vars
      PROVE  UNCHANGED active_requests
  BY <1>5 DEF ClearPrefixes, vars
<1> QED
  BY <1>1, <1>2, <1>3, <1>4, <1>5 DEF ManagerNext, BeginRequest

LEMMA IntactStep ==
  ASSUME HashInjective, TypeOK, TypeOK', KeyedByHash, PinsCoverBorrowers,
         PinsCoverBorrowers', BorrowedPrefixIntact, [ManagerNext]_vars
  PROVE  BorrowedPrefixIntact'
<1> SUFFICES ASSUME NEW q \in DOMAIN active_requests',
                    NEW k \in active_requests'[q].borrowed_prefix
             PROVE  /\ k \in DOMAIN entries'
                    /\ entries'[k].tokens = SubSeq(active_requests'[q].prompt, 1,
                                                   active_requests'[q].prefix_len)
  BY DEF BorrowedPrefixIntact
<1>1. k \in DOMAIN entries'
  BY DEF PinsCoverBorrowers
<1>2. ASSUME k \in DOMAIN entries PROVE entries'[k].tokens = entries[k].tokens
  <2>1. CASE k = Hash[entries'[k].tokens]
    <3>1. Hash[entries[k].tokens] = Hash[entries'[k].tokens]
      BY <1>2, <2>1 DEF KeyedByHash
    <3>2. entries[k].tokens \in Prompts /\ entries'[k].tokens \in Prompts
      BY <1>1, <1>2 DEF TypeOK, Entry
    <3> QED
      BY <3>1, <3>2 DEF HashInjective
  <2> QED
    BY <1>1, <2>1, TokensStay
<1>3. CASE q \in DOMAIN active_requests /\ active_requests'[q] = active_requests[q]
  <2>1. q \in DOMAIN active_requests /\ k \in active_requests[q].borrowed_prefix
    BY <1>3
  <2>2. /\ k \in DOMAIN entries
        /\ entries[k].tokens = SubSeq(active_requests[q].prompt, 1,
                                     active_requests[q].prefix_len)
    BY <2>1 DEF BorrowedPrefixIntact
  <2>3. entries'[k].tokens = entries[k].tokens
    BY <1>2, <2>2
  <2> QED
    BY <1>1, <1>3, <2>2, <2>3
<1>4. ASSUME NEW prompt \in Prompts,
             active_requests'[q].prompt = prompt,
             active_requests'[q].borrowed_prefix = FindLongestPrefixKey(prompt),
             active_requests'[q].prefix_len = PrefixLen(FindLongestPrefixKey(prompt))
      PROVE  entries'[k].tokens = SubSeq(active_requests'[q].prompt, 1,
                                        active_requests'[q].prefix_len)
  <2>1. k \in DOMAIN entries
    BY <1>4, LongestPrefixIsEntry
  <2> QED
    BY <1>2, <1>4, <2>1, LongestPrefixTokens
<1>5. \/ q \in DOMAIN active_requests /\ active_requests'[q] = active_requests[q]
      \/ \E prompt \in Prompts :
           /\ active_requests'[q].prompt = prompt
           /\ active_requests'[q].borrowed_prefix = FindLongestPrefixKey(prompt)
           /\ active_requests'[q].prefix_len = PrefixLen(FindLongestPrefixKey(prompt))
  BY ReservationsStay
<1> QED
  BY <1>1, <1>3, <1>4, <1>5

\* For as long as a request runs, the entry it borrows from is present and holds
\* exactly the tokens its reservation told it not to prefill.
LEMMA ManagerBorrowed == HashInjective => (ManagerSpec => []BorrowedPrefixIntact)
<1> SUFFICES ASSUME HashInjective PROVE ManagerSpec => []BorrowedPrefixIntact
  OBVIOUS
<1>1. Init => BorrowedPrefixIntact
  BY DEF Init, BorrowedPrefixIntact
<1>2. /\ TypeOK /\ TypeOK' /\ KeyedByHash /\ PinsCoverBorrowers
      /\ PinsCoverBorrowers' /\ BorrowedPrefixIntact /\ [ManagerNext]_vars
      => BorrowedPrefixIntact'
  BY IntactStep
<1>3. ManagerSpec => []PinsCoverBorrowers
  BY ManagerPins
<1> QED
  BY <1>1, <1>2, <1>3, ManagerType, KeysCorrect, PTL DEF ManagerSpec

\* The pages of an active request change only by its own finish, which returns
\* all of them at once.
LEMMA ManagerLeases == ManagerSpec => LeasesAreExclusive
<1>1. TypeOK /\ [ManagerNext]_vars =>
        [\A r \in DOMAIN active_requests :
           /\ r \in DOMAIN active_requests' => active_requests'[r] = active_requests[r]
           /\ r \notin DOMAIN active_requests' =>
                free_pages' = free_pages \cup active_requests[r].owned_pages]_vars
  BY PageMoves DEF EvictAndLease, EvictOnly, EvictAndFill, ReleaseLease
<1> QED
  BY <1>1, ManagerType, PTL DEF ManagerSpec, LeasesAreExclusive

-----------------------------------------------------------------------------
(***************************************************************************)
(* The manager implements the page pool: each page move is a pool step.    *)
(***************************************************************************)

LEMMA LeaseRefines ==
  ASSUME TypeOK, NEW victims \in SUBSET DOMAIN entries, NEW r \in Requests,
         NEW owned \in SUBSET Pages, EvictAndLease(victims, r, owned)
  PROVE  Pool!Lease(r)
<1>1. victims \in SUBSET Keys
  BY DEF TypeOK
<1>2. Pool!Reclaimed(victims) = PagesOf(victims)
  BY <1>1 DEF Pool!Reclaimed, PagesOf
<1>3. [l \in Requests |-> IF l \in DOMAIN active_requests'
                          THEN active_requests'[l].owned_pages ELSE {}]
        = [[l \in Requests |-> IF l \in DOMAIN active_requests
                               THEN active_requests[l].owned_pages ELSE {}]
             EXCEPT ![r] = owned]
  BY DEF EvictAndLease
<1>4. [k \in Keys |-> IF k \in DOMAIN entries' THEN entries'[k].pages ELSE {}]
        = Pool!Without(victims)
  BY <1>1 DEF EvictAndLease, KeepsPages, Pool!Without
<1> QED
  BY <1>1, <1>2, <1>3, <1>4 DEF Pool!Lease, EvictAndLease

LEMMA ReclaimRefines ==
  ASSUME TypeOK, NEW victims \in SUBSET DOMAIN entries, EvictOnly(victims)
  PROVE  Pool!Reclaim
<1>1. victims \in SUBSET Keys
  BY DEF TypeOK
<1>2. Pool!Reclaimed(victims) = PagesOf(victims)
  BY <1>1 DEF Pool!Reclaimed, PagesOf
<1>3. [k \in Keys |-> IF k \in DOMAIN entries' THEN entries'[k].pages ELSE {}]
        = Pool!Without(victims)
  BY <1>1 DEF EvictOnly, KeepsPages, Pool!Without
<1> QED
  BY <1>1, <1>2, <1>3 DEF Pool!Reclaim, EvictOnly

LEMMA FillRefines ==
  ASSUME TypeOK, NEW victims \in SUBSET DOMAIN entries, NEW key \in Keys,
         NEW owned \in SUBSET Pages, EvictAndFill(victims, key, owned),
         key \notin DOMAIN entries
  PROVE  Pool!Fill(key)
<1>1. victims \in SUBSET Keys
  BY DEF TypeOK
<1>2. Pool!Reclaimed(victims) = PagesOf(victims)
  BY <1>1 DEF Pool!Reclaimed, PagesOf
<1>3. Pool!Without(victims)[key] = {}
  BY DEF Pool!Without
<1>4. [k \in Keys |-> IF k \in DOMAIN entries' THEN entries'[k].pages ELSE {}]
        = [Pool!Without(victims) EXCEPT ![key] = owned]
  BY <1>1 DEF EvictAndFill, KeepsPages, Pool!Without
<1> QED
  BY <1>1, <1>2, <1>3, <1>4 DEF Pool!Fill, EvictAndFill

LEMMA ReleaseRefines ==
  ASSUME TypeOK, NEW r \in Requests, ReleaseLease(r)
  PROVE  Pool!Release(r)
<1>1. [l \in Requests |-> IF l \in DOMAIN active_requests'
                          THEN active_requests'[l].owned_pages ELSE {}]
        = [[l \in Requests |-> IF l \in DOMAIN active_requests
                               THEN active_requests[l].owned_pages ELSE {}]
             EXCEPT ![r] = {}]
  BY DEF ReleaseLease
<1>2. [k \in Keys |-> IF k \in DOMAIN entries' THEN entries'[k].pages ELSE {}]
        = [k \in Keys |-> IF k \in DOMAIN entries THEN entries[k].pages ELSE {}]
  BY DEF ReleaseLease, KeepsPages
<1> QED
  BY <1>1, <1>2 DEF Pool!Release, ReleaseLease

\* Seen from its pages alone, the manager is the abstract pool: leases are given
\* in one step, kept whole and returned whole, and only cached pages are reclaimed.
LEMMA ManagerIsPagePool == HashInjective => (ManagerSpec => ImplementsPagePool)
<1> SUFFICES ASSUME HashInjective PROVE ManagerSpec => Pool!Spec
  BY DEF ImplementsPagePool
<1>1. Init => Pool!Init
  BY DEF Init, Pool!Init
<1>2. TypeOK /\ KeyedByHash /\ [ManagerNext]_vars => Pool!Next
  <2> SUFFICES ASSUME TypeOK, KeyedByHash, [ManagerNext]_vars PROVE Pool!Next
    OBVIOUS
  <2>1. \A prompt \in Prompts : Hash[prompt] \in Keys
    BY HashAssumption
  <2> QED
    BY <2>1, PageMoves, FreshKey, LeaseRefines, ReclaimRefines, FillRefines,
       ReleaseRefines DEF Pool!Next
<1> QED
  BY <1>1, <1>2, ManagerType, KeysCorrect, PTL DEF ManagerSpec, Pool!Spec

-----------------------------------------------------------------------------
(***************************************************************************)
(* The specification that TLC checks                                       *)
(***************************************************************************)

\* The state of the manager always has the types its fields declare: keys,
\* pages and counts in range, recency only between cached entries.
THEOREM TypeCorrect == Spec => []TypeOK
BY SpecIsManagerSpec, ManagerType

\* No page of the manager is ever held twice: not by two requests, two entries, a
\* request and an entry, or a holder and the free list, even if hashes collide.
THEOREM PagesHeldOnce == Spec => []NoPageHeldTwice
BY SpecIsManagerSpec, ManagerPagesApart

\* The manager accounts for every page: free, in an entry, or with a request.
THEOREM PagesConserved == HashInjective => (Spec => []NoPageLost)
BY SpecIsManagerSpec, ManagerPagesKept

\* An entry carries at least one pin per active request that borrows it, so
\* neither pressure nor a clear evicts it under a running generation.
THEOREM PinsCorrect == HashInjective => (Spec => []PinsCoverBorrowers)
BY SpecIsManagerSpec, ManagerPins

\* For as long as a request runs, the entry it borrows from is present and holds
\* exactly the tokens its reservation told it not to prefill.
THEOREM BorrowedPrefixStays == HashInjective => (Spec => []BorrowedPrefixIntact)
BY SpecIsManagerSpec, ManagerBorrowed

\* The pages of an active request change only by its own finish_request, which
\* returns all of them at once.
THEOREM LeasesExclusive == Spec => LeasesAreExclusive
BY SpecIsManagerSpec, ManagerLeases

\* The manager implements the abstract pool: leases are given in one step, kept
\* whole and returned whole, and only cached pages are reclaimed.
THEOREM RefinesPagePool == HashInjective => (Spec => ImplementsPagePool)
BY SpecIsManagerSpec, ManagerIsPagePool

-----------------------------------------------------------------------------
(***************************************************************************)
(* The eviction order                                                      *)
(***************************************************************************)

Single(S) == \A j, k \in S : j = k

Ordered ==
    /\ \A j, k \in DOMAIN entries : j # k => (<<j, k>> \in older <=> <<k, j>> \notin older)
    /\ \A k \in DOMAIN entries : <<k, k>> \notin older

Limited ==
    /\ IsFiniteSet(DOMAIN entries)
    /\ Cardinality(DOMAIN entries) <= MaxPrefixEntries

BorrowsOne == \A r \in DOMAIN active_requests : Single(active_requests[r].borrowed_prefix)

\* Two longest prefixes of a prompt are the same tokens, so the same entry.
LEMMA LongestIsSingle ==
  ASSUME TypeOK, KeyedByHash, NEW prompt \in Prompts
  PROVE  Single(FindLongestPrefixKey(prompt))
<1> SUFFICES ASSUME NEW j \in FindLongestPrefixKey(prompt), NEW k \in FindLongestPrefixKey(prompt)
             PROVE  j = k
  BY DEF Single
<1>1. entries[j].tokens = entries[k].tokens
  BY LongestPrefixTokens
<1>2. j \in DOMAIN entries /\ k \in DOMAIN entries
  BY LongestPrefixIsEntry
<1> QED
  BY <1>1, <1>2 DEF KeyedByHash

\* A request borrows one entry at most.
LEMMA BorrowsOneStep ==
  ASSUME TypeOK, KeyedByHash, BorrowsOne, [ManagerNext]_vars
  PROVE  BorrowsOne'
  BY ReservationsStay, LongestIsSingle DEF BorrowsOne

\* The step accesses one entry at most, and the entries left are entries of
\* before or the accessed one, inserted where room was made.
Accesses(kept, touched) ==
    /\ DOMAIN entries' = kept
    /\ touched \subseteq kept
    /\ kept \ touched \subseteq DOMAIN entries
    /\ Single(touched)
    /\ Touch(kept, touched)
    /\ \/ kept \subseteq DOMAIN entries
       \/ /\ MaxPrefixEntries # 0
          /\ \E key : \E rest \in SUBSET DOMAIN entries :
               kept = rest \cup {key} /\ Cardinality(rest) <= MaxPrefixEntries - 1

AccessOrNone ==
    \/ \E kept, touched : Accesses(kept, touched)
    \/ UNCHANGED <<entries, older>>

LEMMA BeginAccesses ==
  ASSUME TypeOK, KeyedByHash, NEW prompt \in Prompts, NEW max_tokens \in MaxTokens,
         NEW observed, BeginRequest(prompt, max_tokens, observed)
  PROVE  AccessOrNone
<1> DEFINE borrowed == FindLongestPrefixKey(prompt)
<1>1. Single(borrowed) /\ borrowed \subseteq DOMAIN entries
  BY LongestIsSingle, LongestPrefixIsEntry
<1>2. CASE BeginOverBudget(prompt, max_tokens)
  BY <1>2 DEF BeginOverBudget, vars, AccessOrNone
<1>3. CASE BeginOverRuntimeBudget(prompt, max_tokens, observed)
  <2>1. Accesses(DOMAIN entries, borrowed)
    BY <1>1, <1>3 DEF BeginOverRuntimeBudget, Accesses, Pinned
  <2> QED
    BY <2>1 DEF AccessOrNone
<1>4. ASSUME NEW victims \in SUBSET (Unpinned \ borrowed),
             entries' = Restrict(Pinned(borrowed), DOMAIN entries \ victims),
             Touch(DOMAIN entries \ victims, borrowed)
      PROVE  AccessOrNone
  <2>1. DOMAIN entries' = DOMAIN entries \ victims
    BY <1>4 DEF Restrict
  <2>2. Accesses(DOMAIN entries \ victims, borrowed)
    BY <1>1, <1>4, <2>1 DEF Accesses
  <2> QED
    BY <2>2 DEF AccessOrNone
<1>5. CASE BeginNoPages(prompt, max_tokens, observed)
  BY <1>4, <1>5 DEF BeginNoPages
<1>6. ASSUME NEW r \in Requests, BeginAdmitted(r, prompt, max_tokens, observed)
      PROVE  AccessOrNone
  BY <1>4, <1>6 DEF BeginAdmitted
<1> QED
  BY <1>2, <1>3, <1>5, <1>6 DEF BeginRequest

LEMMA StoreAccesses ==
  ASSUME TypeOK, NEW prompt \in Prompts, StorePrefix(prompt)
  PROVE  AccessOrNone
<1> DEFINE key == Hash[prompt]
<1>1. CASE StoreSkipped(prompt)
  BY <1>1 DEF StoreSkipped, vars, AccessOrNone
<1>2. CASE StoreReplaced(prompt)
  <2>1. Accesses(DOMAIN entries, {key})
    BY <1>2 DEF StoreReplaced, AlreadyStored, Accesses, Single
  <2> QED
    BY <2>1 DEF AccessOrNone
<1>3. CASE StoreInserted(prompt)
  <2>1. PICK victims \in SUBSET Unpinned :
           /\ Cacheable(prompt)
           /\ Room(victims, MaxPrefixEntries - 1, PagesForBytes(PrefixBytes(prompt)))
           /\ DOMAIN entries' = (DOMAIN entries \ victims) \cup {key}
           /\ Touch((DOMAIN entries \ victims) \cup {key}, {key})
    BY <1>3 DEF StoreInserted
  <2>2. Accesses((DOMAIN entries \ victims) \cup {key}, {key})
    BY <2>1 DEF Accesses, Single, Room, Cacheable
  <2> QED
    BY <2>2 DEF AccessOrNone
<1>4. CASE StoreGivesUp(prompt)
  <2>1. Accesses(DOMAIN entries \ Unpinned, {})
    BY <1>4 DEF StoreGivesUp, Accesses, Single, Restrict
  <2> QED
    BY <2>1 DEF AccessOrNone
<1> QED
  BY <1>1, <1>2, <1>3, <1>4 DEF StorePrefix

LEMMA StepAccesses ==
  ASSUME TypeOK, KeyedByHash, BorrowsOne, [ManagerNext]_vars
  PROVE  AccessOrNone
<1>1. ASSUME NEW r \in Requests, FinishRequest(r) PROVE AccessOrNone
  <2> DEFINE borrowed == active_requests[r].borrowed_prefix \cap DOMAIN entries
  <2>1. Accesses(DOMAIN entries, borrowed)
    BY <1>1 DEF FinishRequest, Accesses, BorrowsOne, Single
  <2> QED
    BY <2>1 DEF AccessOrNone
<1>2. CASE ClearPrefixes
  <2>1. Accesses(DOMAIN entries \ Unpinned, {})
    BY <1>2 DEF ClearPrefixes, Accesses, Single, Restrict
  <2> QED
    BY <2>1 DEF AccessOrNone
<1>3. CASE UNCHANGED vars
  BY <1>3 DEF vars, AccessOrNone
<1> QED
  BY <1>1, <1>2, <1>3, BeginAccesses, StoreAccesses DEF ManagerNext

\* Accessing one entry keeps the order total: it becomes the most recent.
LEMMA TouchOrders ==
  ASSUME Ordered, NEW kept, NEW touched \in SUBSET kept, kept \ touched \subseteq DOMAIN entries,
         Single(touched), Touch(kept, touched), DOMAIN entries' = kept
  PROVE  Ordered'
<1>1. ASSUME NEW j \in kept, NEW k \in kept
      PROVE  <<j, k>> \in older' <=>
               \/ j \notin touched /\ k \notin touched /\ <<j, k>> \in older
               \/ j \notin touched /\ k \in touched
  BY DEF Touch
<1>2. ASSUME NEW j \in kept, NEW k \in kept, j # k
      PROVE  <<j, k>> \in older' <=> <<k, j>> \notin older'
  <2>1. CASE j \notin touched /\ k \notin touched
    BY <1>1, <1>2, <2>1 DEF Ordered
  <2>2. CASE j \in touched \/ k \in touched
    BY <1>1, <1>2, <2>2 DEF Single
  <2> QED
    BY <2>1, <2>2
<1>3. ASSUME NEW k \in kept PROVE <<k, k>> \notin older'
  BY <1>1, <1>3 DEF Ordered
<1> QED
  BY <1>2, <1>3 DEF Ordered

LEMMA OrderStep ==
  ASSUME TypeOK, KeyedByHash, BorrowsOne, Ordered, [ManagerNext]_vars
  PROVE  Ordered'
<1>1. CASE UNCHANGED <<entries, older>>
  BY <1>1 DEF Ordered
<1>2. ASSUME NEW kept, NEW touched, Accesses(kept, touched) PROVE Ordered'
  BY <1>2, TouchOrders DEF Accesses
<1> QED
  BY <1>1, <1>2, StepAccesses DEF AccessOrNone

LEMMA LimitStep ==
  ASSUME TypeOK, KeyedByHash, BorrowsOne, Limited, [ManagerNext]_vars
  PROVE  Limited'
<1>1. CASE UNCHANGED <<entries, older>>
  BY <1>1 DEF Limited
<1>2. ASSUME DOMAIN entries' \subseteq DOMAIN entries PROVE Limited'
  <2>1. /\ IsFiniteSet(DOMAIN entries')
        /\ Cardinality(DOMAIN entries') <= Cardinality(DOMAIN entries)
    BY <1>2, FS_Subset DEF Limited
  <2>2. Cardinality(DOMAIN entries') \in Nat /\ Cardinality(DOMAIN entries) \in Nat
    BY <2>1, FS_CardinalityType DEF Limited
  <2> QED
    BY <2>1, <2>2, SizeAssumption DEF Limited
<1>3. ASSUME NEW key, NEW rest \in SUBSET DOMAIN entries, DOMAIN entries' = rest \cup {key},
             MaxPrefixEntries # 0, Cardinality(rest) <= MaxPrefixEntries - 1
      PROVE  Limited'
  <2>1. IsFiniteSet(rest)
    BY FS_Subset DEF Limited
  <2>2. /\ IsFiniteSet(DOMAIN entries')
        /\ \/ Cardinality(DOMAIN entries') = Cardinality(rest)
           \/ Cardinality(DOMAIN entries') = Cardinality(rest) + 1
    BY <1>3, <2>1, FS_AddElement
  <2>3. Cardinality(rest) \in Nat
    BY <2>1, FS_CardinalityType
  <2> QED
    BY <1>3, <2>2, <2>3, SizeAssumption DEF Limited
<1> QED
  BY <1>1, <1>2, <1>3, StepAccesses DEF AccessOrNone, Accesses

OrderInv == BorrowsOne /\ Ordered /\ Limited

\* The order, the limit and the single borrow hold whatever callers measure.
LEMMA ManagerOrder == ManagerSpec => []OrderInv
<1>1. Init => OrderInv
  <2>1. Cardinality({}) = 0 /\ IsFiniteSet({})
    BY FS_EmptySet
  <2> QED
    BY <2>1, SizeAssumption DEF Init, OrderInv, BorrowsOne, Ordered, Limited
<1>2. TypeOK /\ KeyedByHash /\ OrderInv /\ [ManagerNext]_vars => OrderInv'
  BY BorrowsOneStep, OrderStep, LimitStep DEF OrderInv
<1> QED
  BY <1>1, <1>2, ManagerType, KeysCorrect, PTL DEF ManagerSpec

\* The cache never holds more than max_prefix_entries entries, and last_accessed
\* orders them totally: memory pressure always finds one least recent entry.
LEMMA ManagerEntries == ManagerSpec => []EntriesBoundedAndOrdered
<1>1. OrderInv => EntriesBoundedAndOrdered
  BY DEF OrderInv, Ordered, Limited, EntriesBoundedAndOrdered
<1> QED
  BY <1>1, ManagerOrder, PTL

\* The same for a manager of its own.
THEOREM EntriesCorrect == Spec => []EntriesBoundedAndOrdered
BY SpecIsManagerSpec, ManagerEntries

-----------------------------------------------------------------------------
(***************************************************************************)
(* Which entries go                                                        *)
(***************************************************************************)

\* The victims are unpinned, and were accessed before whatever stays unpinned.
EvictsOldest ==
    \A v \in DOMAIN entries \ DOMAIN entries' :
        /\ entries[v].pin_count = 0
        /\ \A k \in DOMAIN entries \cap DOMAIN entries' :
             entries[k].pin_count = 0 /\ entries'[k].pin_count = 0 => <<v, k>> \in older

LEMMA BeginEvicts ==
  ASSUME TypeOK, NEW prompt \in Prompts, NEW max_tokens \in MaxTokens,
         NEW observed, BeginRequest(prompt, max_tokens, observed)
  PROVE  EvictsOldest
<1> DEFINE borrowed == FindLongestPrefixKey(prompt)
<1>1. borrowed \subseteq DOMAIN entries
  BY LongestPrefixIsEntry
<1>2. CASE BeginOverBudget(prompt, max_tokens) \/ BeginOverRuntimeBudget(prompt, max_tokens, observed)
  BY <1>2 DEF BeginOverBudget, BeginOverRuntimeBudget, vars, Pinned, EvictsOldest
<1>3. ASSUME NEW victims \in SUBSET (Unpinned \ borrowed),
             entries' = Restrict(Pinned(borrowed), DOMAIN entries \ victims),
             \A v \in victims, k \in (Unpinned \ borrowed) \ victims : <<v, k>> \in older
      PROVE  EvictsOldest
  <2> SUFFICES ASSUME NEW v \in DOMAIN entries \ DOMAIN entries'
               PROVE  /\ entries[v].pin_count = 0
                      /\ \A k \in DOMAIN entries \cap DOMAIN entries' :
                           entries[k].pin_count = 0 /\ entries'[k].pin_count = 0 => <<v, k>> \in older
    BY DEF EvictsOldest
  <2>1. v \in victims /\ entries[v].pin_count = 0
    BY <1>3 DEF Restrict, Unpinned
  <2>2. ASSUME NEW k \in DOMAIN entries \cap DOMAIN entries',
               entries[k].pin_count = 0, entries'[k].pin_count = 0
        PROVE  <<v, k>> \in older
    <3>1. k \in Unpinned \ victims
      BY <1>3, <2>2 DEF Restrict, Unpinned
    <3>2. entries'[k] = Pinned(borrowed)[k]
      BY <1>3, <3>1 DEF Restrict
    <3>3. k \notin borrowed
      BY <2>2, <3>2, PinnedEntries
    <3> QED
      BY <1>3, <2>1, <3>1, <3>3
  <2> QED
    BY <2>1, <2>2
<1>4. CASE BeginNoPages(prompt, max_tokens, observed)
  BY <1>3, <1>4 DEF BeginNoPages
<1>5. ASSUME NEW r \in Requests, BeginAdmitted(r, prompt, max_tokens, observed)
      PROVE  EvictsOldest
  BY <1>3, <1>5 DEF BeginAdmitted, EnsureFreePages, Evicts
<1> QED
  BY <1>2, <1>4, <1>5 DEF BeginRequest

LEMMA StepEvicts ==
  ASSUME HashInjective, TypeOK, KeyedByHash, [ManagerNext]_vars
  PROVE  EvictsOldest
<1>1. ASSUME DOMAIN entries' = DOMAIN entries PROVE EvictsOldest
  BY <1>1 DEF EvictsOldest
<1>2. ASSUME NEW r \in Requests, FinishRequest(r) PROVE EvictsOldest
  BY <1>1, <1>2 DEF FinishRequest
<1>3. ASSUME DOMAIN entries' = DOMAIN entries \ Unpinned, \A k \in DOMAIN entries' : entries'[k] = entries[k]
      PROVE  EvictsOldest
  BY <1>3 DEF EvictsOldest, Unpinned
<1>4. ASSUME ClearPrefixes \/ \E prompt \in Prompts : StoreGivesUp(prompt)
      PROVE  EvictsOldest
  BY <1>3, <1>4 DEF ClearPrefixes, StoreGivesUp, Restrict
<1>5. ASSUME NEW prompt \in Prompts, StoreInserted(prompt)
      PROVE  EvictsOldest
  <2>1. PICK victims \in SUBSET Unpinned :
           /\ ~AlreadyStored(prompt)
           /\ DOMAIN entries' = (DOMAIN entries \ victims) \cup {Hash[prompt]}
           /\ \A v \in victims, k \in Unpinned \ victims : <<v, k>> \in older
    BY <1>5 DEF StoreInserted, Evicts
  <2>2. Hash[prompt] \notin DOMAIN entries
    BY <2>1, FreshKey DEF AlreadyStored
  <2> QED
    BY <2>1, <2>2 DEF EvictsOldest, Unpinned
<1>6. ASSUME NEW prompt \in Prompts, StoreSkipped(prompt) \/ StoreReplaced(prompt)
      PROVE  EvictsOldest
  BY <1>1, <1>6 DEF StoreSkipped, StoreReplaced, vars
<1>7. CASE UNCHANGED vars
  BY <1>1, <1>7 DEF vars
<1> QED
  BY <1>2, <1>4, <1>5, <1>6, <1>7, BeginEvicts DEF ManagerNext, StorePrefix

\* Memory pressure and clears evict in LRU order and never under a pin.  Without
\* distinct hashes an entry inserted over an evicted one of its own key is newer.
LEMMA ManagerEvictions == HashInjective => (ManagerSpec => EvictsLeastRecent)
<1> SUFFICES ASSUME HashInjective PROVE ManagerSpec => EvictsLeastRecent
  OBVIOUS
<1>1. TypeOK /\ KeyedByHash /\ [ManagerNext]_vars =>
        [\A v \in DOMAIN entries \ DOMAIN entries' :
           /\ entries[v].pin_count = 0
           /\ \A k \in DOMAIN entries \cap DOMAIN entries' :
                entries[k].pin_count = 0 /\ entries'[k].pin_count = 0 => <<v, k>> \in older]_vars
  BY StepEvicts DEF EvictsOldest
<1> QED
  BY <1>1, ManagerType, KeysCorrect, PTL DEF ManagerSpec, EvictsLeastRecent

\* The same for a manager of its own: whatever calls it gets, an entry is evicted
\* only before those used after it, and never while it is pinned.
THEOREM EvictionIsLRU == HashInjective => (Spec => EvictsLeastRecent)
BY SpecIsManagerSpec, ManagerEvictions

-----------------------------------------------------------------------------
(***************************************************************************)
(* Pages pay for bytes                                                     *)
(***************************************************************************)

Paid(pages, bytes) == Cardinality(pages) * PageSize >= bytes

\* Rounding up never gives fewer pages than the bytes need.
LEMMA PagesSuffice ==
  ASSUME NEW bytes \in Nat
  PROVE  PagesForBytes(bytes) \in Nat /\ PagesForBytes(bytes) * PageSize >= bytes
<1> DEFINE m == bytes + PageSize - 1
<1>1. m \in Nat /\ PageSize \in Nat \ {0}
  BY SizeAssumption
<1>2. m \div PageSize \in Nat /\ m < (m \div PageSize) * PageSize + PageSize
  BY <1>1
<1>3. (m \div PageSize) * PageSize \in Nat
  BY <1>1, <1>2, NatProduct
<1>4. PagesForBytes(bytes) = m \div PageSize
  BY DEF PagesForBytes
<1> QED
  BY <1>1, <1>2, <1>3, <1>4

EntriesPaid == \A k \in DOMAIN entries : Paid(entries[k].pages, entries[k].estimated_bytes)

LEMMA EntriesPaidStep ==
  ASSUME TypeOK, EntriesPaid, [ManagerNext]_vars
  PROVE  EntriesPaid'
<1>1. ASSUME NEW kept, NEW borrowed, KeepsEntries(kept, borrowed) PROVE EntriesPaid'
  BY <1>1 DEF KeepsEntries, SameButPins, EntriesPaid
<1>2. ASSUME UNCHANGED entries PROVE EntriesPaid'
  BY <1>2 DEF EntriesPaid
<1>3. ASSUME NEW prompt \in Prompts, NEW max_tokens \in MaxTokens,
             NEW observed, BeginRequest(prompt, max_tokens, observed)
      PROVE  EntriesPaid'
  BY <1>1, <1>2, <1>3, BeginOverRuntimeBudgetEffect, BeginNoPagesEffect, BeginAdmittedEffect
     DEF BeginRequest, BeginOverBudget, vars
<1>4. ASSUME NEW r \in Requests, FinishRequest(r) PROVE EntriesPaid'
  BY <1>4, FinishRequestEffect DEF SameButPins, EntriesPaid
<1>5. ASSUME NEW prompt \in Prompts, StoreInserted(prompt) PROVE EntriesPaid'
  <2>1. PICK victims \in SUBSET Unpinned, owned \in SUBSET Pages :
            /\ Cardinality(owned) = PagesForBytes(PrefixBytes(prompt))
            /\ DOMAIN entries' = (DOMAIN entries \ victims) \cup {Hash[prompt]}
            /\ \A j \in DOMAIN entries \ victims :
                 j # Hash[prompt] => entries'[j] = entries[j]
            /\ entries'[Hash[prompt]] =
                 [tokens |-> prompt, pages |-> owned,
                  estimated_bytes |-> PrefixBytes(prompt), pin_count |-> 0]
    BY <1>5, StoreInsertedEffect
  <2>2. Paid(owned, PrefixBytes(prompt))
    BY <2>1, PrefixBytesType, PagesSuffice DEF Paid
  <2> QED
    BY <2>1, <2>2 DEF EntriesPaid
<1>6. ASSUME (\E prompt \in Prompts : StoreGivesUp(prompt)) \/ ClearPrefixes PROVE EntriesPaid'
  BY <1>1, <1>6, EvictAllEffect DEF EvictsAllUnpinned
<1>7. ASSUME NEW prompt \in Prompts, StoreSkipped(prompt) \/ StoreReplaced(prompt) PROVE EntriesPaid'
  BY <1>2, <1>7 DEF StoreSkipped, StoreReplaced, vars
<1>8. CASE UNCHANGED vars
  BY <1>2, <1>8 DEF vars
<1> QED
  BY <1>3, <1>4, <1>5, <1>6, <1>7, <1>8 DEF ManagerNext, StorePrefix

\* What a request needs besides the borrowed bytes, and never less.
LEMMA AdditionalSuffices ==
  ASSUME TypeOK, NEW borrowed \in SUBSET DOMAIN entries, borrowed # {},
         NEW estimated \in Nat
  PROVE  LET k == CHOOSE k \in borrowed : TRUE
         IN  /\ AdditionalBytes(estimated, borrowed) \in Nat
             /\ AdditionalBytes(estimated, borrowed) + entries[k].estimated_bytes >= estimated
<1> DEFINE b == entries[CHOOSE k \in borrowed : TRUE].estimated_bytes
<1>1. b \in Nat
  BY DEF TypeOK, Entry
<1> HIDE DEF b
<1>2. Min({estimated, b}) \in {estimated, b} /\ Min({estimated, b}) <= estimated
      /\ Min({estimated, b}) <= b
  <2>1. \E x \in {estimated, b} : \A y \in {estimated, b} : x <= y
    BY <1>1
  <2> QED
    BY <2>1 DEF Min
<1>3. AdditionalBytes(estimated, borrowed) = estimated - Min({estimated, b})
  BY DEF AdditionalBytes, b
<1> QED
  BY <1>1, <1>2, <1>3 DEF b

\* Two disjoint sets of pages pay for the sum of what each pays for.
LEMMA DisjointPay ==
  ASSUME NEW P \in SUBSET Pages, NEW Q \in SUBSET Pages, P \cap Q = {},
         NEW m \in Nat, NEW n \in Nat, Paid(P, m), Paid(Q, n)
  PROVE  Paid(P \cup Q, m + n)
<1>1. IsFiniteSet(P) /\ IsFiniteSet(Q)
  BY PagesAssumption, FS_Subset
<1>2. Cardinality(P) \in Nat /\ Cardinality(Q) \in Nat
  BY <1>1, FS_CardinalityType
<1>3. Cardinality(P \cup Q) = Cardinality(P) + Cardinality(Q)
  <2>1. Cardinality(P \cap Q) = 0
    BY FS_EmptySet
  <2> QED
    BY <1>1, <1>2, <2>1, FS_Union
<1>4. Cardinality(P \cup Q) * PageSize = Cardinality(P) * PageSize + Cardinality(Q) * PageSize
  BY <1>2, <1>3, SizeAssumption
<1>5. Cardinality(P) * PageSize \in Nat /\ Cardinality(Q) * PageSize \in Nat
  BY <1>2, SizeAssumption, NatProduct
<1> QED
  BY <1>4, <1>5 DEF Paid

\* An admitted request is paid for by its new pages and the pages it borrows.
LEMMA AdmittedPaid ==
  ASSUME TypeOK, TypeOK', KeyedByHash, EntriesPaid, NoPageHeldTwice',
         NEW prompt \in Prompts, NEW max_tokens \in MaxTokens, NEW observed,
         NEW r \in Requests, BeginAdmitted(r, prompt, max_tokens, observed)
  PROVE  Paid(active_requests'[r].owned_pages \cup PagesOf(active_requests[r].borrowed_prefix)',
              active_requests'[r].estimated_bytes)
<1> DEFINE borrowed  == FindLongestPrefixKey(prompt)
           estimated == EstimatedBytes(prompt, max_tokens)
<1>1. PICK victims \in SUBSET DOMAIN entries, owned \in SUBSET Pages :
        /\ KeepsEntries(DOMAIN entries \ victims, borrowed)
        /\ Cardinality(owned) = RequiredPages(prompt, max_tokens)
        /\ Admits(r, NewReservation(prompt, max_tokens, borrowed, owned))
  BY BeginAdmittedEffect
<1>2. /\ r \in DOMAIN active_requests'
      /\ active_requests'[r].owned_pages = owned
      /\ active_requests'[r].borrowed_prefix = borrowed
      /\ active_requests'[r].estimated_bytes = estimated
  BY <1>1 DEF Admits, NewReservation
<1>3. estimated \in Nat /\ borrowed \in SUBSET DOMAIN entries
  BY EstimateType, LongestPrefixIsEntry
<1>4. PagesOf(active_requests[r].borrowed_prefix)' = UNION {entries'[k].pages : k \in borrowed}
  BY <1>2 DEF PagesOf
<1>5. CASE borrowed = {}
  <2>1. RequiredPages(prompt, max_tokens) = PagesForBytes(estimated)
    BY <1>5 DEF RequiredPages, Additional, AdditionalBytes
  <2>2. owned \cup UNION {entries'[k].pages : k \in borrowed} = owned
    BY <1>5
  <2> QED
    BY <1>1, <1>2, <1>3, <1>4, <2>1, <2>2, PagesSuffice DEF Paid
<1>6. CASE borrowed # {}
  <2> DEFINE j == CHOOSE k \in borrowed : TRUE
  <2>1. j \in borrowed /\ j \in DOMAIN entries /\ j \in DOMAIN entries'
    BY <1>1, <1>3, <1>6 DEF KeepsEntries
  <2>2. entries'[j].pages = entries[j].pages
    BY <1>1, <2>1 DEF KeepsEntries, SameButPins
  <2>3. UNION {entries'[k].pages : k \in borrowed} = entries[j].pages
    BY <2>1, <2>2, LongestIsSingle DEF Single
  <2>4. owned \cap entries[j].pages = {}
    BY <1>2, <2>1, <2>2 DEF NoPageHeldTwice
  <2>5. /\ AdditionalBytes(estimated, borrowed) \in Nat
        /\ AdditionalBytes(estimated, borrowed) + entries[j].estimated_bytes >= estimated
    BY <1>3, <1>6, AdditionalSuffices
  <2>6. Paid(owned, AdditionalBytes(estimated, borrowed))
    BY <1>1, <2>5, PagesSuffice DEF Paid, RequiredPages, Additional
  <2>7. Paid(entries[j].pages, entries[j].estimated_bytes)
    BY <2>1 DEF EntriesPaid
  <2>8. entries[j].pages \in SUBSET Pages /\ entries[j].estimated_bytes \in Nat
    BY <2>1 DEF TypeOK, Entry
  <2>9. Paid(owned \cup entries[j].pages,
             AdditionalBytes(estimated, borrowed) + entries[j].estimated_bytes)
    BY <2>4, <2>5, <2>6, <2>7, <2>8, DisjointPay
  <2>10. Paid(owned \cup entries[j].pages, estimated)
    <3>1. Cardinality(owned \cup entries[j].pages) * PageSize \in Nat
      <4>1. IsFiniteSet(owned \cup entries[j].pages)
        BY <2>8, PagesAssumption, FS_Subset
      <4> QED
        BY <4>1, FS_CardinalityType, NatProduct, SizeAssumption
    <3> HIDE DEF j, borrowed, estimated
    <3> QED
      BY <1>3, <2>5, <2>8, <2>9, <3>1 DEF Paid
  <2> QED
    BY <1>2, <1>4, <2>3, <2>10
<1> QED
  BY <1>5, <1>6

\* An entry that outlives a step keeps its pages, if no hashes collide.
LEMMA PagesStay ==
  ASSUME HashInjective, TypeOK, KeyedByHash, [ManagerNext]_vars,
         NEW k \in DOMAIN entries, k \in DOMAIN entries'
  PROVE  entries'[k].pages = entries[k].pages
BY PageMoves, FreshKey DEF EvictAndLease, EvictOnly, EvictAndFill, ReleaseLease, KeepsPages

\* An active request was active before with the same reservation, or this step
\* admitted it.
LEMMA AdmittedOrSame ==
  ASSUME TypeOK, [ManagerNext]_vars, NEW q \in DOMAIN active_requests'
  PROVE  \/ q \in DOMAIN active_requests /\ active_requests'[q] = active_requests[q]
         \/ \E prompt \in Prompts, max_tokens \in MaxTokens : \E observed :
              q \in Requests /\ BeginAdmitted(q, prompt, max_tokens, observed)
<1>1. ASSUME NEW prompt \in Prompts, NEW max_tokens \in MaxTokens, NEW observed,
             NEW r \in Requests, BeginAdmitted(r, prompt, max_tokens, observed)
      PROVE  q = r \/ (q \in DOMAIN active_requests /\ active_requests'[q] = active_requests[q])
  <2>1. PICK reservation : Admits(r, reservation)
    BY <1>1, BeginAdmittedEffect
  <2> QED
    BY <2>1 DEF Admits
<1>2. ASSUME NEW r \in Requests, FinishRequest(r)
      PROVE  q \in DOMAIN active_requests /\ active_requests'[q] = active_requests[q]
  BY <1>2, FinishRequestEffect
<1>3. ASSUME NEW prompt \in Prompts, NEW max_tokens \in MaxTokens, NEW observed,
             \/ BeginOverBudget(prompt, max_tokens)
             \/ BeginOverRuntimeBudget(prompt, max_tokens, observed)
             \/ BeginNoPages(prompt, max_tokens, observed)
      PROVE  UNCHANGED active_requests
  BY <1>3 DEF BeginOverBudget, BeginOverRuntimeBudget, BeginNoPages, vars
<1>4. ASSUME NEW prompt \in Prompts, StorePrefix(prompt)
      PROVE  UNCHANGED active_requests
  BY <1>4 DEF StorePrefix, StoreSkipped, StoreReplaced, StoreInserted, StoreGivesUp, vars
<1>5. ASSUME ClearPrefixes \/ UNCHANGED vars
      PROVE  UNCHANGED active_requests
  BY <1>5 DEF ClearPrefixes, vars
<1> QED
  BY <1>1, <1>2, <1>3, <1>4, <1>5 DEF ManagerNext, BeginRequest

LEMMA CoverageStep ==
  ASSUME HashInjective, TypeOK, TypeOK', KeyedByHash, PinsCoverBorrowers, PinsCoverBorrowers',
         NoPageHeldTwice', EntriesPaid, ReservationCoversEstimate, [ManagerNext]_vars
  PROVE  ReservationCoversEstimate'
<1> SUFFICES ASSUME NEW q \in DOMAIN active_requests'
             PROVE  Paid(active_requests'[q].owned_pages
                           \cup PagesOf(active_requests[q].borrowed_prefix)',
                         active_requests'[q].estimated_bytes)
  BY DEF ReservationCoversEstimate, Paid
<1>1. ASSUME q \in DOMAIN active_requests, active_requests'[q] = active_requests[q]
      PROVE  Paid(active_requests'[q].owned_pages
                    \cup PagesOf(active_requests[q].borrowed_prefix)',
                  active_requests'[q].estimated_bytes)
  <2>1. \A k \in active_requests[q].borrowed_prefix :
           k \in DOMAIN entries /\ k \in DOMAIN entries' /\ entries'[k].pages = entries[k].pages
    BY <1>1, PagesStay DEF PinsCoverBorrowers
  <2>2. PagesOf(active_requests[q].borrowed_prefix)' = PagesOf(active_requests[q].borrowed_prefix)
    BY <1>1, <2>1 DEF PagesOf
  <2> QED
    BY <1>1, <2>2 DEF ReservationCoversEstimate, Paid
<1>2. ASSUME NEW prompt \in Prompts, NEW max_tokens \in MaxTokens, NEW observed,
             q \in Requests, BeginAdmitted(q, prompt, max_tokens, observed)
      PROVE  Paid(active_requests'[q].owned_pages
                    \cup PagesOf(active_requests[q].borrowed_prefix)',
                  active_requests'[q].estimated_bytes)
  BY <1>2, AdmittedPaid
<1> QED
  BY <1>1, <1>2, AdmittedOrSame

\* Own and borrowed pages are always enough for the bytes a request was admitted
\* with: neither rounding, nor the subtraction of borrowed bytes, nor an eviction
\* under the borrower ever under-reserves.
LEMMA ManagerCovers == HashInjective => (ManagerSpec => []ReservationCoversEstimate)
<1> SUFFICES ASSUME HashInjective PROVE ManagerSpec => []ReservationCoversEstimate
  OBVIOUS
<1>1. Init => EntriesPaid /\ ReservationCoversEstimate
  BY DEF Init, EntriesPaid, ReservationCoversEstimate
<1>2. TypeOK /\ EntriesPaid /\ [ManagerNext]_vars => EntriesPaid'
  BY EntriesPaidStep
<1>3. /\ TypeOK /\ TypeOK' /\ KeyedByHash /\ PinsCoverBorrowers /\ PinsCoverBorrowers'
      /\ NoPageHeldTwice' /\ EntriesPaid /\ ReservationCoversEstimate /\ [ManagerNext]_vars
      => ReservationCoversEstimate'
  BY CoverageStep
<1>4. ManagerSpec => []PinsCoverBorrowers
  BY ManagerPins
<1> QED
  BY <1>1, <1>2, <1>3, <1>4, ManagerType, KeysCorrect, ManagerPagesApart, PTL DEF ManagerSpec

\* The pages of a request and of the entry it borrows from pay for the bytes it
\* was admitted with, for as long as it is active.
THEOREM ReservationsPaid == HashInjective => (Spec => []ReservationCoversEstimate)
BY SpecIsManagerSpec, ManagerCovers

-----------------------------------------------------------------------------
(***************************************************************************)
(* The counters                                                            *)
(***************************************************************************)

\* An entry is estimated at its tokens' bytes.
EstimatedByTokens ==
    \A k \in DOMAIN entries : entries[k].estimated_bytes = PrefixBytes(entries[k].tokens)

LEMMA EstimatedStep ==
  ASSUME TypeOK, EstimatedByTokens, [ManagerNext]_vars
  PROVE  EstimatedByTokens'
<1>1. ASSUME NEW kept, NEW borrowed, KeepsEntries(kept, borrowed) PROVE EstimatedByTokens'
  BY <1>1 DEF KeepsEntries, SameButPins, EstimatedByTokens, PrefixBytes
<1>2. ASSUME UNCHANGED entries PROVE EstimatedByTokens'
  BY <1>2 DEF EstimatedByTokens, PrefixBytes
<1>3. ASSUME NEW prompt \in Prompts, NEW max_tokens \in MaxTokens,
             NEW observed, BeginRequest(prompt, max_tokens, observed)
      PROVE  EstimatedByTokens'
  BY <1>1, <1>2, <1>3, BeginOverRuntimeBudgetEffect, BeginNoPagesEffect, BeginAdmittedEffect
     DEF BeginRequest, BeginOverBudget, vars
<1>4. ASSUME NEW r \in Requests, FinishRequest(r) PROVE EstimatedByTokens'
  BY <1>4, FinishRequestEffect DEF SameButPins, EstimatedByTokens, PrefixBytes
<1>5. ASSUME NEW prompt \in Prompts, StoreInserted(prompt) PROVE EstimatedByTokens'
  <2>1. PICK victims \in SUBSET Unpinned, owned \in SUBSET Pages :
            /\ DOMAIN entries' = (DOMAIN entries \ victims) \cup {Hash[prompt]}
            /\ \A j \in DOMAIN entries \ victims :
                 j # Hash[prompt] => entries'[j] = entries[j]
            /\ entries'[Hash[prompt]] =
                 [tokens |-> prompt, pages |-> owned,
                  estimated_bytes |-> PrefixBytes(prompt), pin_count |-> 0]
    BY <1>5, StoreInsertedEffect
  <2> QED
    BY <2>1 DEF EstimatedByTokens, PrefixBytes
<1>6. ASSUME (\E prompt \in Prompts : StoreGivesUp(prompt)) \/ ClearPrefixes
      PROVE  EstimatedByTokens'
  BY <1>1, <1>6, EvictAllEffect DEF EvictsAllUnpinned
<1>7. ASSUME NEW prompt \in Prompts, StoreSkipped(prompt) \/ StoreReplaced(prompt)
      PROVE  EstimatedByTokens'
  BY <1>2, <1>7 DEF StoreSkipped, StoreReplaced, vars
<1>8. CASE UNCHANGED vars
  BY <1>2, <1>8 DEF vars
<1> QED
  BY <1>3, <1>4, <1>5, <1>6, <1>7, <1>8 DEF ManagerNext, StorePrefix

\* So an entry that outlives a step keeps its estimate, if no hashes collide.
LEMMA EstimateStays ==
  ASSUME HashInjective, TypeOK, TypeOK', KeyedByHash, EstimatedByTokens, EstimatedByTokens',
         [ManagerNext]_vars, NEW k \in DOMAIN entries, k \in DOMAIN entries'
  PROVE  entries'[k].estimated_bytes = entries[k].estimated_bytes
<1>1. entries[k].tokens \in Prompts /\ entries'[k].tokens \in Prompts
  BY DEF TypeOK, Entry
<1>2. Hash[entries[k].tokens] = k
  BY DEF KeyedByHash
<1>3. entries'[k].tokens = entries[k].tokens
  BY <1>1, <1>2, TokensStay DEF HashInjective
<1> QED
  BY <1>3 DEF EstimatedByTokens, PrefixBytes

\* The pages of its own pay for what a request does not borrow.
OwnPaid ==
    \A r \in DOMAIN active_requests :
        LET active == active_requests[r]
        IN  Paid(active.owned_pages, AdditionalBytes(active.estimated_bytes, active.borrowed_prefix))

\* What is to be paid for depends on the estimate of what is borrowed only.
LEMMA AdditionalStays ==
  ASSUME NEW estimated, NEW borrowed,
         \A k \in borrowed : entries'[k].estimated_bytes = entries[k].estimated_bytes
  PROVE  AdditionalBytes(estimated, borrowed)' = AdditionalBytes(estimated, borrowed)
<1>1. CASE borrowed = {}
  BY <1>1 DEF AdditionalBytes
<1>2. CASE borrowed # {}
  <2>1. (CHOOSE k \in borrowed : TRUE) \in borrowed
    BY <1>2
  <2> QED
    BY <1>2, <2>1 DEF AdditionalBytes
<1> QED
  BY <1>1, <1>2

LEMMA AdmittedOwnPaid ==
  ASSUME TypeOK, NEW prompt \in Prompts, NEW max_tokens \in MaxTokens, NEW observed,
         NEW r \in Requests, BeginAdmitted(r, prompt, max_tokens, observed)
  PROVE  Paid(active_requests'[r].owned_pages,
              AdditionalBytes(active_requests[r].estimated_bytes,
                              active_requests[r].borrowed_prefix)')
<1> DEFINE borrowed  == FindLongestPrefixKey(prompt)
           estimated == EstimatedBytes(prompt, max_tokens)
<1>1. PICK victims \in SUBSET DOMAIN entries, owned \in SUBSET Pages :
        /\ KeepsEntries(DOMAIN entries \ victims, borrowed)
        /\ Cardinality(owned) = RequiredPages(prompt, max_tokens)
        /\ Admits(r, NewReservation(prompt, max_tokens, borrowed, owned))
  BY BeginAdmittedEffect
<1>2. /\ active_requests'[r].owned_pages = owned
      /\ active_requests'[r].borrowed_prefix = borrowed
      /\ active_requests'[r].estimated_bytes = estimated
  BY <1>1 DEF Admits, NewReservation
<1>3. estimated \in Nat /\ borrowed \in SUBSET DOMAIN entries
  BY EstimateType, LongestPrefixIsEntry
<1>4. AdditionalBytes(estimated, borrowed) \in Nat
  <2>1. CASE borrowed = {}
    BY <1>3, <2>1 DEF AdditionalBytes
  <2>2. CASE borrowed # {}
    BY <1>3, <2>2, AdditionalSuffices
  <2> QED
    BY <2>1, <2>2
<1>5. Paid(owned, AdditionalBytes(estimated, borrowed))
  BY <1>1, <1>4, PagesSuffice DEF Paid, RequiredPages, Additional
<1>6. \A k \in borrowed : entries'[k].estimated_bytes = entries[k].estimated_bytes
  BY <1>1 DEF KeepsEntries, SameButPins
<1>7. AdditionalBytes(active_requests[r].estimated_bytes, active_requests[r].borrowed_prefix)'
        = AdditionalBytes(estimated, borrowed)
  BY <1>2, <1>6, AdditionalStays
<1> QED
  BY <1>2, <1>5, <1>7

LEMMA OwnPaidStep ==
  ASSUME HashInjective, TypeOK, TypeOK', KeyedByHash, PinsCoverBorrowers, PinsCoverBorrowers',
         EstimatedByTokens, EstimatedByTokens', OwnPaid, [ManagerNext]_vars
  PROVE  OwnPaid'
<1> SUFFICES ASSUME NEW q \in DOMAIN active_requests'
             PROVE  Paid(active_requests'[q].owned_pages,
                         AdditionalBytes(active_requests[q].estimated_bytes,
                                         active_requests[q].borrowed_prefix)')
  BY DEF OwnPaid, Paid
<1>1. ASSUME q \in DOMAIN active_requests, active_requests'[q] = active_requests[q]
      PROVE  Paid(active_requests'[q].owned_pages,
                  AdditionalBytes(active_requests[q].estimated_bytes,
                                  active_requests[q].borrowed_prefix)')
  <2> DEFINE active == active_requests[q]
  <2>1. \A k \in active.borrowed_prefix :
           entries'[k].estimated_bytes = entries[k].estimated_bytes
    BY <1>1, EstimateStays DEF PinsCoverBorrowers
  <2>2. AdditionalBytes(active.estimated_bytes, active.borrowed_prefix)'
          = AdditionalBytes(active.estimated_bytes, active.borrowed_prefix)
    BY <1>1, <2>1, AdditionalStays
  <2> QED
    BY <1>1, <2>2 DEF OwnPaid
<1>2. ASSUME NEW prompt \in Prompts, NEW max_tokens \in MaxTokens, NEW observed,
             q \in Requests, BeginAdmitted(q, prompt, max_tokens, observed)
      PROVE  Paid(active_requests'[q].owned_pages,
                  AdditionalBytes(active_requests[q].estimated_bytes,
                                  active_requests[q].borrowed_prefix)')
  BY <1>2, AdmittedOwnPaid
<1> QED
  BY <1>1, <1>2, AdmittedOrSame

\* Sets of pages that are apart pay together for all that each pays for.
LEMMA PayTogether ==
  ASSUME NEW S, IsFiniteSet(S), NEW held, NEW bytes,
         \A x \in S : held[x] \in SUBSET Pages /\ bytes[x] \in Nat /\ Paid(held[x], bytes[x]),
         \A x, y \in S : x # y => held[x] \cap held[y] = {}
  PROVE  Paid(UNION {held[x] : x \in S}, SumFunctionOnSet(bytes, S))
<1> DEFINE All(s)  == UNION {held[x] : x \in s}
           Good    == {s \in SUBSET S : Paid(All(s), SumFunctionOnSet(bytes, s))}
<1>1. {} \in Good
  <2>1. All({}) = {} /\ SumFunctionOnSet(bytes, {}) = 0 /\ Cardinality({}) = 0
    BY SumEmpty, FS_EmptySet
  <2>2. 0 * PageSize >= 0
    BY SizeAssumption
  <2> HIDE DEF All
  <2>3. Cardinality(All({})) = 0 /\ SumFunctionOnSet(bytes, {}) = 0
    BY <2>1
  <2>4. Paid(All({}), SumFunctionOnSet(bytes, {}))
    BY <2>2, <2>3, Zenon DEF Paid
  <2> QED
    BY <2>4
<1>2. ASSUME NEW s \in SUBSET S, NEW x \in S \ s, s \in Good PROVE s \cup {x} \in Good
  <2>1. All(s \cup {x}) = All(s) \cup held[x] /\ All(s) \in SUBSET Pages
    OBVIOUS
  <2>2. All(s) \cap held[x] = {}
    OBVIOUS
  <2>3. IsFiniteSet(s) /\ \A y \in s \cup {x} : bytes[y] \in Int
    BY FS_Subset
  <2>4. SumFunctionOnSet(bytes, s \cup {x}) = bytes[x] + SumFunctionOnSet(bytes, s)
    BY <1>2, <2>3, SumPutIn
  <2>5. SumFunctionOnSet(bytes, s) \in Nat
    BY <2>3, SumNatural
  <2>6. Paid(All(s), SumFunctionOnSet(bytes, s)) /\ held[x] \in SUBSET Pages
        /\ bytes[x] \in Nat /\ Paid(held[x], bytes[x])
    BY <1>2
  <2> HIDE DEF All
  <2>7. Paid(All(s) \cup held[x], SumFunctionOnSet(bytes, s) + bytes[x])
    BY <2>1, <2>2, <2>5, <2>6, DisjointPay
  <2>8. SumFunctionOnSet(bytes, s) + bytes[x] = SumFunctionOnSet(bytes, s \cup {x})
    BY <2>4, <2>5, <2>6
  <2> QED
    BY <2>1, <2>7, <2>8
<1> HIDE DEF Good
<1>3. S \in Good
  BY <1>1, <1>2, SubsetsReached
<1> QED
  BY <1>3 DEF Good

\* An estimate is what is borrowed and what is not, or less.
LEMMA EstimateIsBoth ==
  ASSUME TypeOK, PinsCoverBorrowers, NEW r \in DOMAIN active_requests
  PROVE  LET active == active_requests[r]
             own    == AdditionalBytes(active.estimated_bytes, active.borrowed_prefix)
         IN  /\ own \in Nat /\ BorrowedBy(r) \in Nat
             /\ active.estimated_bytes \in Nat
             /\ active.estimated_bytes <= own + BorrowedBy(r)
<1> DEFINE active == active_requests[r]
<1>1. active.estimated_bytes \in Nat
  BY DEF TypeOK, Reservation
<1>2. CASE active.borrowed_prefix = {}
  BY <1>1, <1>2 DEF AdditionalBytes, BorrowedBy
<1>3. CASE active.borrowed_prefix # {}
  <2> DEFINE k == CHOOSE k \in active.borrowed_prefix : TRUE
             own == AdditionalBytes(active.estimated_bytes, active.borrowed_prefix)
  <2>1. active.borrowed_prefix \in SUBSET DOMAIN entries
    BY DEF PinsCoverBorrowers
  <2>2. own \in Nat /\ own + entries[k].estimated_bytes >= active.estimated_bytes
    BY <1>1, <1>3, <2>1, AdditionalSuffices
  <2>3. k \in DOMAIN entries
    BY <1>3, <2>1
  <2>4. entries[k].estimated_bytes \in Nat
    BY <2>3 DEF TypeOK, Entry
  <2>5. BorrowedBy(r) = entries[k].estimated_bytes
    BY <1>3 DEF BorrowedBy
  <2> HIDE DEF own, k
  <2>6. own \in Nat /\ BorrowedBy(r) \in Nat /\ active.estimated_bytes <= own + BorrowedBy(r)
    BY <1>1, <2>2, <2>4, <2>5
  <2> QED
    BY <1>1, <2>6 DEF own
<1> QED
  BY <1>2, <1>3

\* Then the pages in use pay for everything counted, but what is borrowed.
LEMMA CountersAgree ==
  ASSUME TypeOK, IsFiniteSet(DOMAIN entries), NoPageHeldTwice, PinsCoverBorrowers,
         EntriesPaid, OwnPaid
  PROVE  StatsAddUp
<1> DEFINE E        == DOMAIN entries
           A        == DOMAIN active_requests
           kept     == [k \in E |-> entries[k].pages]
           inPrefix == [k \in E |-> entries[k].estimated_bytes]
           leased   == [r \in A |-> active_requests[r].owned_pages]
           estimate == [r \in A |-> active_requests[r].estimated_bytes]
           borrows  == [r \in A |-> BorrowedBy(r)]
           own      == [r \in A |-> AdditionalBytes(active_requests[r].estimated_bytes,
                                                    active_requests[r].borrowed_prefix)]
           both     == [r \in A |-> own[r] + borrows[r]]
           cached   == UNION {kept[k] : k \in E}
           lent     == UNION {leased[r] : r \in A}
<1>1. IsFiniteSet(A)
  BY RequestAssumption, FS_Subset DEF TypeOK
<1>2. cached \in SUBSET Pages /\ lent \in SUBSET Pages /\ cached \cap lent = {}
      /\ (cached \cup lent) \cap free_pages = {}
  BY DEF TypeOK, Entry, Reservation, NoPageHeldTwice
<1>3. Paid(cached, SumFunctionOnSet(inPrefix, E))
  <2>1. \A k \in E : kept[k] \in SUBSET Pages /\ inPrefix[k] \in Nat /\ Paid(kept[k], inPrefix[k])
    BY DEF TypeOK, Entry, EntriesPaid
  <2>2. \A j, k \in E : j # k => kept[j] \cap kept[k] = {}
    BY DEF NoPageHeldTwice
  <2> HIDE DEF kept, inPrefix, E
  <2> QED
    BY <2>1, <2>2, PayTogether DEF E
<1>4. \A r \in A : /\ own[r] \in Nat /\ borrows[r] \in Nat /\ estimate[r] \in Nat
                   /\ estimate[r] <= own[r] + borrows[r]
  BY EstimateIsBoth
<1>5. Paid(lent, SumFunctionOnSet(own, A))
  <2>1. \A r \in A : leased[r] \in SUBSET Pages /\ own[r] \in Nat /\ Paid(leased[r], own[r])
    BY <1>4 DEF TypeOK, Reservation, OwnPaid
  <2>2. \A q, r \in A : q # r => leased[q] \cap leased[r] = {}
    BY DEF NoPageHeldTwice
  <2> HIDE DEF leased, own, A
  <2> QED
    BY <1>1, <2>1, <2>2, PayTogether
<1>6. SumFunctionOnSet(estimate, A) <= SumFunctionOnSet(own, A) + SumFunctionOnSet(borrows, A)
  <2>1. \A r \in A : both[r] = own[r] + borrows[r]
    OBVIOUS
  <2> HIDE DEF both, own, borrows, estimate, A
  <2>2. \A r \in A : estimate[r] \in Int /\ both[r] \in Int /\ estimate[r] <= both[r]
                     /\ own[r] \in Int /\ borrows[r] \in Int
    BY <1>4, <2>1
  <2>3. SumFunctionOnSet(estimate, A) <= SumFunctionOnSet(both, A)
    BY <1>1, <2>2, SumMonotone
  <2>4. SumFunctionOnSet(both, A) = SumFunctionOnSet(own, A) + SumFunctionOnSet(borrows, A)
    BY <1>1, <2>1, <2>2, SumOfBoth
  <2> QED
    BY <2>3, <2>4
<1>7. /\ SumFunctionOnSet(inPrefix, E) \in Nat /\ SumFunctionOnSet(own, A) \in Nat
      /\ SumFunctionOnSet(borrows, A) \in Nat /\ SumFunctionOnSet(estimate, A) \in Nat
  <2>1. \A k \in E : inPrefix[k] \in Nat
    BY DEF TypeOK, Entry
  <2> HIDE DEF inPrefix, own, borrows, estimate, A, E
  <2> QED
    BY <1>1, <1>4, <2>1, SumNatural DEF E
<1>8. Paid(cached \cup lent, SumFunctionOnSet(inPrefix, E) + SumFunctionOnSet(own, A))
  <2> HIDE DEF cached, lent, inPrefix, own, E, A
  <2> QED
    BY <1>2, <1>3, <1>5, <1>7, DisjointPay
<1>9. /\ IsFiniteSet(Pages) /\ IsFiniteSet(free_pages) /\ IsFiniteSet(cached \cup lent)
      /\ Cardinality(Pages) \in Nat /\ Cardinality(free_pages) \in Nat
      /\ Cardinality(cached \cup lent) \in Nat
      /\ Cardinality(cached \cup lent) + Cardinality(free_pages) <= Cardinality(Pages)
  <2> DEFINE held == cached \cup lent
  <2>1. held \in SUBSET Pages /\ free_pages \in SUBSET Pages /\ held \cap free_pages = {}
    BY <1>2 DEF TypeOK
  <2> HIDE DEF held
  <2>2. /\ IsFiniteSet(Pages) /\ IsFiniteSet(free_pages) /\ IsFiniteSet(held)
        /\ IsFiniteSet(held \cup free_pages)
    BY <2>1, PagesAssumption, FS_Subset
  <2>3. /\ Cardinality(Pages) \in Nat /\ Cardinality(free_pages) \in Nat
        /\ Cardinality(held) \in Nat
    BY <2>2, FS_CardinalityType
  <2>4. Cardinality(held \cup free_pages) = Cardinality(held) + Cardinality(free_pages)
    <3>1. Cardinality(held \cap free_pages) = 0
      BY <2>1, FS_EmptySet
    <3>2. Cardinality(held \cup free_pages)
            = Cardinality(held) + Cardinality(free_pages) - Cardinality(held \cap free_pages)
      BY <2>2, FS_Union
    <3> QED
      BY <2>3, <3>1, <3>2
  <2>5. Cardinality(held \cup free_pages) <= Cardinality(Pages)
    BY <2>1, PagesAssumption, FS_Subset
  <2> QED
    BY <2>2, <2>3, <2>4, <2>5 DEF held
<1> DEFINE used == Cardinality(Pages) - Cardinality(free_pages)
<1>10. /\ used \in Nat /\ used * PageSize \in Nat
       /\ Cardinality(cached \cup lent) * PageSize <= used * PageSize
       /\ used * PageSize <= Cardinality(Pages) * PageSize
  <2> DEFINE c == Cardinality(cached \cup lent)
  <2>1. used \in Nat /\ c \in Nat /\ c <= used /\ used <= Cardinality(Pages)
    BY <1>9
  <2> HIDE DEF c, used
  <2>2. \A m, n, p \in Nat : m <= n => m * p \in Nat /\ n * p \in Nat /\ m * p <= n * p
    OBVIOUS
  <2>3. PageSize \in Nat /\ Cardinality(Pages) \in Nat
    BY <1>9, SizeAssumption
  <2> QED
    BY <2>1, <2>2, <2>3 DEF c
<1>11. /\ Stats.active_request_bytes = SumFunctionOnSet(estimate, A)
       /\ Stats.prefix_bytes = SumFunctionOnSet(inPrefix, E)
       /\ Stats.total_used_bytes = used * PageSize
       /\ Stats.total_capacity_bytes = Cardinality(Pages) * PageSize
       /\ BorrowedBytes = SumFunctionOnSet(borrows, A)
  BY DEF Stats, BorrowedBytes, SumFunction, Capacity
<1> HIDE DEF cached, lent, inPrefix, own, borrows, estimate, E, A, used
<1>12. Cardinality(cached \cup lent) * PageSize
         >= SumFunctionOnSet(inPrefix, E) + SumFunctionOnSet(own, A)
  BY <1>8 DEF Paid
<1>13. Cardinality(cached \cup lent) * PageSize \in Nat /\ Cardinality(Pages) * PageSize \in Nat
  BY <1>9, NatProduct, SizeAssumption
<1> QED
  BY <1>6, <1>7, <1>10, <1>11, <1>12, <1>13 DEF StatsAddUp

LEMMA ManagerCounts == HashInjective => (ManagerSpec => []StatsAddUp)
<1> SUFFICES ASSUME HashInjective PROVE ManagerSpec => []StatsAddUp
  OBVIOUS
<1>1. Init => EntriesPaid /\ EstimatedByTokens /\ OwnPaid
  BY DEF Init, EntriesPaid, EstimatedByTokens, OwnPaid
<1>2. TypeOK /\ EntriesPaid /\ [ManagerNext]_vars => EntriesPaid'
  BY EntriesPaidStep
<1>3. TypeOK /\ EstimatedByTokens /\ [ManagerNext]_vars => EstimatedByTokens'
  BY EstimatedStep
<1>4. /\ TypeOK /\ TypeOK' /\ KeyedByHash /\ PinsCoverBorrowers /\ PinsCoverBorrowers'
      /\ EstimatedByTokens /\ EstimatedByTokens' /\ OwnPaid /\ [ManagerNext]_vars
      => OwnPaid'
  BY OwnPaidStep
<1>5. TypeOK /\ OrderInv /\ NoPageHeldTwice /\ PinsCoverBorrowers /\ EntriesPaid /\ OwnPaid
      => StatsAddUp
  BY CountersAgree DEF OrderInv, Limited
<1>6. ManagerSpec => []PinsCoverBorrowers
  BY ManagerPins
<1> QED
  BY <1>1, <1>2, <1>3, <1>4, <1>5, <1>6, ManagerType, KeysCorrect, ManagerOrder,
     ManagerPagesApart, PTL DEF ManagerSpec

\* The counters of stats agree with each other: the pages in use pay for what
\* requests and prefixes are estimated at, counting borrowed bytes once, and
\* never exceed the capacity.
THEOREM StatsAgree == HashInjective => (Spec => []StatsAddUp)
BY SpecIsManagerSpec, ManagerCounts
=============================================================================
