---------------------------- MODULE ServerProofs ----------------------------
(***************************************************************************)
(* Theorems about Backpressure and about the Server that uses it, for any  *)
(* number of requests of any kind, any limits and any channel: slots are   *)
(* conserved, the line in front of the run slot is exactly those who wait  *)
(* for it, the run slot is never idle while somebody waits; handlers use   *)
(* the controller as this assumes, slots come back, a completed stream is  *)
(* complete, and an answer without a stream is final.                      *)
(***************************************************************************)
EXTENDS Server, FiniteSetTheorems, SequenceTheorems, TLAPS

-----------------------------------------------------------------------------
(***************************************************************************)
(* The admission controller                                                *)
(***************************************************************************)

\* q lists the members of W, once each.
Lists(q, W) ==
    /\ q \in Seq(Clients)
    /\ \A i, j \in 1..Len(q) : q[i] = q[j] => i = j
    /\ \A i \in 1..Len(q) : q[i] \in W
    /\ \A w \in W : \E i \in 1..Len(q) : q[i] = w

InLine == {c \in Clients : place[c] = "waiting" /\ c \notin run_permits}

\* The inductive invariant: where requests stand, ...
PlaceInv == place \in [Clients -> Places]
\* ... what has become of the queue slots, ...
QueueInv ==
    /\ queue_slots \in Nat
    /\ queue_slots + Cardinality(HoldsQueueSlot) = TotalSlots
\* ... what has become of the run slots, ...
RunInv ==
    /\ run_slots \in Nat
    /\ run_permits \subseteq Clients
    /\ run_slots + Cardinality(run_permits) = Running
    /\ HoldsRunSlot \subseteq run_permits
    /\ \A c \in run_permits : place[c] \in {"waiting", "running", "ending"}
    /\ run_slots > 0 => run_queue = << >>
\* ... and who stands in line.
LineInv == Lists(run_queue, InLine)

BPInv == PlaceInv /\ QueueInv /\ RunInv /\ LineInv

-----------------------------------------------------------------------------
\* The limits, after clamping.
LEMMA Limits == TotalSlots \in Nat /\ Running \in Nat /\ Running <= 1
BY LimitsAssumption
   DEF TotalSlots, Running, Admitted, AtLeastOne, MAX_PARALLEL_GENERATIONS

\* Who joins a line stands at its end.
LEMMA ListsJoin ==
    ASSUME NEW q, NEW W, Lists(q, W), NEW c \in Clients, c \notin W
    PROVE  Lists(Append(q, c), W \cup {c})
BY DEF Lists

\* The head of a line is a member of it, and the tail is the line without it.
LEMMA ListsAdvance ==
    ASSUME NEW q, NEW W, Lists(q, W), q # << >>
    PROVE  /\ Head(q) \in W /\ Head(q) \in Clients
           /\ Lists(Tail(q), W \ {Head(q)})
<1>1. /\ q \in Seq(Clients) /\ Len(q) \in Nat /\ Len(q) >= 1
      /\ Head(q) = q[1] /\ Head(q) \in Clients
      /\ Tail(q) \in Seq(Clients) /\ Len(Tail(q)) = Len(q) - 1
      /\ \A i \in 1..Len(Tail(q)) : Tail(q)[i] = q[i + 1]
  BY DEF Lists
<1>2. \A w \in W \ {Head(q)} : \E i \in 1..Len(Tail(q)) : Tail(q)[i] = w
  <2>1. SUFFICES ASSUME NEW w \in W \ {q[1]}
                 PROVE  \E i \in 1..Len(Tail(q)) : Tail(q)[i] = w
    BY <1>1
  <2>2. PICK i \in 1..Len(q) : q[i] = w
    BY DEF Lists
  <2>3. i # 1 /\ i - 1 \in 1..Len(Tail(q)) /\ Tail(q)[i - 1] = q[i]
    BY <1>1, <2>2
  <2>4. QED BY <2>2, <2>3
<1>3. \A i \in 1..Len(Tail(q)) : i + 1 \in 1..Len(q) /\ i + 1 # 1
  BY <1>1
<1>4. QED BY <1>1, <1>2, <1>3 DEF Lists

\* Who leaves a line leaves the others in it.
LEMMA ListsLeave ==
    ASSUME NEW q, NEW W, Lists(q, W), NEW i \in DOMAIN q
    PROVE  Lists(RemoveAt(q, i), W \ {q[i]})
<1> DEFINE r == RemoveAt(q, i)
<1>1. q \in Seq(Clients) /\ Len(q) \in Nat /\ i \in 1..Len(q)
  BY DEF Lists
<1>2. /\ r \in Seq(Clients)
      /\ Len(r) = Len(q) - 1
      /\ \A j \in 1..Len(r) : r[j] = IF j < i THEN q[j] ELSE q[j + 1]
  <2>1. /\ SubSeq(q, 1, i - 1) \in Seq(Clients)
        /\ Len(SubSeq(q, 1, i - 1)) = i - 1
        /\ \A j \in 1..(i - 1) : SubSeq(q, 1, i - 1)[j] = q[j]
    BY <1>1
  <2>2. /\ SubSeq(q, i + 1, Len(q)) \in Seq(Clients)
        /\ Len(SubSeq(q, i + 1, Len(q))) = Len(q) - i
        /\ \A j \in 1..(Len(q) - i) : SubSeq(q, i + 1, Len(q))[j] = q[i + j]
    BY <1>1
  <2> DEFINE a == SubSeq(q, 1, i - 1)
             b == SubSeq(q, i + 1, Len(q))
  <2>3. r = a \o b
    BY DEF RemoveAt
  <2> HIDE DEF a, b, r
  <2>4. /\ r \in Seq(Clients)
        /\ Len(r) = Len(a) + Len(b)
        /\ \A j \in 1..(Len(a) + Len(b)) :
              r[j] = IF j <= Len(a) THEN a[j] ELSE b[j - Len(a)]
    BY <2>1, <2>2, <2>3, ConcatProperties DEF a, b
  <2>5. Len(a) = i - 1 /\ Len(b) = Len(q) - i
    BY <2>1, <2>2 DEF a, b
  <2>6. ASSUME NEW j \in 1..Len(r)
        PROVE  r[j] = IF j < i THEN q[j] ELSE q[j + 1]
    <3>1. CASE j < i
      <4>1. j \in 1..(i - 1) /\ r[j] = a[j]
        BY <1>1, <2>4, <2>5, <3>1
      <4>2. QED BY <2>1, <3>1, <4>1 DEF a
    <3>2. CASE j >= i
      <4>1. j - (i - 1) \in 1..(Len(q) - i) /\ r[j] = b[j - (i - 1)]
        <5>1. Len(a) = i - 1 /\ i \in Int /\ j \in Int /\ Len(q) \in Int
          BY <1>1, <2>4, <2>5
        <5>2. j \in 1..(Len(a) + Len(b)) /\ ~(j <= Len(a))
          BY <2>4, <3>2, <5>1
        <5>3. r[j] = b[j - Len(a)]
          BY <2>4, <5>2
        <5>4. j <= Len(q) - 1 /\ j >= i
          BY <2>5, <3>2, <5>1, <5>2
        <5>5. QED BY <5>1, <5>3, <5>4
      <4>2. r[j] = q[i + (j - (i - 1))]
        BY <2>2, <4>1 DEF b
      <4>3. i + (j - (i - 1)) = j + 1
        BY <1>1, <2>4, <2>5
      <4>4. QED BY <1>1, <3>2, <4>2, <4>3
    <3>3. QED BY <1>1, <3>1, <3>2
  <2>7. QED BY <1>1, <2>4, <2>5, <2>6
<1> HIDE DEF r
<1>3. \A j \in 1..Len(r) : /\ (IF j < i THEN j ELSE j + 1) \in 1..Len(q)
                           /\ (IF j < i THEN j ELSE j + 1) # i
  BY <1>1, <1>2
<1>4. \A w \in W \ {q[i]} : \E j \in 1..Len(r) : r[j] = w
  <2>1. SUFFICES ASSUME NEW w \in W \ {q[i]}
                 PROVE  \E j \in 1..Len(r) : r[j] = w
    OBVIOUS
  <2>2. PICK k \in 1..Len(q) : q[k] = w
    BY DEF Lists
  <2>3. k # i
    BY <2>2
  <2>4. CASE k < i
    <3>1. k \in 1..Len(r) /\ r[k] = q[k]
      BY <1>1, <1>2, <2>4
    <3>2. QED BY <2>2, <3>1
  <2>5. CASE k > i
    <3>1. k - 1 \in 1..Len(r) /\ r[k - 1] = q[k]
      BY <1>1, <1>2, <2>5
    <3>2. QED BY <2>2, <3>1
  <2>6. QED BY <1>1, <2>3, <2>4, <2>5
<1>5. \A j \in 1..Len(r) : r[j] \in W \ {q[i]}
  <2>1. SUFFICES ASSUME NEW j \in 1..Len(r) PROVE r[j] \in W \ {q[i]}
    OBVIOUS
  <2>2. PICK k \in 1..Len(q) : k # i /\ r[j] = q[k]
    BY <1>2, <1>3
  <2>3. QED BY <1>1, <2>2 DEF Lists
<1>6. \A j, k \in 1..Len(r) : r[j] = r[k] => j = k
  BY <1>1, <1>2, <1>3 DEF Lists
<1>7. QED BY <1>2, <1>4, <1>5, <1>6 DEF Lists, r

-----------------------------------------------------------------------------
\* The requests are finitely many, so are those that hold something.
LEMMA FiniteHolders ==
    /\ IsFiniteSet(HoldsQueueSlot)
    /\ run_permits \subseteq Clients => IsFiniteSet(run_permits)
BY ClientsAssumption, FS_Subset DEF HoldsQueueSlot

\* Moving within the places that hold a queue slot, or within those that hold
\* none, leaves the queue slots alone.
LEMMA MoveKeepsQueueInv ==
    ASSUME BPInv, NEW c \in Clients, NEW p \in Places, MoveTo(c, p),
           p \in {"ticket", "waiting", "running", "abandoned"}
             <=> place[c] \in {"ticket", "waiting", "running", "abandoned"},
           UNCHANGED queue_slots
    PROVE  QueueInv'
<1>1. HoldsQueueSlot' = HoldsQueueSlot
  BY DEF BPInv, PlaceInv, HoldsQueueSlot, MoveTo
<1>2. QED BY <1>1 DEF BPInv, QueueInv

\* A request that moves keeps the places typed.
LEMMA MoveKeepsPlaceInv ==
    ASSUME BPInv, NEW c \in Clients, NEW p \in Places, MoveTo(c, p)
    PROVE  PlaceInv'
BY DEF BPInv, PlaceInv, MoveTo

\* A request that neither waits nor runs before or after a step which leaves
\* the run slots alone does not concern them.
LEMMA MoveKeepsRunInv ==
    ASSUME BPInv, NEW c \in Clients, NEW p \in Places, MoveTo(c, p),
           \/ /\ place[c] \in {"outside", "ticket", "abandoned"}
              /\ p \in {"outside", "ticket", "abandoned"}
           \/ /\ c \in run_permits
              /\ p \in {"running", "ending"},
           UNCHANGED <<run_slots, run_queue, run_permits>>
    PROVE  RunInv' /\ LineInv'
<1>1. InLine' = InLine
  BY DEF BPInv, PlaceInv, RunInv, InLine, MoveTo
<1>2. LineInv'
  BY <1>1 DEF BPInv, LineInv, Lists
<1>3. HoldsRunSlot' \subseteq HoldsRunSlot \cup {d \in {c} : c \in run_permits}
  BY DEF BPInv, PlaceInv, HoldsRunSlot, MoveTo
<1>4. \A d \in run_permits : place'[d] \in {"waiting", "running", "ending"}
  BY DEF BPInv, PlaceInv, RunInv, MoveTo
<1>5. QED BY <1>2, <1>3, <1>4 DEF BPInv, RunInv

\* Handing a permit on keeps the run slots in order, whether somebody stands in
\* line or not.
LEMMA PassOnKeepsRunInv ==
    ASSUME BPInv, NEW c \in run_permits, NEW p \in {"outside", "abandoned"},
           MoveTo(c, p), PassOn(c)
    PROVE  RunInv' /\ LineInv'
<1>1. /\ c \in Clients /\ run_permits \subseteq Clients
      /\ \A d \in Clients : place'[d] = IF d = c THEN p ELSE place[d]
  BY DEF BPInv, PlaceInv, RunInv, MoveTo
<1>2. /\ IsFiniteSet(run_permits \ {c})
      /\ Cardinality(run_permits \ {c}) = Cardinality(run_permits) - 1
      /\ Cardinality(run_permits) \in Nat
  BY <1>1, FiniteHolders, FS_RemoveElement, FS_CardinalityType
<1>3. HoldsRunSlot' \subseteq run_permits \ {c}
  BY <1>1 DEF BPInv, RunInv, HoldsRunSlot
<1>4. \A d \in run_permits \ {c} : place'[d] \in {"waiting", "running", "ending"}
  BY <1>1 DEF BPInv, RunInv
<1>5. CASE run_queue = << >>
  <2>1. run_permits' = run_permits \ {c} /\ run_slots' = run_slots + 1 /\ run_queue' = run_queue
    BY <1>5 DEF PassOn
  <2>2. InLine' = InLine
    BY <1>1, <2>1 DEF InLine, BPInv, RunInv, LineInv, PlaceInv
  <2>3. LineInv'
    BY <2>1, <2>2 DEF BPInv, LineInv, Lists
  <2>4. run_slots' + Cardinality(run_permits') = Running
    BY <1>2, <2>1, Limits DEF BPInv, RunInv
  <2>5. QED BY <1>1, <1>3, <1>4, <1>5, <2>1, <2>3, <2>4 DEF BPInv, RunInv
<1>6. CASE run_queue # << >>
  <2> DEFINE h == Head(run_queue)
  <2>1. /\ run_permits' = (run_permits \ {c}) \cup {h}
        /\ run_queue' = Tail(run_queue) /\ run_slots' = run_slots
    BY <1>6 DEF PassOn
  <2>2. h \in InLine /\ h \in Clients /\ Lists(Tail(run_queue), InLine \ {h})
    BY <1>6, ListsAdvance DEF BPInv, LineInv
  <2>3. h \notin run_permits /\ place[h] = "waiting" /\ h # c
    BY <2>2 DEF InLine
  <2>4. InLine' = InLine \ {h}
    BY <1>1, <2>1, <2>3 DEF InLine
  <2>5. LineInv'
    BY <2>1, <2>2, <2>4 DEF LineInv, Lists
  <2>6. Cardinality(run_permits') = Cardinality(run_permits)
    <3> DEFINE others == run_permits \ {c}
    <3>1. h \notin others /\ run_permits' = others \cup {h}
      BY <2>1, <2>3
    <3>2. IsFiniteSet(others) /\ Cardinality(others) = Cardinality(run_permits) - 1
      BY <1>2
    <3> HIDE DEF others, h
    <3>3. Cardinality(others \cup {h}) = Cardinality(others) + 1
      BY <3>1, <3>2, FS_AddElement
    <3>4. QED BY <1>2, <3>1, <3>2, <3>3
  <2>7. run_slots' + Cardinality(run_permits') = Running /\ run_slots' = 0
    BY <1>6, <2>1, <2>6 DEF BPInv, RunInv
  <2>8. \A d \in run_permits' : place'[d] \in {"waiting", "running", "ending"}
    BY <1>1, <1>4, <2>1, <2>2, <2>3
  <2>9. QED BY <1>1, <1>3, <2>1, <2>2, <2>5, <2>7, <2>8 DEF RunInv
<1>7. QED BY <1>5, <1>6

-----------------------------------------------------------------------------
\* At the start every slot is free and nobody is inside.
LEMMA BPInitInv == BPInit => BPInv
<1> SUFFICES ASSUME BPInit PROVE BPInv
  OBVIOUS
<1>1. HoldsQueueSlot = {} /\ HoldsRunSlot = {} /\ InLine = {} /\ run_permits = {}
  BY DEF BPInit, HoldsQueueSlot, HoldsRunSlot, InLine
<1>2. Cardinality(HoldsQueueSlot) = 0 /\ Cardinality(run_permits) = 0
  BY <1>1, FS_EmptySet
<1>3. Lists(run_queue, InLine)
  BY <1>1 DEF BPInit, Lists
<1>4. QED
  BY <1>1, <1>2, <1>3, Limits
     DEF BPInit, BPInv, PlaceInv, QueueInv, RunInv, LineInv, Places

\* A request that takes a queue slot.
LEMMA TryQueueInv == ASSUME BPInv, NEW c \in Clients, TryQueue(c) PROVE BPInv'
<1>1. HoldsQueueSlot' = HoldsQueueSlot \cup {c} /\ c \notin HoldsQueueSlot
  BY DEF BPInv, PlaceInv, HoldsQueueSlot, TryQueue, MoveTo
<1>2. Cardinality(HoldsQueueSlot') = Cardinality(HoldsQueueSlot) + 1
  BY <1>1, FiniteHolders, FS_AddElement
<1>3. Cardinality(HoldsQueueSlot) \in Nat
  BY FiniteHolders, FS_CardinalityType
<1>4. QueueInv'
  BY <1>2, <1>3, Limits DEF BPInv, QueueInv, TryQueue
<1>5. RunInv' /\ LineInv'
  BY MoveKeepsRunInv DEF TryQueue, Places
<1>6. PlaceInv'
  BY MoveKeepsPlaceInv DEF TryQueue, Places
<1>7. QED BY <1>4, <1>5, <1>6 DEF BPInv

\* A request that takes the run slot or stands in line for it.
LEMMA EnterRunQueueInv == ASSUME BPInv, NEW c \in Clients, EnterRunQueue(c) PROVE BPInv'
<1>1. /\ place[c] = "ticket" /\ c \notin run_permits
      /\ \A d \in Clients : place'[d] = IF d = c THEN "waiting" ELSE place[d]
  BY DEF BPInv, PlaceInv, RunInv, EnterRunQueue, MoveTo
<1>2. PlaceInv' /\ QueueInv'
  BY MoveKeepsPlaceInv, MoveKeepsQueueInv DEF EnterRunQueue, Places
<1>3. HoldsRunSlot' = HoldsRunSlot
  BY <1>1 DEF HoldsRunSlot
<1>4. c \notin InLine
  BY <1>1 DEF InLine
<1>5. CASE run_slots > 0
  <2>1. run_slots' = run_slots - 1 /\ run_permits' = run_permits \cup {c} /\ run_queue' = run_queue
    BY <1>5 DEF EnterRunQueue
  <2>2. InLine' = InLine
    BY <1>1, <2>1 DEF InLine
  <2>3. Cardinality(run_permits') = Cardinality(run_permits) + 1 /\ Cardinality(run_permits) \in Nat
    BY <1>1, <2>1, FiniteHolders, FS_AddElement, FS_CardinalityType DEF BPInv, RunInv
  <2>4. LineInv'
    BY <2>1, <2>2 DEF BPInv, LineInv, Lists
  <2>5. \A d \in run_permits' : place'[d] \in {"waiting", "running", "ending"}
    BY <1>1, <2>1 DEF BPInv, RunInv
  <2>6. RunInv'
    BY <1>3, <1>5, <2>1, <2>3, <2>5, Limits DEF BPInv, RunInv
  <2>7. QED BY <1>2, <2>4, <2>6 DEF BPInv
<1>6. CASE ~(run_slots > 0)
  <2>1. run_slots' = run_slots /\ run_permits' = run_permits /\ run_queue' = Append(run_queue, c)
    BY <1>6 DEF EnterRunQueue
  <2>2. InLine' = InLine \cup {c}
    BY <1>1, <2>1 DEF InLine
  <2>3. LineInv'
    BY <1>4, <2>1, <2>2, ListsJoin DEF BPInv, LineInv, Lists
  <2>4. \A d \in run_permits' : place'[d] \in {"waiting", "running", "ending"}
    BY <1>1, <2>1 DEF BPInv, RunInv
  <2>5. RunInv'
    BY <1>3, <1>6, <2>1, <2>4 DEF BPInv, RunInv
  <2>6. QED BY <1>2, <2>3, <2>5 DEF BPInv
<1>7. QED BY <1>5, <1>6

\* A request that gives up, in line or with a permit.
LEMMA AbandonWaitInv == ASSUME BPInv, NEW c \in Clients, AbandonWait(c) PROVE BPInv'
<1>1. /\ place[c] = "waiting"
      /\ \A d \in Clients : place'[d] = IF d = c THEN "abandoned" ELSE place[d]
  BY DEF BPInv, PlaceInv, AbandonWait, MoveTo
<1>2. PlaceInv' /\ QueueInv'
  BY MoveKeepsPlaceInv, MoveKeepsQueueInv DEF AbandonWait, Places
<1>3. CASE c \in run_permits
  <2>1. PassOn(c) /\ MoveTo(c, "abandoned")
    BY <1>3 DEF AbandonWait
  <2>2. RunInv' /\ LineInv'
    BY <1>3, <2>1, PassOnKeepsRunInv
  <2>3. QED BY <1>2, <2>2 DEF BPInv
<1>4. CASE c \notin run_permits
  <2>1. PICK i \in DOMAIN run_queue :
            run_queue[i] = c /\ run_queue' = RemoveAt(run_queue, i)
    BY <1>4 DEF AbandonWait
  <2>2. run_slots' = run_slots /\ run_permits' = run_permits
    BY <1>4 DEF AbandonWait
  <2>3. InLine' = InLine \ {c}
    BY <1>1, <2>2 DEF InLine
  <2>4. Lists(RemoveAt(run_queue, i), InLine \ {run_queue[i]})
    BY <2>1, ListsLeave DEF BPInv, LineInv
  <2>5. LineInv'
    BY <2>1, <2>3, <2>4 DEF LineInv, Lists
  <2>6. HoldsRunSlot' = HoldsRunSlot
    BY <1>1 DEF HoldsRunSlot
  <2>7. run_queue # << >>
    BY <2>1 DEF BPInv, LineInv, Lists
  <2>8. RunInv'
    BY <1>1, <1>4, <2>2, <2>6, <2>7 DEF BPInv, RunInv
  <2>9. QED BY <1>2, <2>5, <2>8 DEF BPInv
<1>5. QED BY <1>3, <1>4

\* A request that drops its queue permit.
LEMMA DropQueuePermitInv == ASSUME BPInv, NEW c \in Clients, DropQueuePermit(c) PROVE BPInv'
<1> DEFINE p == IF place[c] = "running" THEN "ending" ELSE "outside"
<1>1. HoldsQueueSlot' = HoldsQueueSlot \ {c} /\ c \in HoldsQueueSlot
  BY DEF BPInv, PlaceInv, HoldsQueueSlot, DropQueuePermit, MoveTo
<1>2. Cardinality(HoldsQueueSlot') = Cardinality(HoldsQueueSlot) - 1
  BY <1>1, FiniteHolders, FS_RemoveElement
<1>3. Cardinality(HoldsQueueSlot) \in Nat
  BY FiniteHolders, FS_CardinalityType
<1>4. QueueInv'
  BY <1>2, <1>3 DEF BPInv, QueueInv, DropQueuePermit
<1>5. place[c] = "running" => c \in run_permits
  BY DEF BPInv, RunInv, HoldsRunSlot
<1>6. MoveTo(c, p) /\ p \in Places /\ UNCHANGED <<run_slots, run_queue, run_permits>>
  BY DEF DropQueuePermit, Places
<1>7. RunInv' /\ LineInv'
  BY <1>5, <1>6, MoveKeepsRunInv DEF DropQueuePermit
<1>8. PlaceInv'
  BY <1>6, MoveKeepsPlaceInv
<1>9. QED BY <1>4, <1>7, <1>8 DEF BPInv

\* A request that drops its run permit.
LEMMA DropRunPermitInv == ASSUME BPInv, NEW c \in Clients, DropRunPermit(c) PROVE BPInv'
<1>1. c \in run_permits
  BY DEF BPInv, RunInv, HoldsRunSlot, DropRunPermit
<1>2. RunInv' /\ LineInv'
  BY <1>1, PassOnKeepsRunInv DEF DropRunPermit
<1>3. PlaceInv' /\ QueueInv'
  BY MoveKeepsPlaceInv, MoveKeepsQueueInv DEF DropRunPermit, Places
<1>4. QED BY <1>2, <1>3 DEF BPInv

\* A request whose permit has come begins to run.
LEMMA BeginRunInv == ASSUME BPInv, NEW c \in Clients, BeginRun(c) PROVE BPInv'
<1>1. RunInv' /\ LineInv'
  BY MoveKeepsRunInv DEF BeginRun, Places
<1>2. PlaceInv' /\ QueueInv'
  BY MoveKeepsPlaceInv, MoveKeepsQueueInv DEF BeginRun, Places
<1>3. QED BY <1>1, <1>2 DEF BPInv

\* Steps that change nothing of the controller keep the invariant.
LEMMA StutterInv == BPInv /\ UNCHANGED bpVars => BPInv'
BY DEF BPInv, PlaceInv, QueueInv, RunInv, LineInv, Lists, InLine, HoldsQueueSlot,
       HoldsRunSlot, bpVars

\* Every step of the controller keeps the invariant.
LEMMA StepInv == BPInv /\ [BPNext]_bpVars => BPInv'
<1>1. ASSUME BPInv, NEW c \in Clients, BPStep(c) PROVE BPInv'
  BY <1>1, TryQueueInv, EnterRunQueueInv, AbandonWaitInv, DropQueuePermitInv,
     DropRunPermitInv, BeginRunInv, StutterInv
     DEF BPStep, Overloaded
<1>2. QED BY <1>1, StutterInv DEF BPNext

-----------------------------------------------------------------------------
\* The inductive invariant holds for any number of requests and any limits.
THEOREM Inductive == BPSpec => []BPInv
BY BPInitInv, StepInv, PTL DEF BPSpec

\* Slots are neither lost nor made up, whenever requests give up: those taken
\* and those left always add up to the configured numbers.
THEOREM SlotsAreConserved == BPSpec => []SlotsConserved
<1>1. BPInv => SlotsConserved
  BY DEF BPInv, QueueInv, RunInv, SlotsConserved
<1>2. QED BY <1>1, Inductive, PTL

\* The line is exactly those who wait without a permit.
THEOREM LineExact == BPSpec => []LineIsExact
<1>1. BPInv => LineIsExact
  BY DEF BPInv, LineInv, Lists, InLine, LineIsExact, IsInjective, ToSet
<1>2. QED BY <1>1, Inductive, PTL

\* At most one request runs, and the run slot is never idle with somebody in line.
THEOREM NeverIdle == BPSpec => []RunSlotNeverIdle
<1>1. ASSUME BPInv PROVE RunSlotNeverIdle
  <2>1. Cardinality(HoldsRunSlot) <= Cardinality(run_permits)
    BY <1>1, FiniteHolders, FS_Subset DEF BPInv, RunInv
  <2>2. Cardinality(HoldsRunSlot) \in Nat /\ Cardinality(run_permits) \in Nat
    BY <1>1, FiniteHolders, FS_Subset, FS_CardinalityType DEF BPInv, RunInv
  <2>3. run_slots \in Nat /\ run_slots + Cardinality(run_permits) = Running
    BY <1>1 DEF BPInv, RunInv
  <2>4. QED BY <1>1, <2>1, <2>2, <2>3, Limits DEF BPInv, RunInv, RunSlotNeverIdle, MAX_PARALLEL_GENERATIONS
<1>2. QED BY <1>1, Inductive, PTL

\* The controller's state keeps its types and ranges.
THEOREM BPTypes == BPSpec => []BPTypeOK
<1>1. ASSUME BPInv PROVE BPTypeOK
  <2>1. Cardinality(HoldsQueueSlot) \in Nat /\ Cardinality(run_permits) \in Nat
    BY <1>1, FiniteHolders, FS_CardinalityType DEF BPInv, RunInv
  <2>2. queue_slots \in 0..TotalSlots
    BY <1>1, <2>1, Limits DEF BPInv, QueueInv
  <2>3. run_slots \in 0..Running
    BY <1>1, <2>1, Limits DEF BPInv, RunInv
  <2>4. QED BY <1>1, <2>2, <2>3 DEF BPInv, PlaceInv, RunInv, LineInv, Lists, BPTypeOK
<1>2. QED BY <1>1, Inductive, PTL

-----------------------------------------------------------------------------
(***************************************************************************)
(* The server is a user of the controller                                  *)
(***************************************************************************)

\* Whatever a handler does to its slots is a step of the controller.
LEMMA ServerCallsController ==
    ASSUME [ServerNext]_serverVars
    PROVE  [BPNext]_bpVars
<1>1. ASSUME NEW c \in Clients,
             Queue(c) \/ WaitForRun(c) \/ FailToStart(c) \/ Spawn(c) \/ Release(c) \/ Reject(c)
      PROVE  [BPNext]_bpVars
  BY <1>1 DEF Queue, WaitForRun, FailToStart, Spawn, Release, Reject, BPNext, BPStep
<1>2. ASSUME NEW c \in Clients, Timeout(c) \/ HangUp(c)
      PROVE  [BPNext]_bpVars
  BY <1>2 DEF Timeout, HangUp, DropHandler, BPNext, BPStep
<1>3. ASSUME NEW c \in Clients,
             Arrive(c) \/ TurnAway(c) \/ Complete(c) \/ BodyStep(c) \/ TaskStep(c)
      PROVE  UNCHANGED bpVars
  BY <1>3 DEF Arrive, TurnAway, Complete, BodyStep, WriteEvent, WriteDone, TaskStep, Decode,
              Offer, Send, Return
<1>4. ASSUME ClearCache \/ Idle \/ UNCHANGED serverVars
      PROVE  UNCHANGED bpVars
  BY <1>4 DEF ClearCache, Idle, serverVars
<1>5. QED BY <1>1, <1>2, <1>3, <1>4 DEF ServerNext, HandlerStep

\* So a behavior of the server is one of the controller.
LEMMA ServerRunsController == ServerSpec => BPSpec
<1>1. ServerInit => BPInit
  BY DEF ServerInit
<1>2. [ServerNext]_serverVars => [BPNext]_bpVars
  BY ServerCallsController
<1>3. QED BY <1>1, <1>2, PTL DEF ServerSpec, BPSpec

\* In the server, too, slots are conserved, whatever drops a handler at whatever await.
THEOREM ServerSlotsConserved == ServerSpec => []SlotsConserved
BY ServerRunsController, SlotsAreConserved

\* And no request stands in line while the run slot is free.
THEOREM ServerNeverIdle == ServerSpec => []RunSlotNeverIdle
BY ServerRunsController, NeverIdle

-----------------------------------------------------------------------------
(***************************************************************************)
(* The inductive invariant                                                 *)
(***************************************************************************)

Before   == {"new", "received", "queued", "waiting"}
Over     == {"closing", "done"}
Handlers == Before \cup {"awaiting", "streaming"} \cup Over
Statuses == {"none", "200", "400", "401", "404", "422", "429", "500", "503", "504"}
Channels == [offered : BOOLEAN, sent : Nat, buffered : Nat, written : Nat]
NothingSent == [offered |-> FALSE, sent |-> 0, buffered |-> 0, written |-> 0]

ServerTypes ==
    /\ place \in [Clients -> Places]
    /\ handler \in [Clients -> Handlers]
    /\ status \in [Clients -> Statuses]
    /\ phase \in [Clients -> {"idle", "waiting", "decoding"}]
    /\ result \in [Clients -> Results]
    /\ channel \in [Clients -> Channels]
    /\ done \subseteq Clients

\* What a handler holds of the controller.
PlaceOK(c) ==
    /\ handler[c] \in {"new", "received", "done"} => place[c] = "outside"
    /\ handler[c] = "queued" => place[c] = "ticket"
    /\ handler[c] = "waiting" => place[c] = "waiting"
    /\ handler[c] \in {"awaiting", "streaming"} => place[c] = "running"
    /\ handler[c] = "closing" => place[c] \in {"running", "abandoned", "ending"}

\* Nothing has happened yet to a request without a permit.
BeforeOK(c) ==
    handler[c] \in Before =>
        /\ phase[c] = "idle" /\ result[c] = "none" /\ status[c] = "none"
        /\ channel[c] = NothingSent /\ c \notin done

\* Outputs that were sent are buffered or written.
StreamOK(c) ==
    /\ handler[c] = "streaming" =>
         /\ request[c].stream /\ c \notin done
         /\ channel[c].sent = channel[c].buffered + channel[c].written
    /\ c \in done =>
         /\ handler[c] \in Over /\ phase[c] = "idle"
         /\ channel[c].written = channel[c].sent

\* An answer is given once, by the handler's last step.
AnswerOK(c) ==
    /\ handler[c] = "awaiting" => ~request[c].stream /\ status[c] = "none"
    /\ ~request[c].stream /\ status[c] \in {"200", "500", "503"} =>
         /\ handler[c] \in Over /\ phase[c] = "idle"
         /\ status[c] = "200" => result[c] = "ok" /\ (ClearAfterRequest => c \notin uncleared)
         /\ status[c] = "503" => result[c] \in {"none", "refused"}

ClientOK(c) == PlaceOK(c) /\ BeforeOK(c) /\ StreamOK(c) /\ AnswerOK(c)

ServerInv == ServerTypes /\ \A c \in Clients : ClientOK(c)

\* The step is one of c: the other requests stand where they stood.
StepOf(c) ==
    /\ UNCHANGED request
    /\ \A d \in Clients \ {c} :
         /\ handler'[d] = handler[d] /\ place'[d] = place[d] /\ status'[d] = status[d]
         /\ phase'[d] = phase[d] /\ result'[d] = result[d] /\ channel'[d] = channel[d]
         /\ d \in done' <=> d \in done
         /\ d \in uncleared' => d \in uncleared

LEMMA StepKeepsInv ==
    ASSUME ServerInv, NEW c \in Clients, ServerTypes', StepOf(c), ClientOK(c)'
    PROVE  ServerInv'
<1>1. ASSUME NEW d \in Clients \ {c} PROVE ClientOK(d)'
  <2>1. ClientOK(d) /\ d \in Clients
    BY DEF ServerInv
  <2>2. PlaceOK(d)' /\ BeforeOK(d)'
    BY <2>1 DEF ClientOK, PlaceOK, BeforeOK, StepOf
  <2>3. StreamOK(d)'
    BY <2>1 DEF ClientOK, StreamOK, StepOf
  <2>4. AnswerOK(d)'
    BY <2>1 DEF ClientOK, AnswerOK, StepOf
  <2>5. QED BY <2>2, <2>3, <2>4 DEF ClientOK
<1>2. QED BY <1>1 DEF ServerInv

\* Initially.
LEMMA ServerInvInit == ServerInit => ServerInv
<1>1. SUFFICES ASSUME ServerInit PROVE ServerInv
  OBVIOUS
<1>2. /\ place = [c \in Clients |-> "outside"]
      /\ phase = [c \in Clients |-> "idle"]
  BY <1>1 DEF ServerInit, BPInit, Lock!Init
<1>3. ServerTypes
  <2>1. place \in [Clients -> Places]
    BY <1>2 DEF Places
  <2>2. handler \in [Clients -> Handlers] /\ status \in [Clients -> Statuses]
    BY <1>1 DEF ServerInit, Handlers, Before, Statuses
  <2>3. phase \in [Clients -> {"idle", "waiting", "decoding"}]
    BY <1>2
  <2>4. result \in [Clients -> Results] /\ channel \in [Clients -> Channels]
    BY <1>1 DEF ServerInit, Results, Channels
  <2>5. QED BY <1>1, <2>1, <2>2, <2>3, <2>4 DEF ServerTypes, ServerInit
<1>4. ASSUME NEW c \in Clients PROVE ClientOK(c)
  <2>1. /\ handler[c] = "new" /\ place[c] = "outside" /\ phase[c] = "idle"
        /\ status[c] = "none" /\ result[c] = "none" /\ channel[c] = NothingSent
        /\ c \notin done
    BY <1>1, <1>2 DEF ServerInit, NothingSent
  <2>2. QED BY <2>1 DEF ClientOK, PlaceOK, BeforeOK, StreamOK, AnswerOK, Over
<1>5. QED BY <1>3, <1>4 DEF ServerInv

-----------------------------------------------------------------------------
(***************************************************************************)
(* One lemma for each action                                               *)
(***************************************************************************)

\* A request gets past the layers.
LEMMA ArriveKeepsInv == ASSUME ServerInv, NEW c \in Clients, Arrive(c) PROVE ServerInv'
<1>1. ServerTypes /\ ClientOK(c)
  BY DEF ServerInv
<1>2. ServerTypes'
  BY <1>1 DEF Arrive, ServerTypes, Handlers, Before, Over, Statuses, Channels, Results, Places,
              Become, Answer, bpVars, taskVars
<1>3. StepOf(c)
  BY <1>1 DEF Arrive, ServerTypes, StepOf, Become, Answer, bpVars, taskVars
<1>4. PlaceOK(c)'
  BY <1>1 DEF Arrive, ServerTypes, ClientOK, PlaceOK, Become, Answer, bpVars, taskVars
<1>5. BeforeOK(c)'
  BY <1>1 DEF Arrive, ServerTypes, ClientOK, BeforeOK, AnswerOK, StreamOK, Before, Over,
              NothingSent, Become, Answer, bpVars, taskVars
<1>6. StreamOK(c)'
  BY <1>1 DEF Arrive, ServerTypes, ClientOK, BeforeOK, StreamOK, Channels, NothingSent, Before,
              Over,
              Become, Answer, bpVars, taskVars
<1>7. AnswerOK(c)'
  BY <1>1 DEF Arrive, ServerTypes, ClientOK, BeforeOK, AnswerOK, Before, Over, Become, Answer,
              bpVars,
              taskVars
<1>8. QED BY <1>2, <1>3, <1>4, <1>5, <1>6, <1>7, StepKeepsInv DEF ClientOK

\* A request is turned away by the layers.
LEMMA TurnAwayKeepsInv == ASSUME ServerInv, NEW c \in Clients, TurnAway(c) PROVE ServerInv'
<1>1. ServerTypes /\ ClientOK(c)
  BY DEF ServerInv
<1>2. ServerTypes'
  BY <1>1 DEF TurnAway, ServerTypes, Handlers, Before, Over, Statuses, Channels, Results, Places,
              Become, Answer, bpVars, taskVars
<1>3. StepOf(c)
  BY <1>1 DEF TurnAway, ServerTypes, StepOf, Become, Answer, bpVars, taskVars
<1>4. PlaceOK(c)'
  BY <1>1 DEF TurnAway, ServerTypes, ClientOK, PlaceOK, Become, Answer, bpVars, taskVars
<1>5. BeforeOK(c)'
  BY <1>1 DEF TurnAway, ServerTypes, ClientOK, BeforeOK, AnswerOK, StreamOK, Before, Over,
              NothingSent, Become, Answer, bpVars, taskVars
<1>6. StreamOK(c)'
  BY <1>1 DEF TurnAway, ServerTypes, ClientOK, BeforeOK, StreamOK, Channels, NothingSent, Before,
              Over,
              Become, Answer, bpVars, taskVars
<1>7. AnswerOK(c)'
  BY <1>1 DEF TurnAway, ServerTypes, ClientOK, BeforeOK, AnswerOK, Before, Over, Become, Answer,
              bpVars,
              taskVars
<1>8. QED BY <1>2, <1>3, <1>4, <1>5, <1>6, <1>7, StepKeepsInv DEF ClientOK

\* A request is rejected, and nothing is held.
LEMMA RejectKeepsInv == ASSUME ServerInv, NEW c \in Clients, Reject(c) PROVE ServerInv'
<1>1. ServerTypes /\ ClientOK(c)
  BY DEF ServerInv
<1>2. ServerTypes'
  BY <1>1 DEF Reject, ServerTypes, Handlers, Before, Over, Statuses, Channels, Results, Places,
              Become, Answer, bpVars, taskVars, Overloaded, bpVars
<1>3. StepOf(c)
  BY <1>1 DEF Reject, ServerTypes, StepOf, Become, Answer, bpVars, taskVars, Overloaded, bpVars
<1>4. PlaceOK(c)'
  BY <1>1 DEF Reject, ServerTypes, ClientOK, PlaceOK, Become, Answer, bpVars, taskVars, Overloaded,
              bpVars
<1>5. BeforeOK(c)'
  BY <1>1 DEF Reject, ServerTypes, ClientOK, BeforeOK, AnswerOK, StreamOK, Before, Over,
              NothingSent, Become, Answer, bpVars, taskVars, Overloaded, bpVars
<1>6. StreamOK(c)'
  BY <1>1 DEF Reject, ServerTypes, ClientOK, BeforeOK, StreamOK, Channels, NothingSent, Before,
              Over,
              Become, Answer, bpVars, taskVars, Overloaded, bpVars
<1>7. AnswerOK(c)'
  BY <1>1 DEF Reject, ServerTypes, ClientOK, BeforeOK, AnswerOK, Before, Over, Become, Answer,
              bpVars,
              taskVars, Overloaded, bpVars
<1>8. QED BY <1>2, <1>3, <1>4, <1>5, <1>6, <1>7, StepKeepsInv DEF ClientOK

\* A request takes a ticket.
LEMMA QueueKeepsInv == ASSUME ServerInv, NEW c \in Clients, Queue(c) PROVE ServerInv'
<1>1. ServerTypes /\ ClientOK(c)
  BY DEF ServerInv
<1>2. ServerTypes'
  BY <1>1 DEF Queue, ServerTypes, Handlers, Before, Over, Statuses, Channels, Results, Places,
              Become, Answer, bpVars, taskVars, TryQueue, MoveTo
<1>3. StepOf(c)
  BY <1>1 DEF Queue, ServerTypes, StepOf, Become, Answer, bpVars, taskVars, TryQueue, MoveTo
<1>4. PlaceOK(c)'
  BY <1>1 DEF Queue, ServerTypes, ClientOK, PlaceOK, Become, Answer, bpVars, taskVars, TryQueue,
              MoveTo
<1>5. BeforeOK(c)'
  BY <1>1 DEF Queue, ServerTypes, ClientOK, BeforeOK, AnswerOK, StreamOK, Before, Over,
              NothingSent, Become, Answer, bpVars, taskVars, TryQueue, MoveTo
<1>6. StreamOK(c)'
  BY <1>1 DEF Queue, ServerTypes, ClientOK, BeforeOK, StreamOK, Channels, NothingSent, Before, Over,
              Become, Answer, bpVars, taskVars, TryQueue, MoveTo
<1>7. AnswerOK(c)'
  BY <1>1 DEF Queue, ServerTypes, ClientOK, BeforeOK, AnswerOK, Before, Over, Become, Answer,
              bpVars,
              taskVars, TryQueue, MoveTo
<1>8. QED BY <1>2, <1>3, <1>4, <1>5, <1>6, <1>7, StepKeepsInv DEF ClientOK

\* A ticket becomes a place in line.
LEMMA WaitForRunKeepsInv == ASSUME ServerInv, NEW c \in Clients, WaitForRun(c) PROVE ServerInv'
<1>1. ServerTypes /\ ClientOK(c)
  BY DEF ServerInv
<1>2. ServerTypes'
  BY <1>1 DEF WaitForRun, ServerTypes, Handlers, Before, Over, Statuses, Channels, Results, Places,
              Become, Answer, bpVars, taskVars, EnterRunQueue, MoveTo
<1>3. StepOf(c)
  BY <1>1 DEF WaitForRun, ServerTypes, StepOf, Become, Answer, bpVars, taskVars, EnterRunQueue,
              MoveTo
<1>4. PlaceOK(c)'
  BY <1>1 DEF WaitForRun, ServerTypes, ClientOK, PlaceOK, Become, Answer, bpVars, taskVars,
              EnterRunQueue, MoveTo
<1>5. BeforeOK(c)'
  BY <1>1 DEF WaitForRun, ServerTypes, ClientOK, BeforeOK, AnswerOK, StreamOK, Before, Over,
              NothingSent, Become, Answer, bpVars, taskVars, EnterRunQueue, MoveTo
<1>6. StreamOK(c)'
  BY <1>1 DEF WaitForRun, ServerTypes, ClientOK, BeforeOK, StreamOK, Channels, NothingSent, Before,
              Over,
              Become, Answer, bpVars, taskVars, EnterRunQueue, MoveTo
<1>7. AnswerOK(c)'
  BY <1>1 DEF WaitForRun, ServerTypes, ClientOK, BeforeOK, AnswerOK, Before, Over, Become, Answer,
              bpVars,
              taskVars, EnterRunQueue, MoveTo
<1>8. QED BY <1>2, <1>3, <1>4, <1>5, <1>6, <1>7, StepKeepsInv DEF ClientOK

\* What is wrong with a request is answered with one of these.
LEMMA DefectIsError == ASSUME NEW r PROVE Defect(r) \in {"400", "404", "500", "none"}
BY DEF Defect

\* A request fails with the permit in hand.
LEMMA FailToStartKeepsInv == ASSUME ServerInv, NEW c \in Clients, FailToStart(c) PROVE ServerInv'
<1>1. ServerTypes /\ ClientOK(c)
  BY DEF ServerInv
<1>2. ServerTypes'
  BY <1>1, DefectIsError DEF FailToStart, ServerTypes, Handlers, Before, Over, Statuses, Channels,
              Results, Places,
              Become, Answer, bpVars, taskVars, BeginRun, MoveTo
<1>3. StepOf(c)
  BY <1>1 DEF FailToStart, ServerTypes, StepOf, Become, Answer, bpVars, taskVars, BeginRun, MoveTo
<1>4. PlaceOK(c)'
  BY <1>1 DEF FailToStart, ServerTypes, ClientOK, PlaceOK, Become, Answer, bpVars, taskVars,
              BeginRun, MoveTo
<1>5. BeforeOK(c)'
  BY <1>1 DEF FailToStart, ServerTypes, ClientOK, BeforeOK, AnswerOK, StreamOK, Before, Over,
              NothingSent, Become, Answer, bpVars, taskVars, BeginRun, MoveTo
<1>6. StreamOK(c)'
  BY <1>1 DEF FailToStart, ServerTypes, ClientOK, BeforeOK, StreamOK, Channels, NothingSent,
              Before, Over,
              Become, Answer, bpVars, taskVars, BeginRun, MoveTo
<1>7. AnswerOK(c)'
  BY <1>1, DefectIsError DEF FailToStart, ServerTypes, ClientOK, BeforeOK, AnswerOK, Before, Over,
              Become, Answer, bpVars,
              taskVars, BeginRun, MoveTo
<1>8. QED BY <1>2, <1>3, <1>4, <1>5, <1>6, <1>7, StepKeepsInv DEF ClientOK

\* A generation is spawned.
LEMMA SpawnKeepsInv == ASSUME ServerInv, NEW c \in Clients, Spawn(c) PROVE ServerInv'
<1>1. ServerTypes /\ ClientOK(c)
  BY DEF ServerInv
<1>2. ServerTypes'
  BY <1>1 DEF Spawn, ServerTypes, Handlers, Before, Over, Statuses, Channels, Results, Places,
              Become, Answer, bpVars, taskVars, BeginRun, MoveTo, Lock!Start
<1>3. StepOf(c)
  BY <1>1 DEF Spawn, ServerTypes, StepOf, Become, Answer, bpVars, taskVars, BeginRun, MoveTo,
              Lock!Start
<1>4. PlaceOK(c)'
  BY <1>1 DEF Spawn, ServerTypes, ClientOK, PlaceOK, Become, Answer, bpVars, taskVars, BeginRun,
              MoveTo, Lock!Start
<1>5. BeforeOK(c)'
  BY <1>1 DEF Spawn, ServerTypes, ClientOK, BeforeOK, AnswerOK, StreamOK, Before, Over,
              NothingSent, Become, Answer, bpVars, taskVars, BeginRun, MoveTo, Lock!Start
<1>6. StreamOK(c)'
  BY <1>1 DEF Spawn, ServerTypes, ClientOK, BeforeOK, StreamOK, Channels, NothingSent, Before, Over,
              Become, Answer, bpVars, taskVars, BeginRun, MoveTo, Lock!Start
<1>7. AnswerOK(c)'
  BY <1>1 DEF Spawn, ServerTypes, ClientOK, BeforeOK, AnswerOK, Before, Over, Become, Answer,
              bpVars,
              taskVars, BeginRun, MoveTo, Lock!Start
<1>8. QED BY <1>2, <1>3, <1>4, <1>5, <1>6, <1>7, StepKeepsInv DEF ClientOK

\* The handler answers what its generation returned.
LEMMA CompleteKeepsInv == ASSUME ServerInv, NEW c \in Clients, Complete(c) PROVE ServerInv'
<1>1. ServerTypes /\ ClientOK(c)
  BY DEF ServerInv
<1>2. ServerTypes'
  BY <1>1 DEF Complete, ServerTypes, Handlers, Before, Over, Statuses, Channels, Results, Places,
              Become, Answer, bpVars, taskVars
<1>3. StepOf(c)
  BY <1>1 DEF Complete, ServerTypes, StepOf, Become, Answer, bpVars, taskVars
<1>4. PlaceOK(c)'
  BY <1>1 DEF Complete, ServerTypes, ClientOK, PlaceOK, Become, Answer, bpVars, taskVars
<1>5. BeforeOK(c)'
  BY <1>1 DEF Complete, ServerTypes, ClientOK, BeforeOK, AnswerOK, StreamOK, Before, Over,
              NothingSent, Become, Answer, bpVars, taskVars
<1>6. StreamOK(c)'
  BY <1>1 DEF Complete, ServerTypes, ClientOK, BeforeOK, StreamOK, Channels, NothingSent, Before,
              Over,
              Become, Answer, bpVars, taskVars
<1>7. AnswerOK(c)'
  BY <1>1 DEF Complete, ServerTypes, ClientOK, BeforeOK, AnswerOK, Before, Over, Become, Answer,
              bpVars,
              taskVars
<1>8. QED BY <1>2, <1>3, <1>4, <1>5, <1>6, <1>7, StepKeepsInv DEF ClientOK

\* An output is written.
LEMMA WriteEventKeepsInv == ASSUME ServerInv, NEW c \in Clients, WriteEvent(c) PROVE ServerInv'
<1>1. ServerTypes /\ ClientOK(c)
  BY DEF ServerInv
<1>2. ServerTypes'
  BY <1>1 DEF WriteEvent, ServerTypes, Handlers, Before, Over, Statuses, Channels, Results, Places,
              Become, Answer, bpVars, taskVars
<1>3. StepOf(c)
  BY <1>1 DEF WriteEvent, ServerTypes, StepOf, Become, Answer, bpVars, taskVars
<1>4. PlaceOK(c)'
  BY <1>1 DEF WriteEvent, ServerTypes, ClientOK, PlaceOK, Become, Answer, bpVars, taskVars
<1>5. BeforeOK(c)'
  BY <1>1 DEF WriteEvent, ServerTypes, ClientOK, BeforeOK, AnswerOK, StreamOK, Before, Over,
              NothingSent, Become, Answer, bpVars, taskVars
<1>6. StreamOK(c)'
  BY <1>1 DEF WriteEvent, ServerTypes, ClientOK, BeforeOK, StreamOK, Channels, NothingSent, Before,
              Over,
              Become, Answer, bpVars, taskVars
<1>7. AnswerOK(c)'
  BY <1>1 DEF WriteEvent, ServerTypes, ClientOK, BeforeOK, AnswerOK, Before, Over, Become, Answer,
              bpVars,
              taskVars
<1>8. QED BY <1>2, <1>3, <1>4, <1>5, <1>6, <1>7, StepKeepsInv DEF ClientOK

\* [DONE] is sent.
LEMMA WriteDoneKeepsInv == ASSUME ServerInv, NEW c \in Clients, WriteDone(c) PROVE ServerInv'
<1>1. ServerTypes /\ ClientOK(c)
  BY DEF ServerInv
<1>2. ServerTypes'
  BY <1>1 DEF WriteDone, ServerTypes, Handlers, Before, Over, Statuses, Channels, Results, Places,
              Become, Answer, bpVars, taskVars
<1>3. StepOf(c)
  BY <1>1 DEF WriteDone, ServerTypes, StepOf, Become, Answer, bpVars, taskVars
<1>4. PlaceOK(c)'
  BY <1>1 DEF WriteDone, ServerTypes, ClientOK, PlaceOK, Become, Answer, bpVars, taskVars
<1>5. BeforeOK(c)'
  BY <1>1 DEF WriteDone, ServerTypes, ClientOK, BeforeOK, AnswerOK, StreamOK, Before, Over,
              NothingSent, Become, Answer, bpVars, taskVars
<1>6. StreamOK(c)'
  BY <1>1 DEF WriteDone, ServerTypes, ClientOK, BeforeOK, StreamOK, Channels, NothingSent, Before,
              Over,
              Become, Answer, bpVars, taskVars
<1>7. AnswerOK(c)'
  BY <1>1 DEF WriteDone, ServerTypes, ClientOK, BeforeOK, AnswerOK, Before, Over, Become, Answer,
              bpVars,
              taskVars
<1>8. QED BY <1>2, <1>3, <1>4, <1>5, <1>6, <1>7, StepKeepsInv DEF ClientOK

\* A permit is dropped.
LEMMA ReleaseKeepsInv == ASSUME ServerInv, NEW c \in Clients, Release(c) PROVE ServerInv'
<1>1. ServerTypes /\ ClientOK(c)
  BY DEF ServerInv
<1>2. ServerTypes'
  BY <1>1 DEF Release, ServerTypes, Handlers, Before, Over, Statuses, Channels, Results, Places,
              Become, Answer, bpVars, taskVars, DropQueuePermit, DropRunPermit, MoveTo
<1>3. StepOf(c)
  BY <1>1 DEF Release, ServerTypes, StepOf, Become, Answer, bpVars, taskVars, DropQueuePermit,
              DropRunPermit, MoveTo
<1>4. PlaceOK(c)'
  BY <1>1 DEF Release, ServerTypes, ClientOK, PlaceOK, Become, Answer, bpVars, taskVars,
              DropQueuePermit, DropRunPermit, MoveTo
<1>5. BeforeOK(c)'
  BY <1>1 DEF Release, ServerTypes, ClientOK, BeforeOK, AnswerOK, StreamOK, Before, Over,
              NothingSent, Become, Answer, bpVars, taskVars, DropQueuePermit, DropRunPermit, MoveTo
<1>6. StreamOK(c)'
  BY <1>1 DEF Release, ServerTypes, ClientOK, BeforeOK, StreamOK, Channels, NothingSent, Before,
              Over,
              Become, Answer, bpVars, taskVars, DropQueuePermit, DropRunPermit, MoveTo
<1>7. AnswerOK(c)'
  BY <1>1 DEF Release, ServerTypes, ClientOK, BeforeOK, AnswerOK, Before, Over, Become, Answer,
              bpVars,
              taskVars, DropQueuePermit, DropRunPermit, MoveTo
<1>8. QED BY <1>2, <1>3, <1>4, <1>5, <1>6, <1>7, StepKeepsInv DEF ClientOK

\* A generation gets the model lock.
LEMMA DecodeKeepsInv == ASSUME ServerInv, NEW c \in Clients, Decode(c) PROVE ServerInv'
<1>1. ServerTypes /\ ClientOK(c)
  BY DEF ServerInv
<1>2. ServerTypes'
  BY <1>1 DEF Decode, ServerTypes, Handlers, Before, Over, Statuses, Channels, Results, Places,
              Become, Answer, bpVars, taskVars, Lock!Decode
<1>3. StepOf(c)
  BY <1>1 DEF Decode, ServerTypes, StepOf, Become, Answer, bpVars, taskVars, Lock!Decode
<1>4. PlaceOK(c)'
  BY <1>1 DEF Decode, ServerTypes, ClientOK, PlaceOK, Become, Answer, bpVars, taskVars, Lock!Decode
<1>5. BeforeOK(c)'
  BY <1>1 DEF Decode, ServerTypes, ClientOK, BeforeOK, AnswerOK, StreamOK, Before, Over,
              NothingSent, Become, Answer, bpVars, taskVars, Lock!Decode
<1>6. StreamOK(c)'
  BY <1>1 DEF Decode, ServerTypes, ClientOK, BeforeOK, StreamOK, Channels, NothingSent, Before,
              Over,
              Become, Answer, bpVars, taskVars, Lock!Decode
<1>7. AnswerOK(c)'
  BY <1>1 DEF Decode, ServerTypes, ClientOK, BeforeOK, AnswerOK, Before, Over, Become, Answer,
              bpVars,
              taskVars, Lock!Decode
<1>8. QED BY <1>2, <1>3, <1>4, <1>5, <1>6, <1>7, StepKeepsInv DEF ClientOK

\* An output is offered.
LEMMA OfferKeepsInv == ASSUME ServerInv, NEW c \in Clients, Offer(c) PROVE ServerInv'
<1>1. ServerTypes /\ ClientOK(c)
  BY DEF ServerInv
<1>2. ServerTypes'
  <2>1. [channel[c] EXCEPT !.offered = TRUE] \in Channels
    BY <1>1 DEF ServerTypes, Channels
  <2>2. channel' \in [Clients -> Channels]
    BY <1>1, <2>1 DEF Offer, ServerTypes
  <2> QED
    BY <1>1, <2>2 DEF Offer, ServerTypes, bpVars
<1>3. StepOf(c)
  BY <1>1 DEF Offer, ServerTypes, StepOf, Become, Answer, bpVars, taskVars
<1>4. PlaceOK(c)'
  BY <1>1 DEF Offer, ServerTypes, ClientOK, PlaceOK, Become, Answer, bpVars, taskVars
<1>5. BeforeOK(c)'
  BY <1>1 DEF Offer, ServerTypes, ClientOK, BeforeOK, AnswerOK, StreamOK, Before, Over,
              NothingSent, Become, Answer, bpVars, taskVars
<1>6. StreamOK(c)'
  BY <1>1 DEF Offer, ServerTypes, ClientOK, BeforeOK, StreamOK, Channels, NothingSent, Before, Over,
              Become, Answer, bpVars, taskVars
<1>7. AnswerOK(c)'
  BY <1>1 DEF Offer, ServerTypes, ClientOK, BeforeOK, AnswerOK, Before, Over, Become, Answer,
              bpVars,
              taskVars
<1>8. QED BY <1>2, <1>3, <1>4, <1>5, <1>6, <1>7, StepKeepsInv DEF ClientOK

\* An output is sent.
LEMMA SendKeepsInv == ASSUME ServerInv, NEW c \in Clients, Send(c) PROVE ServerInv'
<1>1. ServerTypes /\ ClientOK(c)
  BY DEF ServerInv
<1>2. ServerTypes'
  BY <1>1 DEF Send, ServerTypes, Handlers, Before, Over, Statuses, Channels, Results, Places,
              Become, Answer, bpVars, taskVars
<1>3. StepOf(c)
  BY <1>1 DEF Send, ServerTypes, StepOf, Become, Answer, bpVars, taskVars
<1>4. PlaceOK(c)'
  BY <1>1 DEF Send, ServerTypes, ClientOK, PlaceOK, Become, Answer, bpVars, taskVars
<1>5. BeforeOK(c)'
  BY <1>1 DEF Send, ServerTypes, ClientOK, BeforeOK, AnswerOK, StreamOK, Before, Over, NothingSent,
              Become, Answer, bpVars, taskVars
<1>6. StreamOK(c)'
  BY <1>1 DEF Send, ServerTypes, ClientOK, BeforeOK, StreamOK, Channels, NothingSent, Before, Over,
              Become, Answer, bpVars, taskVars
<1>7. AnswerOK(c)'
  BY <1>1 DEF Send, ServerTypes, ClientOK, BeforeOK, AnswerOK, Before, Over, Become, Answer, bpVars,
              taskVars
<1>8. QED BY <1>2, <1>3, <1>4, <1>5, <1>6, <1>7, StepKeepsInv DEF ClientOK

\* A generation returns.
LEMMA ReturnKeepsInv == ASSUME ServerInv, NEW c \in Clients, Return(c) PROVE ServerInv'
<1>1. ServerTypes /\ ClientOK(c)
  BY DEF ServerInv
<1>2. ServerTypes'
  BY <1>1 DEF Return, Returns, ServerTypes, Handlers, Before, Over, Statuses, Channels, Results, Places,
              Become, Answer, bpVars, taskVars, Lock!End
<1>3. StepOf(c)
  BY <1>1 DEF Return, Returns, ServerTypes, StepOf, Become, Answer, bpVars, taskVars, Lock!End
<1>4. PlaceOK(c)'
  BY <1>1 DEF Return, Returns, ServerTypes, ClientOK, PlaceOK, Become, Answer, bpVars, taskVars, Lock!End
<1>5. BeforeOK(c)'
  BY <1>1 DEF Return, Returns, ServerTypes, ClientOK, BeforeOK, AnswerOK, StreamOK, Before, Over,
              NothingSent, Become, Answer, bpVars, taskVars, Lock!End
<1>6. StreamOK(c)'
  BY <1>1 DEF Return, Returns, ServerTypes, ClientOK, BeforeOK, StreamOK, Channels, NothingSent, Before,
              Over,
              Become, Answer, bpVars, taskVars, Lock!End
<1>7. AnswerOK(c)'
  BY <1>1 DEF Return, Returns, ServerTypes, ClientOK, BeforeOK, AnswerOK, Before, Over, Become, Answer,
              bpVars,
              taskVars, Lock!End
<1>8. QED BY <1>2, <1>3, <1>4, <1>5, <1>6, <1>7, StepKeepsInv DEF ClientOK

\* A handler is dropped: by the timeout layer or because its client hung up.
LEMMA DropHandlerKeepsInv ==
    ASSUME ServerInv, NEW c \in Clients, Timeout(c) \/ HangUp(c)
    PROVE  ServerInv'
<1>1. ServerTypes /\ ClientOK(c)
  BY DEF ServerInv
<1>2. /\ handler[c] \in {"waiting", "awaiting", "streaming"}
      /\ DropHandler(c)
      /\ status' = status \/ (handler[c] # "streaming" /\ status' = [status EXCEPT ![c] = "504"])
  BY DEF Timeout, HangUp, Answer
<1>3. /\ handler' = [handler EXCEPT ![c] = "closing"]
      /\ UNCHANGED <<request, phase, result, done, uncleared>>
      /\ place' = place \/ place' = [place EXCEPT ![c] = "abandoned"]
      /\ handler[c] = "waiting" => place' = [place EXCEPT ![c] = "abandoned"]
      /\ handler[c] # "waiting" => place' = place
  BY <1>2 DEF DropHandler, Become, AbandonWait, MoveTo, bpVars
<1>4. channel' = [channel EXCEPT ![c].buffered = IF handler[c] = "streaming" THEN 0 ELSE @]
  BY <1>2 DEF DropHandler
<1>5. ServerTypes'
  <2>1. channel' \in [Clients -> Channels]
    BY <1>1, <1>4 DEF ServerTypes, Channels
  <2>2. status' \in [Clients -> Statuses]
    BY <1>1, <1>2 DEF ServerTypes, Statuses
  <2>3. QED BY <1>1, <1>3, <2>1, <2>2 DEF ServerTypes, Handlers, Over, Places
<1>6. StepOf(c)
  BY <1>1, <1>2, <1>3, <1>4 DEF ServerTypes, StepOf
<1>7. PlaceOK(c)' /\ BeforeOK(c)'
  BY <1>1, <1>2, <1>3 DEF ServerTypes, ClientOK, PlaceOK, BeforeOK, Before
<1>8. StreamOK(c)'
  <2>1. c \notin done /\ handler'[c] = "closing"
    BY <1>1, <1>2, <1>3 DEF ServerTypes, ClientOK, BeforeOK, StreamOK, Before, Over
  <2>2. QED BY <1>3, <2>1 DEF StreamOK
<1>9. AnswerOK(c)'
  <2>1. CASE handler[c] = "streaming"
    BY <1>1, <1>3, <2>1 DEF ServerTypes, ClientOK, StreamOK, AnswerOK
  <2>2. CASE handler[c] # "streaming"
    <3>1. status[c] = "none" /\ (status'[c] = "none" \/ status'[c] = "504")
      BY <1>1, <1>2, <2>2 DEF ServerTypes, ClientOK, BeforeOK, AnswerOK, Before
    <3>2. QED BY <1>1, <1>3, <3>1 DEF ServerTypes, AnswerOK
  <2>3. QED BY <2>1, <2>2
<1>10. QED BY <1>5, <1>6, <1>7, <1>8, <1>9, StepKeepsInv DEF ClientOK

\* The caches are cleared by somebody else, or nothing happens.
LEMMA OtherStepsKeepInv ==
    ASSUME ServerInv, ClearCache \/ Idle \/ UNCHANGED serverVars
    PROVE  ServerInv'
<1>1. /\ UNCHANGED <<bpVars, handler, request, status, phase, result, channel, done>>
      /\ uncleared' = uncleared \/ uncleared' = {}
  BY DEF ClearCache, Idle, serverVars
<1>2. ServerTypes'
  BY <1>1 DEF ServerInv, ServerTypes, bpVars
<1>3. ASSUME NEW c \in Clients PROVE ClientOK(c)'
  <2>1. ClientOK(c)
    BY DEF ServerInv
  <2>2. PlaceOK(c)' /\ BeforeOK(c)' /\ StreamOK(c)'
    BY <1>1, <2>1 DEF ClientOK, PlaceOK, BeforeOK, StreamOK, bpVars
  <2>3. AnswerOK(c)'
    BY <1>1, <2>1 DEF ClientOK, AnswerOK
  <2>4. QED BY <2>2, <2>3 DEF ClientOK
<1>4. QED BY <1>2, <1>3 DEF ServerInv

\* Every step keeps the invariant.
LEMMA NextKeepsInv == ServerInv /\ [ServerNext]_serverVars => ServerInv'
<1>1. SUFFICES ASSUME ServerInv, [ServerNext]_serverVars PROVE ServerInv'
  OBVIOUS
<1>2. CASE ClearCache \/ Idle \/ UNCHANGED serverVars
  BY <1>1, <1>2, OtherStepsKeepInv
<1>3. ASSUME NEW c \in Clients, Arrive(c) \/ TurnAway(c) \/ HandlerStep(c)
      PROVE  ServerInv'
  BY <1>1, <1>3, ArriveKeepsInv, TurnAwayKeepsInv, RejectKeepsInv, QueueKeepsInv,
              WaitForRunKeepsInv,
     FailToStartKeepsInv, SpawnKeepsInv, CompleteKeepsInv, ReleaseKeepsInv
     DEF HandlerStep
<1>4. ASSUME NEW c \in Clients, BodyStep(c) \/ TaskStep(c)
      PROVE  ServerInv'
  BY <1>1, <1>4, WriteEventKeepsInv, WriteDoneKeepsInv, DecodeKeepsInv, OfferKeepsInv, SendKeepsInv,
     ReturnKeepsInv
     DEF BodyStep, TaskStep
<1>5. ASSUME NEW c \in Clients, Timeout(c) \/ HangUp(c)
      PROVE  ServerInv'
  BY <1>1, <1>5, DropHandlerKeepsInv
<1>6. QED BY <1>1, <1>2, <1>3, <1>4, <1>5 DEF ServerNext

\* The invariant of the server.
LEMMA ServerInvariant == ServerSpec => []ServerInv
BY ServerInvInit, NextKeepsInv, PTL DEF ServerSpec

-----------------------------------------------------------------------------
(***************************************************************************)
(* The properties                                                          *)
(***************************************************************************)

\* Nothing is lost wherever a future is dropped: a request that is over holds no
\* slot, and when none is inside all slots are there.
THEOREM SlotsReturned == ServerSpec => []SlotsComeBack
<1>1. ServerInv /\ SlotsConserved /\ BPTypeOK => SlotsComeBack
  <2>1. SUFFICES ASSUME ServerInv, SlotsConserved, BPTypeOK PROVE SlotsComeBack
    OBVIOUS
  <2>2. ASSUME NEW c \in Clients, handler[c] \in {"new", "received", "done"}
        PROVE  place[c] = "outside"
    BY <2>1, <2>2 DEF ServerInv, ClientOK, PlaceOK
  <2>3. ASSUME \A c \in Clients : handler[c] \in {"new", "received", "done"}
        PROVE  queue_slots = TotalSlots /\ run_slots = Running
    <3>1. \A c \in Clients : place[c] = "outside"
      BY <2>2, <2>3
    <3>2. HoldsQueueSlot = {} /\ run_permits = {}
      BY <2>1, <3>1 DEF HoldsQueueSlot, SlotsConserved, BPTypeOK
    <3>3. Cardinality({}) = 0
      BY FS_EmptySet
    <3>4. QED BY <2>1, <3>2, <3>3, Limits DEF SlotsConserved, BPTypeOK
  <2>4. QED BY <2>2, <2>3 DEF SlotsComeBack
<1>2. ServerSpec => [](SlotsConserved /\ BPTypeOK)
  BY ServerRunsController, SlotsAreConserved, BPTypes, PTL
<1>3. QED BY <1>1, <1>2, ServerInvariant, PTL

\* [DONE] means that the generation has ended and that all it sent was written.
THEOREM StreamsComplete == ServerSpec => []DoneIsComplete
<1>1. ServerInv => DoneIsComplete
  BY DEF ServerInv, ServerTypes, ClientOK, StreamOK, DoneIsComplete
<1>2. QED BY <1>1, ServerInvariant, PTL

\* An answer without a stream is never given before the generation has ended, nor
\* with another meaning than its result.
THEOREM AnswersFinal == ServerSpec => []AnswersAreFinal
<1>1. ServerInv => AnswersAreFinal
  BY DEF ServerInv, ClientOK, AnswerOK, AnswersAreFinal
<1>2. QED BY <1>1, ServerInvariant, PTL
=============================================================================
