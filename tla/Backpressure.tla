---------------------------- MODULE Backpressure ----------------------------
(***************************************************************************)
(* The admission controller of mlx-server                                  *)
(* (crates/mlx-server/src/backpressure.rs): a request tries to take one of *)
(* the queue slots, waits for the run slot, and gives both back when it is *)
(* dropped, whether it ended, was answered with an error or was abandoned  *)
(* while it waited.                                                        *)
(*                                                                         *)
(* Both semaphores are tokio's, modelled from their use: acquire is fair   *)
(* (first in, first out), a released permit goes to the first waiter at    *)
(* once, before that waiter runs, and a waiter dropped with a permit       *)
(* releases it again.  `place' is where the code of each request stands.   *)
(***************************************************************************)
EXTENDS Integers, Sequences, FiniteSets, SequencesExt

CONSTANTS
    Clients,                \* requests, one HTTP exchange each
    MaxAdmittedRequests,    \* max_admitted_requests
    MaxQueueSize            \* max_queue_size

ASSUME ClientsAssumption == IsFiniteSet(Clients)
ASSUME LimitsAssumption  == MaxAdmittedRequests \in Nat /\ MaxQueueSize \in Nat

VARIABLES
    queue_slots,    \* permits left in the queue_slots semaphore
    run_slots,      \* permits left in the run_slots semaphore
    run_queue,      \* those waiting for a run permit, first come first
    run_permits,    \* those a run permit has been assigned to
    place           \* where each request stands

bpVars == <<queue_slots, run_slots, run_queue, run_permits, place>>

MAX_PARALLEL_GENERATIONS == 1

AtLeastOne(n) == IF n < 1 THEN 1 ELSE n
Admitted == AtLeastOne(MaxAdmittedRequests)
\* admitted.clamp(1, MAX_PARALLEL_GENERATIONS)
Running == IF Admitted > MAX_PARALLEL_GENERATIONS THEN MAX_PARALLEL_GENERATIONS ELSE Admitted
TotalSlots == AtLeastOne(Admitted + MaxQueueSize)

Places == {"outside", "ticket", "waiting", "running", "abandoned", "ending"}

BPInit ==
    /\ queue_slots = TotalSlots
    /\ run_slots = Running
    /\ run_queue = << >>
    /\ run_permits = {}
    /\ place = [c \in Clients |-> "outside"]

MoveTo(c, p) == place' = [place EXCEPT ![c] = p]

\* try_queue fails at once if no slot is left.
Overloaded(c) ==
    /\ place[c] = "outside"
    /\ queue_slots = 0
    /\ UNCHANGED bpVars

TryQueue(c) ==
    /\ place[c] = "outside"
    /\ queue_slots > 0
    /\ queue_slots' = queue_slots - 1
    /\ MoveTo(c, "ticket")
    /\ UNCHANGED <<run_slots, run_queue, run_permits>>

\* wait_for_run, first poll: take a free run permit or stand in line.
EnterRunQueue(c) ==
    /\ place[c] = "ticket"
    /\ MoveTo(c, "waiting")
    /\ IF run_slots > 0
       THEN /\ run_slots' = run_slots - 1
            /\ run_permits' = run_permits \cup {c}
            /\ UNCHANGED run_queue
       ELSE /\ run_queue' = Append(run_queue, c)
            /\ UNCHANGED <<run_slots, run_permits>>
    /\ UNCHANGED queue_slots

\* wait_for_run resumes and returns the RunPermit.
BeginRun(c) ==
    /\ place[c] = "waiting"
    /\ c \in run_permits
    /\ MoveTo(c, "running")
    /\ UNCHANGED <<queue_slots, run_slots, run_queue, run_permits>>

\* Mutant: the permit only goes back to the semaphore, nobody is woken.
PassOnToNobody(c) ==
    /\ run_permits' = run_permits \ {c}
    /\ run_slots' = run_slots + 1
    /\ UNCHANGED run_queue

\* The permit of c goes to the first waiter, or back to the semaphore.
PassOn(c) ==
    IF run_queue = << >>
    THEN /\ run_permits' = run_permits \ {c}
         /\ run_slots' = run_slots + 1
         /\ UNCHANGED run_queue
    ELSE /\ run_permits' = (run_permits \ {c}) \cup {Head(run_queue)}
         /\ run_queue' = Tail(run_queue)
         /\ UNCHANGED run_slots

\* Mutant: a waiter dropped with a permit assigned takes it along.
AbandonWaitLosesPermit(c) ==
    /\ place[c] = "waiting"
    /\ MoveTo(c, "abandoned")
    /\ run_queue' = SelectSeq(run_queue, LAMBDA d : d # c)
    /\ run_permits' = run_permits \ {c}
    /\ UNCHANGED <<queue_slots, run_slots>>

\* The future of wait_for_run is dropped: first its place in line (or the
\* permit it was assigned meanwhile) ...
AbandonWait(c) ==
    /\ place[c] = "waiting"
    /\ MoveTo(c, "abandoned")
    /\ IF c \in run_permits
       THEN PassOn(c)
       ELSE /\ \E i \in DOMAIN run_queue :
                 run_queue[i] = c /\ run_queue' = RemoveAt(run_queue, i)
            /\ UNCHANGED <<run_slots, run_permits>>
    /\ UNCHANGED queue_slots

\* Mutant: an abandoned request keeps its queue slot.
DropQueuePermitOnlyAfterRun(c) ==
    /\ place[c] \in {"running", "abandoned"}
    /\ queue_slots' = IF place[c] = "running" THEN queue_slots + 1 ELSE queue_slots
    /\ MoveTo(c, IF place[c] = "running" THEN "ending" ELSE "outside")
    /\ UNCHANGED <<run_slots, run_queue, run_permits>>

\* ... then the queue permit; a RunPermit drops its queue permit first ...
DropQueuePermit(c) ==
    /\ place[c] \in {"running", "abandoned"}
    /\ queue_slots' = queue_slots + 1
    /\ MoveTo(c, IF place[c] = "running" THEN "ending" ELSE "outside")
    /\ UNCHANGED <<run_slots, run_queue, run_permits>>

\* ... and its run permit second.
DropRunPermit(c) ==
    /\ place[c] = "ending"
    /\ MoveTo(c, "outside")
    /\ PassOn(c)
    /\ UNCHANGED queue_slots

BPStep(c) ==
    \/ Overloaded(c) \/ TryQueue(c) \/ EnterRunQueue(c) \/ BeginRun(c)
    \/ AbandonWait(c) \/ DropQueuePermit(c) \/ DropRunPermit(c)

BPNext == \E c \in Clients : BPStep(c)

BPSpec == BPInit /\ [][BPNext]_bpVars
-----------------------------------------------------------------------------
BPTypeOK ==
    /\ queue_slots \in 0..TotalSlots
    /\ run_slots \in 0..Running
    /\ run_queue \in Seq(Clients)
    /\ run_permits \subseteq Clients
    /\ place \in [Clients -> Places]

HoldsQueueSlot == {c \in Clients : place[c] \in {"ticket", "waiting", "running", "abandoned"}}
HoldsRunSlot   == {c \in Clients : place[c] \in {"running", "ending"}}

\* Slots are neither lost nor made up, whenever requests give up: what is left
\* and what requests hold always add up to the configured numbers, and nobody
\* outside, abandoned or with a mere ticket has a run permit.
SlotsConserved ==
    /\ queue_slots + Cardinality(HoldsQueueSlot) = TotalSlots
    /\ run_slots + Cardinality(run_permits) = Running
    /\ HoldsRunSlot \subseteq run_permits
    /\ \A c \in run_permits : place[c] \in {"waiting", "running", "ending"}

\* At most one request runs, and nobody stands in line while the run slot is
\* free: a permit that is released or abandoned is always handed on.
RunSlotNeverIdle ==
    /\ Cardinality(HoldsRunSlot) <= MAX_PARALLEL_GENERATIONS
    /\ run_slots > 0 => run_queue = << >>

\* Those in line are exactly the waiting requests without a permit, once each.
LineIsExact ==
    /\ IsInjective(run_queue)
    /\ ToSet(run_queue) = {c \in Clients : place[c] = "waiting" /\ c \notin run_permits}

\* A queued request that does not give up gets to run, whatever the others do.
QueuedRequestsRun ==
    \A c \in Clients : place[c] = "ticket" ~> place[c] \in {"running", "abandoned"}
=============================================================================
