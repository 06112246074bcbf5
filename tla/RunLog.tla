------------------------------- MODULE RunLog -------------------------------
(***************************************************************************)
(* The event log of one run, as storage.ts writes it: the run row, the     *)
(* workflow_event_slots row with its in-band count, and the slot-numbered  *)
(* rows of workflow_events.                                                *)
(*                                                                         *)
(* Every writer runs one events.create call at a time, one SQL statement   *)
(* per step, under READ COMMITTED.  The calls of an orchestrator are       *)
(* in-band: the fenced wrapper puts the whole call in one transaction      *)
(* behind the slots row's lock.  The calls of a client are out of band:    *)
(* their statements commit one by one, except the transaction that creates *)
(* the run.  A process may die between any two statements.                 *)
(***************************************************************************)
EXTENDS Integers, FiniteSets

CONSTANTS
  Orchestrators,   \* deliveries that replay the run and write in-band
  Clients,         \* everything else that calls events.create for the run
  ClientOps,       \* the event types the clients write
  EarlyOps,        \* those they may send for a run they have not read
  MaxEvents,       \* no call begins once the log has this many events
  MaxCollisions    \* SLOT_INSERT_MAX_ATTEMPTS

Writers == Orchestrators \cup Clients

TerminalOps == {"run_completed", "run_failed", "run_cancelled"}

OrchestratorOps == {"run_started", "run_completed", "run_failed", "step_created"}

EventTypes == {"run_created", "run_started", "step_created"} \cup TerminalOps

ASSUME WriterAssumption == Orchestrators \cap Clients = {}
ASSUME OpAssumption ==
  /\ ClientOps \subseteq EventTypes /\ EarlyOps \subseteq ClientOps
  /\ "step_created" \notin EarlyOps
ASSUME BoundAssumption == MaxEvents \in Nat /\ MaxCollisions \in Nat

VARIABLES
  status,  \* workflow_runs.status, "absent" while there is no row
  seq,     \* workflow_event_slots.seq_in_band, 0 while there is no row
  steps,   \* does the workflow_steps row of the run's step exist
  log,     \* workflow_events: committed slot -> event
  pc,      \* the statement each writer executes next
  op,      \* the event type it is writing, "none" between calls
  slot,    \* the slot its INSERT computed
  tries,   \* slot collisions of this call
  ins,     \* events its open transaction has inserted: slot -> event
  newStatus, \* run status its transaction has written, or "none"
  newSeq,  \* count its transaction has written, or 0
  newStep, \* has its transaction inserted the step's row
  locked,  \* does it hold the slots row by SELECT ... FOR UPDATE
  known,   \* the expectedSeqInBand an orchestrator sends next
  view     \* the slots of the events it has loaded

rows == <<status, seq, steps, log>>
call == <<op, slot, tries>>
tx == <<ins, newStatus, newSeq, newStep, locked>>
vars == <<rows, pc, call, tx, known, view>>

Terminal == {"completed", "failed", "cancelled"}
Statuses == {"absent", "pending", "running"} \cup Terminal

(* An event: its type and, for an in-band write, the count its writer sent *)
(* and the events that writer had loaded. Out-of-band writes have seen 0.  *)
Events == [type : EventTypes, seen : Nat, view : SUBSET Nat]

NoEvents == [s \in {} |-> {}]

StatusOf(o) == CASE o = "run_completed" -> "completed"
                 [] o = "run_failed"    -> "failed"
                 [] o = "run_cancelled" -> "cancelled"
                 [] o = "run_started"   -> "running"

-----------------------------------------------------------------------------
(* What a statement of writer w sees: committed rows and its own.          *)

Fenced(w) == w \in Orchestrators

StatusSeen(w) == IF newStatus[w] # "none" THEN newStatus[w] ELSE status
SeqSeen(w)    == IF newSeq[w] # 0 THEN newSeq[w] ELSE seq
SlotsSeen(w)  == DOMAIN log \cup DOMAIN ins[w]

(* Rows another transaction has written or locked and not yet committed.   *)
RunHeldBy(v)   == newStatus[v] # "none"
SlotsHeldBy(v) == locked[v] \/ newSeq[v] # 0

(* Whom the next statement of w would wait for.  An UPDATE does not see,   *)
(* and so does not wait for, a run that another transaction is inserting.  *)
WaitsFor(w) ==
  {v \in Writers \ {w} :
     \/ pc[w] = "fence"   /\ seq # 0 /\ SlotsHeldBy(v)
     \/ pc[w] = "create"  /\ status = "absent" /\ RunHeldBy(v)
     \/ pc[w] = "update"  /\ op[w] # "step_created" /\ status # "absent" /\ RunHeldBy(v)
     \/ pc[w] = "update"  /\ op[w] = "step_created" /\ newStep[v]
     \/ pc[w] = "insert"  /\ slot[w] \in DOMAIN ins[v]
     \/ pc[w] = "advance" /\ SlotsHeldBy(v)}

Runnable(w) == WaitsFor(w) = {}

LastSlot(S) == IF S = {} THEN 0 ELSE CHOOSE s \in S : \A t \in S : t <= s

Put(f, s, e) == [x \in DOMAIN f \cup {s} |-> IF x = s THEN e ELSE f[x]]

Merge(f, g) == [x \in DOMAIN f \cup DOMAIN g |->
                  IF x \in DOMAIN g THEN g[x] ELSE f[x]]

RunCreatedEvent == [type |-> "run_created", seen |-> 0, view |-> {}]

EventOf(w) == [type |-> op[w],
               seen |-> IF Fenced(w) THEN known[w] ELSE 0,
               view |-> IF Fenced(w) THEN view[w] ELSE {}]

(* A delivery that would send an unknown count.                            *)
FreshUnknown(w) == IF Fenced(w) THEN -1 ELSE 0

(* What a new delivery expects: the count of a run just created.           *)
Fresh(w) == IF Fenced(w) THEN 1 ELSE 0

-----------------------------------------------------------------------------
Init ==
  /\ status = "absent" /\ seq = 0 /\ steps = FALSE
  /\ log = NoEvents
  /\ pc = [w \in Writers |-> "idle"]
  /\ op = [w \in Writers |-> "none"]
  /\ slot = [w \in Writers |-> 0]
  /\ tries = [w \in Writers |-> 0]
  /\ ins = [w \in Writers |-> NoEvents]
  /\ newStatus = [w \in Writers |-> "none"]
  /\ newSeq = [w \in Writers |-> 0]
  /\ newStep = [w \in Writers |-> FALSE]
  /\ locked = [w \in Writers |-> FALSE]
  /\ known = [w \in Writers |-> Fresh(w)]
  /\ view = [w \in Writers |-> {}]

Goto(w, label) == pc' = [pc EXCEPT ![w] = label]

(* The call returns or throws.                                             *)
Return(w) ==
  /\ Goto(w, "idle")
  /\ op' = [op EXCEPT ![w] = "none"]
  /\ slot' = [slot EXCEPT ![w] = 0]
  /\ tries' = [tries EXCEPT ![w] = 0]

EndTransaction(w) ==
  /\ ins' = [ins EXCEPT ![w] = NoEvents]
  /\ newStatus' = [newStatus EXCEPT ![w] = "none"]
  /\ newSeq' = [newSeq EXCEPT ![w] = 0]
  /\ newStep' = [newStep EXCEPT ![w] = FALSE]
  /\ locked' = [locked EXCEPT ![w] = FALSE]

(* ... having appended nothing: its transaction, if any, rolls back.       *)
Rollback(w) ==
  /\ Return(w)
  /\ EndTransaction(w)
  /\ UNCHANGED rows

(* RunExpired, EntityConflict, not found: the caller handles the answer.   *)
Refuse(w) == Rollback(w) /\ UNCHANGED <<known, view>>

(* Superseded or failed: a redelivery starts from nothing or from the log. *)
Abandon(w) ==
  /\ Rollback(w)
  /\ known' = [known EXCEPT ![w] = Fresh(w)]
  /\ view' = [view EXCEPT ![w] = {}]

Continue(w, label) ==
  /\ Goto(w, label)
  /\ UNCHANGED <<rows, call, tx, known, view>>

-----------------------------------------------------------------------------
(* The call arrives: create() of the fenced storage for an orchestrator,   *)
(* of the unfenced one for a client.  A run_started carries the run's      *)
(* input; every other event of an orchestrator follows a load of the log.  *)
Begin(w, o) ==
  /\ pc[w] = "idle"
  /\ LastSlot(DOMAIN log) < MaxEvents
  /\ \/ w \in Orchestrators /\ o \in OrchestratorOps /\ known[w] # 0
        /\ (o # "run_started" => 1 \in view[w])
     \/ w \in Clients /\ o \in ClientOps
        /\ (status = "absent" => o \in EarlyOps)
  /\ op' = [op EXCEPT ![w] = o]
  /\ Goto(w, CASE Fenced(w) -> "fence"
               [] o = "run_created" -> "create"
               [] OTHER -> "validate")
  /\ UNCHANGED <<rows, slot, tries, tx, known, view>>

(* SELECT seq_in_band ... FOR UPDATE: wait for the lock, then compare.     *)
Fence(w) ==
  /\ pc[w] = "fence" /\ Runnable(w)
  /\ \/ /\ seq \notin {0, known[w]}
        /\ Abandon(w)
     \/ /\ seq \in {0, known[w]}
        /\ Goto(w, "validate")
        /\ locked' = [locked EXCEPT ![w] = (seq # 0)]
        /\ UNCHANGED <<rows, call, ins, newStatus, newSeq, newStep, known, view>>

(* The unlocked read of the run and the checks made on it.  run_started    *)
(* creates an absent run, is answered without an event on a running one,   *)
(* after which the runtime loads the log, and is refused on a terminal     *)
(* one; run_cancelled is recorded once more on a cancelled run.  Begin     *)
(* keeps out what the runtime never sends: a run_started without the input *)
(* the run is created from, and a step_created for a run nobody has read.  *)
Validate(w) ==
  LET current == StatusSeen(w) IN
  /\ pc[w] = "validate"
  /\ \/ op[w] = "run_started" /\ current = "absent"  /\ Continue(w, "create")
     \/ op[w] = "run_started" /\ current = "pending" /\ Continue(w, "update")
     \/ op[w] = "run_started" /\ current = "running" /\ Abandon(w)
     \/ op[w] # "run_started" /\ current \notin Terminal /\ Continue(w, "update")
     \/ op[w] = "run_cancelled" /\ current = "cancelled" /\ Continue(w, "pick")
     \/ ~(op[w] = "run_cancelled" /\ current = "cancelled")
        /\ current \in Terminal /\ Refuse(w)

(* The run row and the slots row committed ahead of run_created.           *)
CreateRunRowFirst(w) ==
  /\ pc[w] = "create" /\ Runnable(w)
  /\ \/ /\ status = "absent"
        /\ status' = "pending" /\ seq' = 1
        /\ newSeq' = newSeq /\ newStatus' = newStatus
        /\ ins' = [ins EXCEPT ![w] = Put(@, 1, RunCreatedEvent)]
        /\ Goto(w, IF Fenced(w) THEN "update" ELSE "created")
        /\ UNCHANGED <<steps, log, call, newStep, locked, known, view>>
     \/ status # "absent" /\ op[w] = "run_started" /\ Continue(w, "validate")
     \/ status # "absent" /\ op[w] = "run_created" /\ Refuse(w)

(* insertRunWithCreatedEvent: the run row, the slots row and run_created   *)
(* in slot 1.  A concurrent creator waits for the run's primary key.       *)
CreateRun(w) ==
  /\ pc[w] = "create" /\ Runnable(w)
  /\ \/ /\ status = "absent"
        /\ newStatus' = [newStatus EXCEPT ![w] = "pending"]
        /\ newSeq' = [newSeq EXCEPT ![w] = 1]
        /\ ins' = [ins EXCEPT ![w] = Put(@, 1, RunCreatedEvent)]
        /\ Goto(w, IF Fenced(w) THEN "update" ELSE "created")
        /\ UNCHANGED <<rows, call, newStep, locked, known, view>>
     \/ /\ status # "absent" /\ op[w] = "run_started"   \* lost: read again
        /\ Continue(w, "validate")
     \/ /\ status # "absent" /\ op[w] = "run_created"   \* already exists
        /\ Refuse(w)

(* Everything the transaction wrote becomes visible at once.               *)
CommitRows(w) ==
  /\ status' = StatusSeen(w)
  /\ seq' = SeqSeen(w)
  /\ steps' = (steps \/ newStep[w])
  /\ log' = Merge(log, ins[w])
  /\ EndTransaction(w)

(* COMMIT of a client's insertRunWithCreatedEvent.                         *)
CommitCreated(w) ==
  /\ pc[w] = "created"
  /\ CommitRows(w)
  /\ IF op[w] = "run_created" THEN Return(w) ELSE Goto(w, "update") /\ UNCHANGED call
  /\ UNCHANGED <<known, view>>

(* The terminal UPDATE without its condition on the status.                *)
MatchesAlways(w) == TRUE

(* run_started matches the run whatever its status is by now, a terminal   *)
(* event only while it is not terminal.                                    *)
Matches(w) == op[w] \in TerminalOps => StatusSeen(w) \notin Terminal \cup {"absent"}

(* A fenced call's entity write made outside its transaction.              *)
UpdateEntityOutside(w) ==
  /\ pc[w] = "update" /\ Runnable(w)
  /\ IF Matches(w)
     THEN /\ IF op[w] = "step_created"
             THEN steps' = TRUE /\ UNCHANGED status
             ELSE status' = StatusOf(op[w]) /\ UNCHANGED steps
          /\ Goto(w, "pick")
     ELSE UNCHANGED <<status, steps>> /\ Goto(w, "recheck")
  /\ UNCHANGED <<seq, log, call, tx, known, view>>

(* step_created: INSERT of the step's row, unless it exists.               *)
InsertStep(w) ==
  \/ /\ Fenced(w) /\ newStep' = [newStep EXCEPT ![w] = ~steps]
     /\ UNCHANGED <<rows, newStatus>>
  \/ /\ ~Fenced(w) /\ steps' = TRUE
     /\ UNCHANGED <<status, seq, log, newStatus, newStep>>

(* run_started and the terminal events: UPDATE of the run's status.        *)
UpdateRun(w) ==
  \/ /\ Fenced(w) /\ newStatus' = [newStatus EXCEPT ![w] = StatusOf(op[w])]
     /\ UNCHANGED <<rows, newStep>>
  \/ /\ ~Fenced(w) /\ status' = StatusOf(op[w])
     /\ UNCHANGED <<seq, steps, log, newStatus, newStep>>

(* The entity write that precedes the event.  A terminal event also        *)
(* deletes the run's waits and hooks, which are not rows of this module    *)
(* (HookTokens has the hooks: Cleanup).                                    *)
UpdateEntity(w) ==
  /\ pc[w] = "update" /\ Runnable(w)
  /\ \/ op[w] = "step_created" /\ InsertStep(w) /\ Goto(w, "pick")
     \/ op[w] # "step_created" /\ Matches(w) /\ UpdateRun(w) /\ Goto(w, "pick")
     \/ ~Matches(w) /\ UNCHANGED <<rows, newStatus, newStep>> /\ Goto(w, "recheck")
  /\ UNCHANGED <<call, ins, newSeq, locked, known, view>>

(* A terminal UPDATE that matched no row reads the run again: terminal is  *)
(* a conflict; if the run is active again by now the call goes on.         *)
Recheck(w) ==
  /\ pc[w] = "recheck"
  /\ \/ StatusSeen(w) \in Terminal \cup {"absent"} /\ Refuse(w)
     \/ StatusSeen(w) \in {"pending", "running"} /\ Continue(w, "pick")

-----------------------------------------------------------------------------
(* A slot counter that moves before its event commits.                     *)
NextSlotFromCounter(w) ==
  LastSlot(DOMAIN log \cup UNION {DOMAIN ins[v] : v \in Writers}) + 1

(* insertEventRow: the INSERT computes the next slot from the rows it sees *)
(* and then meets the primary key, whose uncommitted holder it waits for.  *)
NextSlot(w) == LastSlot(SlotsSeen(w)) + 1

PickSlot(w) ==
  /\ pc[w] = "pick"
  /\ slot' = [slot EXCEPT ![w] = NextSlot(w)]
  /\ Goto(w, "insert")
  /\ UNCHANGED <<rows, op, tries, tx, known, view>>

(* No unique index on entity creation.                                     *)
DuplicateNever(w) == FALSE

(* workflow_events_entity_creation_unique: one step_created per step.      *)
Duplicate(w) ==
  op[w] = "step_created" /\ \E s \in DOMAIN log : log[s].type = "step_created"

(* ON CONFLICT DO UPDATE.                                                  *)
InsertEventUpsert(w) ==
  /\ pc[w] = "insert" /\ Runnable(w)
  /\ \/ /\ Duplicate(w) /\ Refuse(w)
     \/ /\ ~Duplicate(w) /\ Fenced(w)
        /\ ins' = [ins EXCEPT ![w] = Put(@, slot[w], EventOf(w))]
        /\ Goto(w, "advance")
        /\ UNCHANGED <<rows, call, newStatus, newSeq, newStep, locked, known, view>>
     \/ /\ ~Duplicate(w) /\ ~Fenced(w)
        /\ log' = Put(log, slot[w], EventOf(w))
        /\ Return(w)
        /\ UNCHANGED <<status, seq, steps, tx, known, view>>

(* Retries that meet the same occupied slot forever.                       *)
InsertEventSameSlot(w) ==
  /\ pc[w] = "insert" /\ Runnable(w)
  /\ IF slot[w] \in DOMAIN log THEN UNCHANGED vars ELSE InsertEventUpsert(w)

InsertEvent(w) ==
  /\ pc[w] = "insert" /\ Runnable(w)
  /\ \/ /\ slot[w] \in DOMAIN log               \* ON CONFLICT DO NOTHING
        /\ tries[w] < MaxCollisions
        /\ tries' = [tries EXCEPT ![w] = @ + 1]
        /\ Goto(w, "pick")
        /\ UNCHANGED <<rows, op, slot, tx, known, view>>
     \/ /\ slot[w] \in DOMAIN log               \* 503
        /\ tries[w] >= MaxCollisions
        /\ Abandon(w)
     \/ /\ slot[w] \notin DOMAIN log /\ Duplicate(w)
        /\ Refuse(w)
     \/ /\ slot[w] \notin DOMAIN log /\ ~Duplicate(w) /\ Fenced(w)
        /\ ins' = [ins EXCEPT ![w] = Put(@, slot[w], EventOf(w))]
        /\ Goto(w, "advance")
        /\ UNCHANGED <<rows, call, newStatus, newSeq, newStep, locked, known, view>>
     \/ /\ slot[w] \notin DOMAIN log /\ ~Duplicate(w) /\ ~Fenced(w)
        /\ log' = Put(log, slot[w], EventOf(w))
        /\ Return(w)
        /\ UNCHANGED <<status, seq, steps, tx, known, view>>

(* The count left alone.                                                   *)
AdvanceNothing(w) == pc[w] = "advance" /\ Continue(w, "commit")

(* The count advanced whatever it is.                                      *)
AdvanceAlways(w) ==
  /\ pc[w] = "advance" /\ Runnable(w)
  /\ newSeq' = [newSeq EXCEPT ![w] = SeqSeen(w) + 1]
  /\ Goto(w, "commit")
  /\ UNCHANGED <<rows, call, ins, newStatus, newStep, locked, known, view>>

(* advanceFence: UPDATE ... WHERE seq_in_band = expected.                  *)
AdvanceFence(w) ==
  /\ pc[w] = "advance" /\ Runnable(w)
  /\ \/ /\ SeqSeen(w) = known[w]
        /\ newSeq' = [newSeq EXCEPT ![w] = known[w] + 1]
        /\ Goto(w, "commit")
        /\ UNCHANGED <<rows, call, ins, newStatus, newStep, locked, known, view>>
     \/ /\ SeqSeen(w) # known[w]
        /\ Abandon(w)

(* COMMIT of the fenced call: the orchestrator counts its own event, and   *)
(* run_started answers with every event the transaction can list (no       *)
(* in-band event can commit between that listing and the COMMIT).          *)
CommitFenced(w) ==
  /\ pc[w] = "commit"
  /\ CommitRows(w)
  /\ Return(w)
  /\ known' = [known EXCEPT ![w] = @ + 1]
  /\ view' = [view EXCEPT ![w] = IF op[w] = "run_started" THEN SlotsSeen(w)
                                 ELSE @ \cup {slot[w]}]

-----------------------------------------------------------------------------
(* events.list of an orchestrator: the snapshot's count, then the page.    *)
(* A run created between the two reads is read again in the same order.    *)
ListSnapshot(w) ==
  /\ w \in Orchestrators /\ pc[w] \in {"idle", "relist"}
  /\ known' = [known EXCEPT ![w] = seq]
  /\ Goto(w, IF pc[w] = "idle" THEN "page" ELSE "repage")
  /\ UNCHANGED <<rows, call, tx, view>>

(* The second snapshot paired with the first page.                         *)
ListPageOnce(w) ==
  /\ pc[w] \in {"page", "repage"}
  /\ view' = [view EXCEPT ![w] = IF pc[w] = "page" THEN DOMAIN log ELSE @]
  /\ Goto(w, IF pc[w] = "page" /\ known[w] = 0 /\ DOMAIN log # {}
             THEN "relist" ELSE "idle")
  /\ UNCHANGED <<rows, call, tx, known>>

ListPage(w) ==
  /\ pc[w] \in {"page", "repage"}
  /\ view' = [view EXCEPT ![w] = DOMAIN log]
  /\ Goto(w, IF pc[w] = "page" /\ known[w] = 0 /\ DOMAIN log # {}
             THEN "relist" ELSE "idle")
  /\ UNCHANGED <<rows, call, tx, known>>

(* The process dies: the open transaction rolls back, committed statements *)
(* stay, and a redelivery starts from the log.                             *)
Crash(w) == pc[w] # "idle" /\ Abandon(w)

(* PostgreSQL's deadlock detector ends one transaction of a wait cycle.    *)
InCycle(w) ==
  \E S \in SUBSET Writers :
    /\ w \in S
    /\ \A x \in S : WaitsFor(x) \cap S # {} /\ \E y \in S : x \in WaitsFor(y)

DeadlockAbort(w) == InCycle(w) /\ Abandon(w)

Statement(w) ==
  \/ Fence(w) \/ Validate(w) \/ CreateRun(w) \/ CommitCreated(w) \/ UpdateEntity(w) \/ Recheck(w)
  \/ PickSlot(w) \/ InsertEvent(w) \/ AdvanceFence(w) \/ CommitFenced(w)
  \/ ListPage(w) \/ (pc[w] = "relist" /\ ListSnapshot(w))

Next ==
  \E w \in Writers :
    \/ \E o \in EventTypes : Begin(w, o)
    \/ Statement(w)
    \/ (pc[w] = "idle" /\ ListSnapshot(w))
    \/ DeadlockAbort(w)
    \/ Crash(w)

Spec == Init /\ [][Next]_vars

(* A statement waiting for a lock is granted it in its turn, and a live    *)
(* process executes its next statement: strong fairness of the statements. *)
(* Nothing obliges a caller to call, a process to die, or a list to begin. *)
FairSpec ==
  /\ Spec
  /\ \A w \in Writers : SF_vars(Statement(w)) /\ WF_vars(DeadlockAbort(w))

-----------------------------------------------------------------------------
Labels == {"idle", "fence", "validate", "create", "created", "update",
           "recheck", "pick", "insert", "advance", "commit", "page",
           "relist", "repage"}

(* The columns and the call state stay within their types.                 *)
TypeOK ==
  /\ status \in Statuses /\ seq \in Nat /\ steps \in BOOLEAN
  /\ DOMAIN log \subseteq Nat /\ log \in [DOMAIN log -> Events]
  /\ pc \in [Writers -> Labels]
  /\ op \in [Writers -> EventTypes \cup {"none"}]
  /\ slot \in [Writers -> Nat] /\ tries \in [Writers -> Nat]
  /\ ins = [w \in Writers |-> ins[w]]
  /\ \A w \in Writers : /\ DOMAIN ins[w] \subseteq Nat
                        /\ ins[w] \in [DOMAIN ins[w] -> Events]
  /\ newStatus \in [Writers -> Statuses \cup {"none"}]
  /\ newSeq \in [Writers -> Nat]
  /\ newStep \in [Writers -> BOOLEAN] /\ locked \in [Writers -> BOOLEAN]
  /\ known \in [Writers -> Nat] /\ view \in [Writers -> SUBSET Nat]

(* The slots of the committed events are 1, 2, ..., n: a reader never sees *)
(* a hole, whichever writers collided, rolled back or died (nextSlotId).   *)
NoHoles == DOMAIN log = 1..LastSlot(DOMAIN log)

(* run_created is the event of slot 1 and of no other, and it is visible   *)
(* exactly when the run is (insertRunWithCreatedEvent).                    *)
RunCreatedFirst ==
  /\ (status = "absent") = (log = NoEvents)
  /\ \A s \in DOMAIN log : log[s].type = "run_created" <=> s = 1

(* The in-band count includes exactly the in-band events of the log, each  *)
(* one position (advanceFence in the transaction that appends): every      *)
(* position below the count belongs to one event, and to one only.         *)
CountMatchesLog ==
  /\ \A s \in DOMAIN log : log[s].seen < seq
  /\ \A n \in 1..(seq - 1) : \E s \in DOMAIN log : log[s].seen = n
  /\ \A s, t \in DOMAIN log : log[s].seen # 0 /\ log[s].seen = log[t].seen => s = t

(* An in-band event was written by an orchestrator that had loaded every   *)
(* in-band event before it: a stale or concurrent orchestrator never       *)
(* appends behind one it has not seen.                                     *)
NoBlindWrite ==
  \A s, t \in DOMAIN log :
    s < t /\ log[s].seen # 0 /\ log[t].seen # 0 => s \in log[t].view

(* The count an orchestrator holds never includes an event it did not get  *)
(* in the page (events.list reads the snapshot before the page).           *)
SnapshotNeverAhead ==
  \A w \in Orchestrators : pc[w] \notin {"page", "repage"} =>
    \A s \in DOMAIN log : 0 < log[s].seen /\ log[s].seen < known[w] => s \in view[w]

(* Two writers creating the same step journal it once.                     *)
StepCreatedOnce ==
  \A s, t \in DOMAIN log :
    log[s].type = "step_created" /\ log[t].type = "step_created" => s = t

(* A fenced transition commits with its event: a run an orchestrator has   *)
(* completed or failed has the event in its log, even if the orchestrator  *)
(* died on the way.                                                        *)
CompletionIsLogged ==
  \A o \in {"run_completed", "run_failed"} :
    status = StatusOf(o) => \E s \in DOMAIN log : log[s].type = o

(* No event is ever rewritten or removed.                                  *)
AppendOnly ==
  [][\A s \in DOMAIN log : s \in DOMAIN log' /\ log'[s] = log[s]]_vars

(* A terminal run stays in its terminal state: run_started is rejected on  *)
(* a completed, failed or cancelled run.                                   *)
TerminalStatusIsFinal == [][(status \in Terminal) => status' = status]_vars

(* The terminal events of a log agree with the run's row: of concurrent    *)
(* completions, failures and cancellations one wins, and only its event    *)
(* (or its repetition) is journaled (the conditional UPDATE).              *)
TerminalEventMatchesStatus ==
  \A s \in DOMAIN log :
    log[s].type \in TerminalOps => StatusOf(log[s].type) = status

(* The log implements an append-only sequence with compare-and-append for  *)
(* in-band events; every other step of the code leaves it as it is.        *)
Abstract == INSTANCE AppendLog WITH entries <- log, count <- seq

ImplementsAppendLog == Abstract!Spec

(* Every call returns: lock waits, deadlocks and slot collisions end.      *)
CallsReturn == \A w \in Writers : pc[w] # "idle" ~> pc[w] = "idle"

=============================================================================
