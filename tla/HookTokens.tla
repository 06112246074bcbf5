----------------------------- MODULE HookTokens -----------------------------
(***************************************************************************)
(* One hook token of a tenant and the runs that contend for it: creation,  *)
(* forced takeover, delivery, disposal and the cleanup at a run's end, as  *)
(* events.create of storage.ts executes them, one SQL statement per step,  *)
(* under READ COMMITTED.  A run has one hook, named by the run; its hook   *)
(* events are its journal.                                                 *)
(***************************************************************************)
EXTENDS Integers, Sequences, FiniteSets

CONSTANTS
  Runs,            \* the runs, all of them started
  Forced,          \* those that create their hook with experimental_force
  Old,             \* those stamped below SPEC_VERSION_SUPPORTS_HOOK_FORCE_CLAIM
  Retaining,       \* those that ask for tokenRetentionUntil
  Procs,           \* events.create calls in flight at one time
  MaxCalls,        \* calls of a behaviour
  MaxOwnerChanges  \* MAX_OWNER_CHANGES

ASSUME RunAssumption == Forced \cup Old \cup Retaining \subseteq Runs
ASSUME HookBoundAssumption == MaxCalls \in Nat /\ MaxOwnerChanges \in Nat

NoRun == "none"
ASSUME NoRunAssumption == NoRun \notin Runs

VARIABLES
  ended,    \* the runs whose status is terminal
  rows,     \* workflow_hooks: the runs whose hook row holds the token
  lapsed,   \* the runs whose retention has passed
  journal,  \* workflow_events, hook events and the terminal event of each run
  answers,  \* what deliveries to a missing hook were answered
  calls,    \* calls begun
  pc,       \* the statement each call executes next
  op,       \* its event type
  run,      \* the run it writes to
  target,   \* the run whose row it locks
  snap,     \* the rows its waiting statement scanned
  clock,    \* the lapsed retentions as now() of its takeover shows them
  tries,    \* owner changes of a takeover
  reason,   \* of a conflict: the owner and why
  runLock,  \* workflow_runs rows it has locked
  hookLock, \* workflow_hooks rows it has locked or deleted
  del,      \* those it has deleted
  add,      \* has it inserted its run's row
  pend      \* events it has inserted: run -> event

db == <<ended, rows, lapsed, journal>>
tx == <<runLock, hookLock, del, add, pend>>
call == <<op, run>>
local == <<target, snap, clock, tries, reason>>
vars == <<db, answers, calls, pc, call, local, tx>>

NoEvent == [r \in {} |-> {}]

Ops == {"hook_created", "hook_received", "hook_disposed", "run_ended"}

(* A journal entry: "other" is the run a takeover took from or disposed    *)
(* for, or the owner a conflict names; "why" is forceRefusedReason.        *)
Entry(type, other, why) == [type |-> type, other |-> other, why |-> why]

Entries == [type : Ops \cup {"hook_conflict"}, other : Runs \cup {NoRun},
            why : {"null", "victim-spec-version"}]

Has(r, type) == \E i \in DOMAIN journal[r] : journal[r][i].type = type

Retained(r) == r \in Retaining \ lapsed

(* The rows a by-token lookup resolves: getHookByToken's "available".      *)
Available == {r \in rows : Retained(r) \/ r \notin ended}

(* Rows of ended runs whose retention has passed: anyone may collect them. *)
Collectable == {r \in rows : r \in ended /\ ~Retained(r)}

-----------------------------------------------------------------------------
(* The log of a run takes one uncommitted event at a time (see RunLog);    *)
(* this is the run that the INSERT of p is about.                          *)
JournalOf(p) == IF pc[p] = "dispose" THEN target[p] ELSE run[p]

(* Whom the next statement of p would wait for: a row lock, an uncommitted *)
(* claim of the token, or an uncommitted event of the same run.            *)
WaitsFor(p) ==
  {q \in Procs \ {p} :
     \/ pc[p] = "lock_run"  /\ target[p] \in runLock[q]
     \/ pc[p] = "end"       /\ run[p] \in runLock[q]
     \/ pc[p] \in {"lock_hook", "sweep"} /\ snap[p] \cap rows \cap hookLock[q] # {}
     \/ pc[p] = "delete"    /\ run[p] \in rows \cap hookLock[q]
     \/ pc[p] = "cleanup"   /\ run[p] \in rows \cap hookLock[q] /\ ~Retained(run[p])
     \/ pc[p] \in {"claim", "take"}      /\ (add[q] \/ del[q] # {})
     \/ pc[p] \in {"journal", "dispose", "conflict", "log_end"}
        /\ JournalOf(p) \in DOMAIN pend[q]}

Runnable(p) == WaitsFor(p) = {}

Init ==
  /\ ended = {} /\ lapsed = {} /\ answers = {} /\ calls = 0
  /\ \E h \in SUBSET Runs :
       /\ Cardinality(h) <= 1 /\ rows = h
       /\ journal = [r \in Runs |->
            IF r \in h THEN <<Entry("hook_created", NoRun, "null")>> ELSE <<>>]
  /\ pc = [p \in Procs |-> "idle"]
  /\ op = [p \in Procs |-> "none"] /\ run = [p \in Procs |-> NoRun]
  /\ target = [p \in Procs |-> NoRun] /\ snap = [p \in Procs |-> {}]
  /\ clock = [p \in Procs |-> {}]
  /\ tries = [p \in Procs |-> 0]
  /\ reason = [p \in Procs |-> <<NoRun, "null">>]
  /\ runLock = [p \in Procs |-> {}] /\ hookLock = [p \in Procs |-> {}]
  /\ del = [p \in Procs |-> {}] /\ add = [p \in Procs |-> FALSE]
  /\ pend = [p \in Procs |-> NoEvent]

Goto(p, label) == pc' = [pc EXCEPT ![p] = label]

EndTransaction(p) ==
  /\ runLock' = [runLock EXCEPT ![p] = {}]
  /\ hookLock' = [hookLock EXCEPT ![p] = {}]
  /\ del' = [del EXCEPT ![p] = {}]
  /\ add' = [add EXCEPT ![p] = FALSE]
  /\ pend' = [pend EXCEPT ![p] = NoEvent]

Return(p) ==
  /\ Goto(p, "idle")
  /\ op' = [op EXCEPT ![p] = "none"] /\ run' = [run EXCEPT ![p] = NoRun]
  /\ target' = [target EXCEPT ![p] = NoRun] /\ snap' = [snap EXCEPT ![p] = {}]
  /\ clock' = [clock EXCEPT ![p] = {}]
  /\ tries' = [tries EXCEPT ![p] = 0]
  /\ reason' = [reason EXCEPT ![p] = <<NoRun, "null">>]

(* The call throws: EntityConflict, not found, expired, 503.               *)
Refuse(p) == Return(p) /\ EndTransaction(p) /\ UNCHANGED <<db, answers, calls>>

(* The transaction ends without a write and the call goes on.              *)
Restart(p, label) ==
  /\ Goto(p, label) /\ EndTransaction(p)
  /\ UNCHANGED <<db, answers, calls, call, target, snap, clock, reason>>

Continue(p, label) ==
  Goto(p, label) /\ UNCHANGED <<db, answers, calls, call, local, tx>>

(* A conflict to be journaled, with the owner it names.                    *)
Conflict(p, owner, why) ==
  /\ Goto(p, "conflict") /\ EndTransaction(p)
  /\ reason' = [reason EXCEPT ![p] = <<owner, why>>]
  /\ UNCHANGED <<db, answers, calls, call, target, snap, clock, tries>>

Insert(p, r, entry) == pend' = [pend EXCEPT ![p] = [x \in DOMAIN @ \cup {r} |->
                                  IF x = r THEN entry ELSE @[x]]]

Autocommit(r, entry) == journal' = [journal EXCEPT ![r] = Append(@, entry)]

-----------------------------------------------------------------------------
(* A call arrives.  A delivery or a disposal names a hook that its caller  *)
(* has seen created.                                                       *)
Begin(p, o, r) ==
  /\ pc[p] = "idle" /\ calls < MaxCalls
  /\ o \in {"hook_received", "hook_disposed"} => Has(r, "hook_created")
  /\ calls' = calls + 1
  /\ op' = [op EXCEPT ![p] = o] /\ run' = [run EXCEPT ![p] = r]
  /\ Goto(p, IF o \in {"hook_created", "run_ended"} THEN "validate" ELSE "exists")
  /\ UNCHANGED <<db, answers, local, tx>>

(* hook_created and the terminal events: the unlocked read of the run.  An *)
(* ended run refuses both, but run_cancelled on a cancelled run is         *)
(* recorded once more ("run_ended" does not tell how a run ended).         *)
Validate(p) ==
  /\ pc[p] = "validate"
  /\ \/ run[p] \in ended /\ Refuse(p)
     \/ run[p] \in ended /\ op[p] = "run_ended" /\ Continue(p, "log_end")
     \/ run[p] \notin ended /\ op[p] = "hook_created" /\ Continue(p, "read")
     \/ run[p] \notin ended /\ op[p] = "run_ended" /\ Continue(p, "end")

(* hook_created: the unlocked read of the token's owner.                   *)
ReadOwner(p) ==
  /\ pc[p] = "read"
  /\ \/ Available = {} /\ Continue(p, "scan")
     \/ run[p] \in Available /\ Refuse(p)
     \/ \E owner \in Available \ {run[p]} :
          \/ run[p] \notin Forced /\ Conflict(p, owner, "null")
          \/ run[p] \in Forced /\ Continue(p, "candidate")

(* insertFreshHook: DELETE the rows nobody holds the token with, ...       *)
Scan(p) ==
  /\ pc[p] = "scan"
  /\ snap' = [snap EXCEPT ![p] = Collectable]
  /\ Goto(p, "sweep")
  /\ UNCHANGED <<db, answers, calls, call, target, clock, tries, reason, tx>>

Sweep(p) ==
  LET gone == snap[p] \cap Collectable IN
  /\ pc[p] = "sweep" /\ Runnable(p)
  /\ hookLock' = [hookLock EXCEPT ![p] = gone]
  /\ del' = [del EXCEPT ![p] = gone]
  /\ Goto(p, "claim")
  /\ UNCHANGED <<db, answers, calls, call, local, runLock, add, pend>>

(* The insert without the unique claim index.                              *)
ClaimAnyway(p) ==
  /\ pc[p] = "claim" /\ Runnable(p)
  /\ add' = [add EXCEPT ![p] = TRUE]
  /\ Goto(p, "journal")
  /\ UNCHANGED <<db, answers, calls, call, local, runLock, hookLock, del, pend>>

(* ... INSERT the hook's row, which waits for an uncommitted claim and     *)
(* loses to a committed one; the same hook's row is skipped.               *)
Claim(p) ==
  /\ pc[p] = "claim" /\ Runnable(p)
  /\ \/ /\ rows \ del[p] = {}
        /\ add' = [add EXCEPT ![p] = TRUE]
        /\ Goto(p, "journal")
        /\ UNCHANGED <<db, answers, calls, call, local, runLock, hookLock, del, pend>>
     \/ run[p] \in rows \ del[p] /\ Continue(p, "journal")
     \/ /\ rows \ del[p] # {} /\ run[p] \notin rows \ del[p]
        /\ UNCHANGED tries /\ Restart(p, "lost")

(* answerLostClaim: who holds the token now?                               *)
LostClaim(p) ==
  /\ pc[p] = "lost"
  /\ \/ Available = {} /\ Refuse(p)                           \* 503
     \/ run[p] \in Available /\ Refuse(p)
     \/ \E owner \in Available \ {run[p]} : Conflict(p, owner, "null")

(* hook_conflict, in a statement of its own.                               *)
JournalConflict(p) ==
  /\ pc[p] = "conflict" /\ Runnable(p)
  /\ Autocommit(run[p], Entry("hook_conflict", reason[p][1], reason[p][2]))
  /\ Return(p)
  /\ UNCHANGED <<ended, rows, lapsed, answers, calls, tx>>

-----------------------------------------------------------------------------
(* The takeover locks the hook's row ahead of the run's.                   *)
CandidateHookFirst(p) ==
  /\ pc[p] = "candidate"
  /\ \/ rows = {} /\ UNCHANGED tries /\ Restart(p, "scan")
     \/ \E owner \in rows :
          /\ \A q \in Procs \ {p} : owner \notin hookLock[q]
          /\ target' = [target EXCEPT ![p] = owner]
          /\ clock' = [clock EXCEPT ![p] = lapsed]
          /\ hookLock' = [hookLock EXCEPT ![p] = {owner}]
          /\ Goto(p, "lock_run")
          /\ UNCHANGED <<db, answers, calls, call, snap, tries, reason,
                         runLock, del, add, pend>>

(* takeoverAttempt: the owner by token, unlocked and unfiltered.            *)
Candidate(p) ==
  /\ pc[p] = "candidate"
  /\ \/ rows = {} /\ UNCHANGED tries /\ Restart(p, "scan")
     \/ \E owner \in rows :
          /\ target' = [target EXCEPT ![p] = owner]
          /\ clock' = [clock EXCEPT ![p] = lapsed]
          /\ Goto(p, "lock_run")
          /\ UNCHANGED <<db, answers, calls, call, snap, tries, reason, tx>>

(* The status read without a lock.                                         *)
LockRunPlain(p) ==
  /\ pc[p] = "lock_run"
  /\ \/ op[p] = "hook_received" /\ run[p] \in ended /\ Refuse(p)
     \/ /\ op[p] = "hook_received" => run[p] \notin ended
        /\ Continue(p, "scan_hook")

(* SELECT ... FROM workflow_runs ... FOR UPDATE, of a takeover and of a    *)
(* delivery: an ended run refuses the delivery.                            *)
LockRun(p) ==
  /\ pc[p] = "lock_run" /\ Runnable(p)
  /\ \/ op[p] = "hook_received" /\ run[p] \in ended /\ Refuse(p)
     \/ /\ op[p] = "hook_received" => run[p] \notin ended
        /\ runLock' = [runLock EXCEPT ![p] = {target[p]}]
        /\ Goto(p, "scan_hook")
        /\ UNCHANGED <<db, answers, calls, call, local, hookLock, del, add, pend>>

(* SELECT ... FROM workflow_hooks ... FOR UPDATE: the snapshot, ...        *)
ScanHook(p) ==
  /\ pc[p] = "scan_hook"
  /\ snap' = [snap EXCEPT ![p] =
       IF op[p] = "hook_received" THEN rows \cap {run[p]} ELSE rows]
  /\ Goto(p, "lock_hook")
  /\ UNCHANGED <<db, answers, calls, call, target, clock, tries, reason, tx>>

(* The delivery goes on without re-reading its hook under the lock.        *)
LockHookUnchecked(p) ==
  /\ pc[p] = "lock_hook" /\ Runnable(p)
  /\ Continue(p, IF op[p] = "hook_received" THEN "journal" ELSE "victim")

(* ... and the rows of it that are left once their lock is granted.        *)
LockHook(p) ==
  LET found == snap[p] \cap rows IN
  /\ pc[p] = "lock_hook" /\ Runnable(p)
  /\ \/ /\ found = {} /\ op[p] = "hook_received" /\ Continue(p, "refusal")
     \/ /\ found = {} /\ op[p] = "hook_created"
        /\ UNCHANGED tries /\ Restart(p, "scan")
     \/ /\ found # {} /\ target[p] \notin found              \* OWNER_CHANGED
        /\ tries[p] < MaxOwnerChanges
        /\ tries' = [tries EXCEPT ![p] = @ + 1]
        /\ Restart(p, "candidate")
     \/ /\ found # {} /\ target[p] \notin found              \* 503
        /\ tries[p] >= MaxOwnerChanges
        /\ Refuse(p)
     \/ /\ target[p] \in found
        /\ hookLock' = [hookLock EXCEPT ![p] = found]
        /\ Goto(p, IF op[p] = "hook_received" THEN "journal" ELSE "victim")
        /\ UNCHANGED <<db, answers, calls, call, local, runLock, del, add, pend>>

(* A token nobody holds, treated as one that changed owner.                *)
VictimRetried(p) ==
  LET v == target[p] IN
  /\ pc[p] = "victim"
  /\ \/ v = run[p] /\ Refuse(p)
     \/ /\ v # run[p] /\ v \in ended
        /\ UNCHANGED tries /\ Restart(p, "candidate")
     \/ v # run[p] /\ v \notin ended /\ Continue(p, "dispose")

(* What the locked rows say: a duplicate of this creation, a token nobody  *)
(* holds (now() is the transaction's start), a victim too old to read the  *)
(* disposal, a takeover of a running or of a retaining run.                *)
Victim(p) ==
  LET v == target[p] IN
  /\ pc[p] = "victim"
  /\ \/ v = run[p] /\ Refuse(p)
     \/ /\ v # run[p] /\ v \in ended /\ v \notin Retaining \ clock[p]
        /\ UNCHANGED tries /\ Restart(p, "scan")
     \/ /\ v # run[p] /\ v \notin ended /\ v \in Old
        /\ Conflict(p, v, "victim-spec-version")
     \/ v # run[p] /\ v \notin ended /\ v \notin Old /\ Continue(p, "dispose")
     \/ /\ v # run[p] /\ v \in ended /\ v \in Retaining \ clock[p]
        /\ Continue(p, "take_delete")

(* The disposal committed ahead of the takeover it belongs to.             *)
DisposeVictimApart(p) ==
  /\ pc[p] = "dispose" /\ Runnable(p)
  /\ Autocommit(target[p], Entry("hook_disposed", run[p], "null"))
  /\ Goto(p, "take_delete")
  /\ UNCHANGED <<ended, rows, lapsed, answers, calls, call, local, tx>>

(* The victim's hook_disposed{forceClaimedBy}, ...                         *)
DisposeVictim(p) ==
  /\ pc[p] = "dispose" /\ Runnable(p)
  /\ Insert(p, target[p], Entry("hook_disposed", run[p], "null"))
  /\ Goto(p, "take_delete")
  /\ UNCHANGED <<db, answers, calls, call, local, runLock, hookLock, del, add>>

(* The victim's row deleted in a statement of its own.                     *)
TakeDeleteApart(p) ==
  /\ pc[p] = "take_delete"
  /\ rows' = rows \ {target[p]}
  /\ Goto(p, "take")
  /\ UNCHANGED <<ended, lapsed, journal, answers, calls, call, local, tx>>

(* ... its row's DELETE, ...                                               *)
TakeDelete(p) ==
  /\ pc[p] = "take_delete"
  /\ del' = [del EXCEPT ![p] = {target[p]}]
  /\ Goto(p, "take")
  /\ UNCHANGED <<db, answers, calls, call, local, runLock, hookLock, add, pend>>

(* ... our row.  The claim violation that the code retries on does not     *)
(* happen here (TakeoverKeepsItsClaim): it takes a row that does not claim *)
(* its token, left by an older World.                                      *)
Take(p) ==
  /\ pc[p] = "take" /\ Runnable(p)
  /\ add' = [add EXCEPT ![p] = TRUE]
  /\ Goto(p, "journal")
  /\ UNCHANGED <<db, answers, calls, call, local, runLock, hookLock, del, pend>>

-----------------------------------------------------------------------------
(* The event of the transaction: hook_created once per hook (the entity-   *)
(* creation index), hook_received or the run's own hook_disposed.          *)
Journal(p) ==
  /\ pc[p] = "journal" /\ Runnable(p)
  /\ \/ op[p] = "hook_created" /\ Has(run[p], "hook_created") /\ Refuse(p)
     \/ /\ op[p] = "hook_created" => ~Has(run[p], "hook_created")
        /\ Insert(p, run[p], Entry(op[p],
             IF op[p] = "hook_created" /\ runLock[p] # {} THEN target[p] ELSE NoRun,
             "null"))
        /\ Goto(p, "commit")
        /\ UNCHANGED <<db, answers, calls, call, local, runLock, hookLock, del, add>>

Commit(p) ==
  /\ pc[p] = "commit"
  /\ rows' = (rows \ del[p]) \cup (IF add[p] THEN {run[p]} ELSE {})
  /\ journal' = [r \in Runs |-> IF r \in DOMAIN pend[p]
                                THEN Append(journal[r], pend[p][r]) ELSE journal[r]]
  /\ EndTransaction(p) /\ Return(p)
  /\ UNCHANGED <<ended, lapsed, answers, calls>>

Answer(p, kind, to) ==
  /\ answers' = answers \cup {[hook |-> run[p], kind |-> kind, to |-> to]}
  /\ Return(p) /\ EndTransaction(p)
  /\ UNCHANGED <<db, calls>>

(* The unlocked existence read of a delivery or a disposal.                *)
Exists(p) ==
  /\ pc[p] = "exists"
  /\ \/ /\ run[p] \in rows /\ op[p] = "hook_received"
        /\ target' = [target EXCEPT ![p] = run[p]]
        /\ Goto(p, "lock_run")
        /\ UNCHANGED <<db, answers, calls, call, snap, clock, tries, reason, tx>>
     \/ run[p] \in rows /\ op[p] = "hook_disposed" /\ Continue(p, "delete")
     \/ run[p] \notin rows /\ op[p] = "hook_received" /\ Continue(p, "refusal")
     \/ run[p] \notin rows /\ op[p] = "hook_disposed" /\ Refuse(p)

ForcedDisposals(r) ==
  {i \in DOMAIN journal[r] : journal[r][i].type = "hook_disposed"
                             /\ journal[r][i].other # NoRun}

(* forceClaimRefusal: the disposal of this hook, then the token's owner.   *)
Refusal(p) ==
  /\ pc[p] = "refusal"
  /\ \/ ForcedDisposals(run[p]) = {} /\ Answer(p, "not_found", NoRun)
     \/ ForcedDisposals(run[p]) # {} /\ Continue(p, "successor")

(* No fallback when nobody holds the token any more.                       *)
SuccessorOwnerOnly(p) ==
  /\ pc[p] = "successor"
  /\ \/ \E owner \in rows : Answer(p, "redirect", owner)
     \/ rows = {} /\ Answer(p, "redirect", NoRun)

(* The owner of the token, else the claimer that the disposal names.       *)
Successor(p) ==
  /\ pc[p] = "successor"
  /\ \/ \E owner \in rows : Answer(p, "redirect", owner)
     \/ /\ rows = {}
        /\ \E i \in ForcedDisposals(run[p]) :
             Answer(p, "redirect", journal[run[p]][i].other)

(* A disposal whose DELETE commits before its event.                       *)
DeleteHookApart(p) ==
  /\ pc[p] = "delete" /\ Runnable(p)
  /\ \/ run[p] \notin rows /\ Refuse(p)
     \/ /\ run[p] \in rows /\ rows' = rows \ {run[p]}
        /\ Goto(p, "journal")
        /\ UNCHANGED <<ended, lapsed, journal, answers, calls, call, local, tx>>

(* hook_disposed: DELETE ... RETURNING.                                    *)
DeleteHook(p) ==
  /\ pc[p] = "delete" /\ Runnable(p)
  /\ \/ run[p] \notin rows /\ Refuse(p)
     \/ /\ run[p] \in rows
        /\ hookLock' = [hookLock EXCEPT ![p] = {run[p]}]
        /\ del' = [del EXCEPT ![p] = {run[p]}]
        /\ Goto(p, "journal")
        /\ UNCHANGED <<db, answers, calls, call, local, runLock, add, pend>>

(* run_completed, run_failed, run_cancelled: the conditional UPDATE (the   *)
(* run ended since it was read: a conflict), the DELETE of the run's hooks *)
(* whose retention has passed, the event.                                  *)
EndRun(p) ==
  /\ pc[p] = "end" /\ Runnable(p)
  /\ \/ run[p] \in ended /\ Refuse(p)
     \/ /\ run[p] \notin ended /\ ended' = ended \cup {run[p]}
        /\ Goto(p, "cleanup")
        /\ UNCHANGED <<rows, lapsed, journal, answers, calls, call, local, tx>>

Cleanup(p) ==
  /\ pc[p] = "cleanup" /\ Runnable(p)
  /\ rows' = IF Retained(run[p]) THEN rows ELSE rows \ {run[p]}
  /\ Goto(p, "log_end")
  /\ UNCHANGED <<ended, lapsed, journal, answers, calls, call, local, tx>>

LogEnd(p) ==
  /\ pc[p] = "log_end" /\ Runnable(p)
  /\ Autocommit(run[p], Entry("run_ended", NoRun, "null"))
  /\ Return(p)
  /\ UNCHANGED <<ended, rows, lapsed, answers, calls, tx>>

(* Time passes a retention; a process dies and its transaction with it.    *)
Lapse(r) ==
  /\ r \in Retaining \ lapsed /\ lapsed' = lapsed \cup {r}
  /\ UNCHANGED <<ended, rows, journal, answers, calls, pc, call, local, tx>>

Crash(p) == pc[p] # "idle" /\ Refuse(p)

Statement(p) ==
  \/ Validate(p) \/ ReadOwner(p) \/ Scan(p) \/ Sweep(p) \/ Claim(p) \/ LostClaim(p)
  \/ JournalConflict(p) \/ Candidate(p) \/ LockRun(p) \/ ScanHook(p) \/ LockHook(p)
  \/ Victim(p) \/ DisposeVictim(p) \/ TakeDelete(p) \/ Take(p) \/ Journal(p)
  \/ Commit(p) \/ Exists(p) \/ Refusal(p) \/ Successor(p) \/ DeleteHook(p)
  \/ EndRun(p) \/ Cleanup(p) \/ LogEnd(p)

Next ==
  \/ \E p \in Procs : \/ \E o \in Ops, r \in Runs : Begin(p, o, r)
                      \/ Statement(p)
                      \/ Crash(p)
  \/ \E r \in Runs : Lapse(r)

Spec == Init /\ [][Next]_vars

(* As in RunLog: lock queues are fair and a live process goes on.          *)
FairSpec == Spec /\ \A p \in Procs : SF_vars(Statement(p))

-----------------------------------------------------------------------------
Labels == {"idle", "validate", "read", "scan", "sweep", "claim", "lost",
           "conflict", "candidate", "lock_run", "scan_hook", "lock_hook",
           "victim", "dispose", "take_delete", "take", "journal", "commit",
           "exists", "refusal", "successor", "delete", "end", "cleanup", "log_end"}

(* The rows and the call state stay within their types: a redirect names a *)
(* run, whoever holds the token by then (forceClaimRefusal).               *)
TypeOK ==
  /\ ended \subseteq Runs /\ rows \subseteq Runs /\ lapsed \subseteq Retaining
  /\ journal \in [Runs -> Seq(Entries)] /\ calls \in Nat
  /\ answers \subseteq [hook : Runs, kind : {"not_found"}, to : {NoRun}]
                      \cup [hook : Runs, kind : {"redirect"}, to : Runs]
  /\ pc \in [Procs -> Labels] /\ op \in [Procs -> Ops \cup {"none"}]
  /\ run \in [Procs -> Runs \cup {NoRun}] /\ target \in [Procs -> Runs \cup {NoRun}]
  /\ snap \in [Procs -> SUBSET Runs]
  /\ clock \in [Procs -> SUBSET Retaining] /\ tries \in [Procs -> Nat]
  /\ reason \in [Procs -> (Runs \cup {NoRun}) \X {"null", "victim-spec-version"}]
  /\ runLock \in [Procs -> SUBSET Runs] /\ hookLock \in [Procs -> SUBSET Runs]
  /\ del \in [Procs -> SUBSET Runs] /\ add \in [Procs -> BOOLEAN]
  /\ \A p \in Procs : /\ DOMAIN pend[p] \subseteq Runs
                      /\ pend[p] \in [DOMAIN pend[p] -> Entries]

(* One row at most holds the token, whoever creates, takes over, disposes, *)
(* ends or dies (workflow_hooks_token_claim_unique and the row locks).     *)
OneHolder == \A r, t \in rows : r = t

(* Row and journal agree: the hook of a running run has its row exactly    *)
(* while its hook_created is journaled and its hook_disposed is not.       *)
RowMatchesJournal ==
  \A r \in Runs \ ended :
    r \in rows <=> Has(r, "hook_created") /\ ~Has(r, "hook_disposed")

(* In every journal a hook is created before it is delivered to or         *)
(* disposed, and no delivery is journaled behind the disposal: "an order   *)
(* no replay can consume" (hook_received, hook_disposed, takeoverAttempt). *)
Precedes(r, a, b) ==
  \A i, j \in DOMAIN journal[r] :
    journal[r][i].type = a /\ journal[r][j].type = b => i < j

JournalConsumable ==
  \A r \in Runs :
    /\ Precedes(r, "hook_created", "hook_received")
    /\ Precedes(r, "hook_created", "hook_disposed")
    /\ Precedes(r, "hook_received", "hook_disposed")

(* A finished run hears nothing more of its hook from others: neither a    *)
(* delivery nor a forced disposal is journaled behind its terminal event   *)
(* (the run row's lock in hook_received and takeoverAttempt).              *)
NothingAfterEnd ==
  \A r \in Runs : \A i, j \in DOMAIN journal[r] :
    /\ journal[r][i].type = "run_ended"
    /\ \/ journal[r][j].type = "hook_received"
       \/ journal[r][j].type = "hook_disposed" /\ journal[r][j].other # NoRun
    => j < i

(* Both sides of a takeover are journaled, or neither: v's disposal names  *)
(* the claimer whose hook_created names v, and a hook_created that names v *)
(* is named by v's disposal, unless v had ended and only kept its token    *)
(* ("it has no reader to strand").                                         *)
Disposed(v, c) == \E i \in ForcedDisposals(v) : journal[v][i].other = c

ClaimedFrom(c, v) ==
  \E j \in DOMAIN journal[c] :
    journal[c][j].type = "hook_created" /\ journal[c][j].other = v

TakeoverIsMutual ==
  \A v, c \in Runs :
    /\ Disposed(v, c) => ClaimedFrom(c, v)
    /\ ClaimedFrom(c, v) => Disposed(v, c) \/ v \in ended \cap Retaining

(* A delivery to a hook that was taken over is redirected, never dropped:  *)
(* a hook that was answered not found is not taken over, then or later,    *)
(* and a redirect leads to a run that has created its hook.  The row's     *)
(* deletion, the disposal and the claimer's hook_created commit together.  *)
RedirectedNotDropped ==
  \A a \in answers :
    /\ a.kind = "not_found" => ForcedDisposals(a.hook) = {}
    /\ a.kind = "redirect" => Has(a.to, "hook_created")

(* The calls never wait for each other in a circle: run row, then hook     *)
(* row, then log ("queues behind it instead of deadlocking with it").      *)
(* This is about one token and calls outside the in-band fence.            *)
NoWaitCycle ==
  \A S \in SUBSET Procs : S # {} => \E p \in S : WaitsFor(p) \cap S = {}

(* A takeover's own insert finds the token free.                           *)
TakeoverKeepsItsClaim ==
  \A p \in Procs : pc[p] = "take" /\ Runnable(p) => rows \ del[p] = {}

(* A plain conflict is the answer to an unforced creation; a forced one    *)
(* that ends in a conflict was declined for a reason.                      *)
ForcedConflictHasReason ==
  \A r \in Forced : \A i \in DOMAIN journal[r] :
    journal[r][i].type = "hook_conflict" => journal[r][i].why # "null"

(* Every call returns, the takeover's restarts included.                   *)
HookCallsReturn == \A p \in Procs : pc[p] # "idle" ~> pc[p] = "idle"

=============================================================================
