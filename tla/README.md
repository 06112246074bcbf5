# workflow-world: TLA+ specifications and proofs

The repository is a PostgreSQL-backed *World* for the Workflow SDK: an
event-sourced store of runs, steps, hooks and waits shared by many tenants, a
queue on graphile-worker, and a resident dispatcher that delivers queued
messages to deployments. This directory holds formal models of it, the TLC
configurations that check them on small instances and TLAPS proofs of the
results that hold for every instance.

## The system

| Part | Code | State it owns | Model |
|---|---|---|---|
| Event log of a run, in-band fence | `src/storage.ts` | `workflow_runs`, `workflow_event_slots`, `workflow_events` | `RunLog`, `AppendLog` |
| Run creation, resilient start | `src/storage.ts` | the same rows | `RunLog` (without start hooks) |
| Steps | `src/storage.ts` | `workflow_steps` | `RunLog` has creation; `StepLifecycle` planned |
| Hooks and start hooks | `src/storage.ts`, `src/start-hook.ts` | `workflow_hooks`, decisions | `HookTokens` (without start hooks) |
| Waits, attributes | `src/storage.ts` | `workflow_waits`, run attributes | planned |
| Queue and dispatch contract | `src/queue.ts`, `src/dispatch-contract.ts`, `src/timers.ts`, `src/message.ts` | graphile jobs | `Dispatch` planned |
| Dispatcher | `src/dispatcher/dispatcher.ts`, `runner.ts` | dedup, failure streaks, dead letters | `Dispatch` planned |
| Activation leases | `src/dispatcher/lease.ts` and clients | lease, renewal timer | `Lease` planned |
| Ownership and service lifecycle | `src/dispatcher/ownership.ts`, `service.ts` | advisory lock | `Ownership` planned |
| Boot recovery, reconciliation | `src/dispatcher/boot-recovery.ts`, `src/reconciliation.ts` | jobs, dead letters | with `Dispatch` |
| Streams | `src/streamer.ts`, `src/stream-*.ts` | stream chunks and blocks | `Streams` planned |
| Retention | `src/retention.ts` and helpers | deadlines of runs | `Retention` planned |
| Migrations, tenants, configuration | `src/migrate.ts`, `src/tenant.ts`, `src/config.ts` | schema | not modelled: DDL and parsing, no protocol |

An orchestrator (a delivery that replays a run) reads the run's events with
`events.list`, computes, and appends with `events.create`. Clients, hook
deliveries and step deliveries append to the same log at the same time. The log
is where all the parts meet, so it is modelled first.

## RunLog: the event log of one run

`RunLog.tla` models `events.create` and `events.list` for one run and one step,
one SQL statement per action, under READ COMMITTED.

State: the rows (`status`, `seq` = `seq_in_band`, `steps`, `log`: slot to
event), and for each writer its program counter, its call (`op`, `slot`,
`tries`), its open transaction (`ins`, `newStatus`, `newSeq`, `newStep`,
`locked`) and, for an orchestrator, what the runtime holds: `known` (the
`expectedSeqInBand` it will send) and `view` (the slots it has loaded). An
event carries its type and, if in-band, the count its writer sent and the
events that writer had loaded: both are ghosts the properties need.

| Action | Code |
|---|---|
| `Begin`, `Fence` | the fenced `create` wrapper: unfenced calls pass, fenced ones open a transaction and lock the slots row |
| `Validate` | the unlocked read of the run and the refusals made on it |
| `CreateRun`, `CommitCreated` | `insertRunWithCreatedEvent`, from `run_created` or from a resilient `run_started` |
| `UpdateEntity` (`InsertStep`, `UpdateRun`), `Recheck` | the step's INSERT or the run's UPDATE before the event, and the re-read when the UPDATE matched nothing |
| `PickSlot`, `InsertEvent` | `allocateEventId` / `nextSlotId` and the INSERT that meets the primary key and the entity-creation index, with its bounded retries |
| `AdvanceFence`, `CommitFenced` | `advanceFence` and COMMIT |
| `ListSnapshot`, `ListPage` | `events.list`: count, page, and both again if the run appeared in between |
| `Crash`, `DeadlockAbort` | the process dies between statements; PostgreSQL ends one of a wait cycle |

`WaitsFor` says whom a statement blocks on (row locks, and a unique key held by
an uncommitted insert). The PostgreSQL side and the runtime's handling of
`known` and `view` are external: they are modelled from how the code uses them.

Abstractions: payloads, skipped-slot reports and the `sinceCursor` delta (without
them a writer's `view` is smaller, so what is shown of writers that know less
holds with them), the 100-event page (one page holds the log), pre-slot runs with
ULID ids, spec-version routing and start hooks are left out.
So are the rows a terminal event deletes with its UPDATE: the hooks are in
`HookTokens` (`Cleanup`), the waits are not modelled. Two calls the runtime does
not make are excluded by `Begin` and `OpAssumption`: a `run_started` without the
input a run is created from, and a `step_created` for a run that does not exist
(the code has no guard against it and would write an event with a ULID).
`run_started`'s answer is read at the COMMIT: no in-band
event can commit between that read and the COMMIT, because the slots row is
locked.

`AppendLog.tla` is the abstract specification: an append-only sequence opened by
`run_created`, to which an in-band event is appended only if its writer sent
the current count and has seen every in-band event. `RunLog` implements it with
`entries <- log`, `count <- seq`.

## HookTokens: one token and the runs that contend for it

`HookTokens.tla` models the hook events of `events.create` for one token of a
tenant, one SQL statement per action, under READ COMMITTED. A run has one hook.

State: `ended` (runs with a terminal status), `rows` (the hook rows that hold
the token), `lapsed` (retentions that have passed), `journal` (the hook events
and the terminal event of each run), `answers` (what deliveries to a missing
hook were told), and for each call its program counter, its operation, and its
open transaction: the run and hook rows it has locked, the rows it has deleted,
the row and the events it has inserted.

| Action | Code |
|---|---|
| `Validate` | the unlocked read of the run, of a `hook_created` and of a terminal event |
| `ReadOwner` | the unlocked read of the token's owner and the answers made on it |
| `Scan`, `Sweep`, `Claim` | `insertFreshHook`: the DELETE of rows nobody holds the token with, the INSERT that meets the claim index |
| `LostClaim`, `JournalConflict` | `answerLostClaim`; `hook_conflict` |
| `Candidate`, `LockRun`, `ScanHook`, `LockHook`, `Victim` | `takeoverAttempt` up to its decision, with its restarts |
| `DisposeVictim`, `TakeDelete`, `Take`, `Journal`, `Commit` | its writes, and the event that ends every transaction |
| `Exists`, `Refusal`, `Successor` | a delivery's or disposal's existence read, `forceClaimRefusal` |
| `DeleteHook` | `hook_disposed` |
| `EndRun`, `Cleanup`, `LogEnd` | `run_completed`, `run_failed`, `run_cancelled` |
| `Lapse`, `Crash` | a retention passes; a process dies between statements |

A locking read is two actions, because PostgreSQL finds its rows when the
statement starts and returns those that are left when the lock is granted.
`now()` is the start of the transaction: a takeover keeps the retentions it saw
there in `clock`.

Abstractions: calls are unfenced, so that the statements of a run's end commit
one by one; a fenced call would commit them together. Uncommitted events of one
run exclude each other, as `RunLog` shows. Rows left by older Worlds (a row
without its `hook_created`, a row that does not claim its token) and start hooks
are left out. The retry that the code makes when a takeover's own INSERT
violates the claim index is not an action: `TakeoverKeepsItsClaim` shows that
the INSERT finds the token free, because other claims wait for the transaction
that deletes the victim's row. The retry's comment ("A start Hook admission (or
another creation) that claimed the token between the victim's delete and our
insert") can only concern a victim's row that does not claim its token.
`run_ended` stands for the three terminal events; a `run_cancelled` on a
cancelled run is recorded once more and cleans up nothing.

Scope of `NoWaitCycle`: one token and unfenced calls. On two tokens, forced
creations that take from each other's runs append to the same two logs in
opposite orders and can wait for each other until PostgreSQL aborts one; this is
listed as a hazard. A fenced call runs `takeoverAttempt` as a savepoint, so it
keeps the victim's run lock after the outcomes "free" and "refused", until its
own transaction ends; that is not modelled either.

## Runs

| Run | Instance | What it shows |
|---|---|---|
| `runlog_fence` | 2 orchestrators, 1 client that creates and cancels, logs up to 4 events plus calls in flight, 1 collision retry | density, `run_created` first, count matches the log, no blind write, no count ahead of its page, one `step_created`, completion logged with its status, and the refinement of `AppendLog` |
| `runlog_terminal` | 3 clients that complete, fail, cancel and create the step | the terminal event in the log agrees with the row, log append-only |
| `runlog_live` | as `runlog_fence`, 2 events, with fairness | every call returns |
| `runlog_restart` | 1 orchestrator, 1 client | **violated**: `run_started` overwrites a concurrent cancellation |
| `hooks_takeover` | 3 runs (two forced, one of them stamped with an old version, one retaining), 3 calls at a time and in all, 1 owner change | one holder; row and journal agree; journals a replay can consume; nothing behind a run's end; both sides of a takeover or neither; no wait cycle; a hook answered not found is never one that is taken over |
| `hooks_live` | 3 runs (two forced), 2 calls at a time and 3 in all, 1 owner change, with fairness | every call returns, through the takeover's restart and the 503 that ends a second one |
| `hooks_forced` | 2 forced runs, 2 calls | **violated**: a forced creation journals a conflict without a reason |

Bounds. Two orchestrators are the smallest set that races the fence; the third
writer appends out of band between their statements. Four events leave room for
creation, a start and two racing appends. One collision retry exercises both
the retry and the 503 that ends it. Symmetry permutes writers of one kind and
is used in the safety runs only. `runlog_terminal` does not check deadlock:
callers may stop once the log is full.

The hook runs start with the token free or held by any one run, so three calls
reach a takeover of a takeover, and a delivery or an end racing either. Two
forced runs are the smallest set in which claimers race; the third gives them a
victim. One owner change allowed is enough for both outcomes: a takeover that
finds a new owner restarts, and one that finds a new owner again is answered
with the 503. `hooks_live` leaves retention out, to keep the liveness graph
within reach. No run of the hooks checks deadlock: callers may stop.

`EarlyOps` are the operations a client may send for a run it has not read. A
cancellation sent before the creation commits can miss the row, find it on the
re-read and journal its event on a pending run; `TerminalEventMatchesStatus` is
checked for clients that do not cancel blindly, and the race is listed as a
hazard.

Fairness (`FairSpec`). Strong fairness of each writer's statements: PostgreSQL
grants row locks in queue order and a live process runs its next statement.
Weak fairness of `DeadlockAbort`: the detector always fires. Nothing obliges a
caller to call or a process to die. `HookTokens` needs no detector: there is no
wait cycle (`NoWaitCycle`).

Finding: `runlog_restart` shows a cancelled run set back to `running`. The
validation read is unlocked and the UPDATE of `run_started` has no condition on
the status, while the tests state "should reject run_started on cancelled run".

Finding: `hooks_forced` shows two forced creations on a free token. The one that
loses the claim index does not take the token over: `answerLostClaim` journals
the `hook_conflict` whose reason is `null`, which the comment in
`src/storage.ts` reserves "for the plain conflict of an unforced creation".

## Proofs

`RunLogInv.tla` states the inductive invariant `IInv`. `RunLogCallProofs.tla`
proves that the steps which leave the log alone preserve it,
`RunLogAppendProofs.tla` that those which extend the log do, and
`RunLogProofs.tla` draws the theorems, for any finite or infinite sets of
writers, any operations allowed by `OpAssumption` and any bounds:

- `Invariance`, `TypeCorrect`, `LogIsDense`, `FenceIsSound`, `StepsOnce`: the
  safety invariants of `runlog_fence` except `CompletionIsLogged`;
- `LogIsAppendOnly`: the action property `AppendOnly`;
- `RefinesAppendLog`: initial states map to initial states and every step to a
  step of `AppendLog` or a stutter.

The properties alone are not inductive: that a slot is free when its event
commits depends on what open transactions hold. `IInv` adds what a transaction
may have written at each program counter (`CleanUntilWrite`, `PendingShape`),
that one transaction at a time has uncommitted events and row writes
(`Exclusion`), that whoever holds the slots row holds the count it expects
(`FenceHeld`), and that counts and pages held by orchestrators are not ahead of
the rows (`KnownBound`). There is one lemma per action; `FrameIInv` and
`GrowIInv` carry what an action does not touch.

Only model-checked: `CallsReturn` (liveness under fairness is beyond the
prover), `CompletionIsLogged` (it needs clients that neither complete nor fail
the run), `TerminalEventMatchesStatus` (true of clients that do not cancel
blindly, see above), and `HookTokens`.

Leaves go to Zenon by default; the ones that need arithmetic name SMT.

## Plan

1. `HookTokens`: start-hook admission; an abstract specification of what a token
   promises; proofs of one holder and of the order of every journal.
2. `StepLifecycle`: lazy start, ownership fence, retries and completion, waits;
   a step body has one live owner; step events in a consumable order.
3. `Dispatch`: jobs, reschedules and handoffs with `deliveryAccounting` as pure
   operators, deduplication, failure streaks, dead letters, boot recovery and
   quarantine; no live run without a job, at most one unresolved letter.
4. `Lease` and `Ownership`: renewal against expiry, lock loss during start and
   stop.
5. `Streams` and `Retention`: readers against writers and packing; expiry
   against activity.
