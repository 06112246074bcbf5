-------------------------- MODULE RunLogProofs ------------------------------
(***************************************************************************)
(* The theorems about RunLog, for any sets of orchestrators and clients,   *)
(* any log length and any retry bound.                                     *)
(***************************************************************************)
EXTENDS RunLogAppendProofs, Sequences

USE ZenonT(30)

(* Every step preserves the inductive invariant.                           *)
LEMMA NextIInv == IInv /\ [Next]_vars => IInv'
<1> SUFFICES ASSUME IInv, [Next]_vars PROVE IInv'
  OBVIOUS
<1>1. CASE UNCHANGED vars
  <2> USE <1>1 DEF vars, rows, call, tx, IInv
  <2>1. TypeOK'
    BY DEF TypeOK
  <2>2. Dense' /\ CleanUntilWrite' /\ SlotBound' /\ RunKnown'
    BY DEF Dense, Top, CleanUntilWrite, Clean, SlotBound, HasPending, RunKnown
  <2>3. Exclusion' /\ RowsAgree' /\ KnownBound' /\ FirstIsCreated'
    BY DEF Exclusion, RunHeldBy, SlotsHeldBy, HasPending, RowsAgree, Top, KnownBound,
           FirstIsCreated
  <2>4. PendingShape' /\ FenceHeld'
    BY SMTT(30) DEF PendingShape, HasPending, Creating, Top, EventOf, FenceHeld
  <2>5. CountMatchesLog' /\ NoBlindWrite' /\ SnapshotNeverAhead' /\ StepCreatedOnce'
    BY DEF CountMatchesLog, NoBlindWrite, SnapshotNeverAhead, StepCreatedOnce
  <2> QED BY <2>1, <2>2, <2>3, <2>4, <2>5
<1>2. ASSUME NEW w \in Writers, NEW o \in EventTypes, Begin(w, o) PROVE IInv'
  BY <1>2, BeginIInv
<1>3. ASSUME NEW w \in Writers, Statement(w) PROVE IInv'
  BY <1>3, FenceIInv, ValidateIInv, CreateRunIInv, CommitCreatedIInv, UpdateEntityIInv,
     RecheckIInv, PickSlotIInv, InsertEventIInv, AdvanceFenceIInv, CommitFencedIInv, ListIInv
     DEF Statement
<1>4. ASSUME NEW w \in Writers, ListSnapshot(w) PROVE IInv'
  BY <1>4, ListIInv
<1>5. ASSUME NEW w \in Writers, DeadlockAbort(w) \/ Crash(w) PROVE IInv'
  BY <1>5, RollbackIInv DEF DeadlockAbort, Crash, Abandon
<1> QED BY <1>1, <1>2, <1>3, <1>4, <1>5 DEF Next

(* The inductive invariant holds in every reachable state.                 *)
THEOREM Invariance == Spec => []IInv
BY InitIInv, NextIInv, PTL DEF Spec

(* Type correctness of the rows, the calls and the transactions.           *)
THEOREM TypeCorrect == Spec => []TypeOK
<1>1. IInv => TypeOK
  BY DEF IInv
<1> QED BY <1>1, Invariance, PTL

(* nextSlotId and insertRunWithCreatedEvent: whatever collides, rolls back *)
(* or dies, the committed slots are 1..n, run_created is in slot 1 and in  *)
(* no other, and it is visible exactly when the run is.                    *)
THEOREM LogIsDense == Spec => [](NoHoles /\ RunCreatedFirst)
<1>1. IInv => NoHoles
  BY DEF IInv, Dense, NoHoles, Top
<1>2. ASSUME IInv PROVE RunCreatedFirst
  <2>1. Top \in Nat /\ DOMAIN log = 1..Top /\ log \in [DOMAIN log -> Events]
    BY <1>2 DEF IInv, Dense, TypeOK
  <2>2. Top = 0 <=> log = NoEvents
    BY SMTT(30), <2>1 DEF NoEvents
  <2>3. status = "absent" <=> log = NoEvents
    BY <1>2, <2>2 DEF IInv, RowsAgree
  <2> QED BY <1>2, <2>3 DEF IInv, FirstIsCreated, RunCreatedFirst
<1> QED BY <1>1, <1>2, Invariance, PTL

(* The in-band fence: the count is the number of in-band positions of the  *)
(* log, an orchestrator's count never includes an event it has not loaded, *)
(* and no orchestrator appends behind an in-band event it has not seen.    *)
THEOREM FenceIsSound == Spec => [](CountMatchesLog /\ SnapshotNeverAhead /\ NoBlindWrite)
<1>1. IInv => CountMatchesLog /\ SnapshotNeverAhead /\ NoBlindWrite
  BY DEF IInv
<1> QED BY <1>1, Invariance, PTL

(* The entity-creation index: concurrent creators journal a step once.     *)
THEOREM StepsOnce == Spec => []StepCreatedOnce
<1>1. IInv => StepCreatedOnce
  BY DEF IInv
<1> QED BY <1>1, Invariance, PTL

-----------------------------------------------------------------------------
(* The only ways a step changes the log or the count: the run's creation,  *)
(* an out-of-band event, an in-band event with the count it expected.      *)
LogOpens ==
  /\ log = NoEvents /\ seq' \in {1, 2}
  /\ DOMAIN log' = 1..seq' /\ log' \in [DOMAIN log' -> Events]
  /\ log'[1] = RunCreatedEvent
  /\ seq' = 2 => log'[2].type = "run_started" /\ log'[2].seen = 1

LogExtends ==
  \E e \in Events :
    /\ Top # 0 /\ Extended(e) /\ e.type # "run_created"
    /\ \/ e.seen = 0 /\ seq' = seq
       \/ /\ e.seen = seq /\ seq' = seq + 1
          /\ \A s \in DOMAIN log : log[s].seen # 0 => s \in e.view

(* What one step does to the log and the count: nothing, open, or append.  *)
LEMMA NextLog ==
  ASSUME IInv, [Next]_vars
  PROVE  UNCHANGED <<log, seq>> \/ LogOpens \/ LogExtends
<1>1. CASE UNCHANGED vars
  BY <1>1 DEF vars, rows
<1>2. ASSUME NEW w \in Writers, Rollback(w) PROVE UNCHANGED <<log, seq>>
  BY <1>2 DEF Rollback, rows
<1>3. ASSUME NEW w \in Writers, NEW o \in EventTypes, Begin(w, o) PROVE UNCHANGED <<log, seq>>
  BY <1>3 DEF Begin, rows
<1>4. ASSUME NEW w \in Writers,
             \/ Fence(w) \/ Validate(w) \/ CreateRun(w) \/ UpdateEntity(w) \/ Recheck(w)
             \/ PickSlot(w) \/ AdvanceFence(w) \/ ListPage(w) \/ ListSnapshot(w)
      PROVE  UNCHANGED <<log, seq>>
  BY <1>2, <1>4 DEF Fence, Validate, CreateRun, UpdateEntity, InsertStep, UpdateRun, Recheck, PickSlot, AdvanceFence,
                    ListPage, ListSnapshot, Continue, Refuse, Abandon, rows
<1>5. ASSUME NEW w \in Writers, InsertEvent(w) PROVE UNCHANGED <<log, seq>> \/ LogExtends
  <2>1. CASE UNCHANGED rows \/ Refuse(w) \/ Abandon(w)
    BY <1>2, <2>1 DEF Refuse, Abandon, rows
  <2>2. CASE /\ slot[w] \notin DOMAIN log /\ ~Duplicate(w) /\ ~Fenced(w)
             /\ log' = Put(log, slot[w], EventOf(w)) /\ UNCHANGED seq
    <3>1. pc[w] = "insert" /\ Runnable(w) /\ EventOf(w).type = op[w]
      BY <1>5 DEF InsertEvent, EventOf
    <3> QED BY <2>2, <3>1, InsertUnfenced DEF LogExtends
  <2> QED BY <1>5, <2>1, <2>2 DEF InsertEvent
<1>6. ASSUME NEW w \in Writers, CommitCreated(w) PROVE LogOpens
  <2>1. /\ Creating(w) /\ DOMAIN ins[w] = 1..1 /\ newSeq[w] = 1 /\ CommitRows(w)
    BY SMTT(30), <1>6 DEF CommitCreated, IInv, PendingShape
  <2>2. log' = ins[w] /\ seq' = 1
    BY SMTT(30), <2>1, CommitCreating
  <2>3. log = NoEvents /\ ins[w] \in [DOMAIN ins[w] -> Events] /\ ins[w][1] = RunCreatedEvent
    BY SMTT(30), <2>1 DEF Creating, NoEvents, IInv, TypeOK, Dense
  <2> QED BY SMTT(30), <2>1, <2>2, <2>3 DEF LogOpens
<1>7. ASSUME NEW w \in Writers, CommitFenced(w) PROVE LogOpens \/ LogExtends
  <2>1. pc[w] = "commit" /\ CommitRows(w) /\ EventOf(w).type = op[w]
    BY <1>7 DEF CommitFenced, EventOf
  <2>2. CASE Creating(w)
    <3>1. /\ DOMAIN ins[w] = 1..2 /\ newSeq[w] = 2 /\ known[w] = 1 /\ Fenced(w)
          /\ ins[w][2] = EventOf(w) /\ op[w] = "run_started"
      BY SMTT(30), <2>1, <2>2 DEF IInv, PendingShape, FenceHeld, Creating
    <3>2. ins[w][2].seen = 1 /\ ins[w][2].type = "run_started"
      BY SMTT(30), <3>1 DEF EventOf
    <3>3. log' = ins[w] /\ seq' = 2
      BY <2>1, <2>2, <3>1, <3>2, CommitCreating
    <3>4. log = NoEvents /\ ins[w] \in [DOMAIN ins[w] -> Events] /\ ins[w][1] = RunCreatedEvent
      BY SMTT(30), <2>2 DEF Creating, NoEvents, IInv, TypeOK, Dense
    <3> QED BY <3>1, <3>2, <3>3, <3>4 DEF LogOpens
  <2>3. CASE ~Creating(w)
    <3>1. EventOf(w).view = view[w]
      BY <2>1, <2>3, CommitExtends DEF EventOf, Fenced
    <3> QED BY <2>1, <2>3, <3>1, CommitExtends DEF LogExtends
  <2> QED BY <2>2, <2>3
<1>8. ASSUME NEW w \in Writers, DeadlockAbort(w) \/ Crash(w) PROVE UNCHANGED <<log, seq>>
  BY <1>2, <1>8 DEF DeadlockAbort, Crash, Abandon
<1> QED BY <1>1, <1>3, <1>4, <1>5, <1>6, <1>7, <1>8 DEF Next, Statement

(* No event of the log is ever rewritten or removed.                       *)
THEOREM LogIsAppendOnly == Spec => AppendOnly
<1>1. ASSUME IInv, [Next]_vars
      PROVE  [\A s \in DOMAIN log : s \in DOMAIN log' /\ log'[s] = log[s]]_vars
  <2>1. CASE UNCHANGED <<log, seq>> \/ LogOpens
    BY <2>1 DEF LogOpens, NoEvents
  <2>2. CASE LogExtends
    BY SMTT(30), <1>1, <2>2 DEF LogExtends, Extended, IInv, Dense
  <2> QED BY <1>1, <2>1, <2>2, NextLog
<1> QED BY <1>1, Invariance, PTL DEF Spec, AppendOnly

(* A log whose slots are 1..n is a sequence of n events.                   *)
LEMMA LogIsSequence ==
  ASSUME NEW f, NEW n \in Nat, DOMAIN f = 1..n, f \in [DOMAIN f -> Events]
  PROVE  f \in Seq(Events) /\ Len(f) = n /\ (n = 0 <=> f = <<>>)
<1>1. f \in Seq(Events)
  BY SMTT(30)
<1>2. Len(f) = n
  BY SMTT(30), <1>1
<1> QED BY SMTT(30), <1>1, <1>2

(* storage.ts implements the append-only sequence with compare-and-append: *)
(* the fence and the slot numbers give every orchestrator what AppendLog   *)
(* promises.                                                               *)
THEOREM RefinesAppendLog == Spec => ImplementsAppendLog
<1>1. Init => Abstract!Init
  BY SMTT(30) DEF Init, Abstract!Init, NoEvents
<1>2. ASSUME IInv, [Next]_vars PROVE [Abstract!Next]_<<log, seq>>
  <2>1. Top \in Nat /\ DOMAIN log = 1..Top /\ log \in [DOMAIN log -> Events]
    BY <1>2 DEF IInv, Dense, TypeOK
  <2>2. log \in Seq(Events) /\ Len(log) = Top /\ (Top = 0 <=> log = <<>>)
    BY <2>1, LogIsSequence
  <2>3. CASE LogOpens
    <3>1. Len(log') = seq' /\ log = <<>>
      BY SMTT(30), <2>3, LogIsSequence DEF LogOpens, NoEvents
    <3> QED BY SMTT(30), <2>3, <3>1 DEF LogOpens, Abstract!Next, Abstract!Open, RunCreatedEvent
  <2>4. CASE LogExtends
    <3>1. PICK e \in Events :
            /\ Top # 0 /\ Extended(e) /\ e.type # "run_created"
            /\ \/ e.seen = 0 /\ seq' = seq
               \/ /\ e.seen = seq /\ seq' = seq + 1
                  /\ \A s \in DOMAIN log : log[s].seen # 0 => s \in e.view
      BY <2>4 DEF LogExtends
    <3>2. Top + 1 \in Nat /\ DOMAIN log' = 1..(Top + 1) /\ log' \in [DOMAIN log' -> Events]
      BY SMTT(30), <2>1, <3>1 DEF Extended
    <3>3. log' \in Seq(Events) /\ Len(log') = Len(log) + 1
      BY <2>2, <3>2, LogIsSequence
    <3>4. log'[Len(log) + 1] = e
      BY <2>2, <3>1 DEF Extended
    <3>5. log' = Append(log, e)
      BY SMTT(30), <2>1, <2>2, <3>1, <3>3, <3>4 DEF Extended
    <3>6. log # <<>> /\ Abstract!Appends
      BY <2>2, <3>1, <3>3, <3>4, <3>5 DEF Abstract!Appends, Abstract!New
    <3>7. CASE e.seen = 0 /\ seq' = seq
      BY <3>4, <3>6, <3>7 DEF Abstract!Next, Abstract!OutOfBand, Abstract!New
    <3>8. CASE /\ e.seen = seq /\ seq' = seq + 1
               /\ \A s \in DOMAIN log : log[s].seen # 0 => s \in e.view
      <4>1. Abstract!SeesInBand(e)
        BY <2>1, <2>2, <3>8 DEF Abstract!SeesInBand
      <4> QED BY <3>4, <3>6, <3>8, <4>1 DEF Abstract!Next, Abstract!InBand, Abstract!New
    <3> QED BY <3>1, <3>7, <3>8
  <2> QED BY <1>2, <2>3, <2>4, NextLog
<1> QED BY <1>1, <1>2, Invariance, PTL DEF Spec, ImplementsAppendLog, Abstract!Spec
=============================================================================
