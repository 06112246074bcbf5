----------------------- MODULE RunLogAppendProofs ---------------------------
(***************************************************************************)
(* The inductive invariant of RunLog is preserved by the steps that extend *)
(* the committed log: an unfenced insertEventRow, and the two COMMITs.     *)
(***************************************************************************)
EXTENDS RunLogCallProofs

USE ZenonT(30)

(* A step of w that extends the log, ends its transaction and lets nobody  *)
(* else be in the middle of an append preserves the invariant if it        *)
(* preserves what the invariant says of w and of the log.                  *)
LEMMA GrowIInv ==
  ASSUME IInv, NEW w \in Writers, OthersSame(w), TypeOK', Dense',
         Top' >= Top, Top' # 0, status' # "absent", seq' # 0,
         \A v \in Writers : v # w => ~HasPending(v) /\ (seq' = seq \/ ~SlotsHeldBy(v)),
         Clean(w)', ~locked'[w], pc'[w] \in {"idle", "update"}, RunKnown!(w)',
         KnownBound', SnapshotNeverAhead',
         FirstIsCreated', CountMatchesLog', NoBlindWrite', StepCreatedOnce'
  PROVE  IInv'
<1> USE DEF IInv
<1>1. \A v \in Writers : v # w => pc'[v] = pc[v] /\ op'[v] = op[v] /\ slot'[v] = slot[v]
    /\ ins'[v] = ins[v] /\ newStatus'[v] = newStatus[v] /\ newSeq'[v] = newSeq[v]
    /\ newStep'[v] = newStep[v] /\ locked'[v] = locked[v]
    /\ known'[v] = known[v] /\ view'[v] = view[v]
  BY DEF OthersSame
<1>2. \A v \in Writers : v # w => newSeq[v] = 0 /\ pc[v] \notin {"created", "advance", "commit"}
  BY DEF FenceHeld, PendingShape, Creating, HasPending
<1>3. CleanUntilWrite'
  BY SMTT(30), <1>1 DEF CleanUntilWrite, Clean, Outside
<1>4. \A v \in Writers : ~HasPending(v)'
  BY <1>1 DEF Clean, HasPending, NoEvents
<1>5. PendingShape'
  BY <1>1, <1>2, <1>4 DEF PendingShape
<1>6. SlotBound'
  <2>1. Top \in Nat /\ Top' \in Nat
    BY DEF Dense
  <2> QED BY SMTT(30), <1>1, <1>4, <2>1 DEF SlotBound
<1>7. RunKnown'
  BY SMTT(30), <1>1 DEF RunKnown
<1>8. Exclusion'
  BY SMTT(30), <1>1, <1>4 DEF Exclusion, RunHeldBy, SlotsHeldBy, Clean
<1>9. FenceHeld'
  BY SMTT(30), <1>1, <1>2 DEF FenceHeld, SlotsHeldBy, Clean
<1>10. RowsAgree'
  BY DEF RowsAgree
<1> QED BY <1>3, <1>5, <1>6, <1>7, <1>8, <1>9, <1>10

(* The log grows by the event e.                                           *)
Extended(e) ==
  /\ DOMAIN log' = 1..(Top + 1) /\ log' \in [DOMAIN log' -> Events]
  /\ \A s \in DOMAIN log : log'[s] = log[s]
  /\ log'[Top + 1] = e

(* One more event, out of band or with the count it expects, keeps what    *)
(* the invariant says of the log.                                          *)
LEMMA ExtendLog ==
  ASSUME IInv, Top # 0, NEW e \in Events, Extended(e), e.type # "run_created",
         e.type = "step_created" => \A s \in DOMAIN log : log[s].type # "step_created",
         \/ e.seen = 0 /\ seq' = seq
         \/ /\ e.seen = seq /\ seq' = seq + 1
            /\ \A s \in DOMAIN log : log[s].seen # 0 => s \in e.view
  PROVE  /\ Dense' /\ Top' = Top + 1 /\ FirstIsCreated' /\ CountMatchesLog'
         /\ NoBlindWrite' /\ StepCreatedOnce'
<1>1. Top \in Nat /\ DOMAIN log = 1..Top /\ seq \in Nat /\ seq # 0
  BY DEF IInv, Dense, TypeOK, RowsAgree
<1>2. \A s \in DOMAIN log : log[s].seen \in Nat
  BY DEF IInv, TypeOK, Events
<1>3. DOMAIN log' = 1..(Top + 1) /\ Top' = Top + 1
  <2>1. DOMAIN log' = 1..(Top + 1) /\ Top + 1 \in Nat
    BY SMTT(30), <1>1 DEF Extended
  <2>2. LastSlot(DOMAIN log') = Top + 1
    BY <2>1, LastSlotInterval
  <2> QED BY <2>1, <2>2 DEF Top
<1>4. \A s \in DOMAIN log' : s \in DOMAIN log \/ s = Top + 1
  BY SMTT(30), <1>1, <1>3
<1>5. (\A s \in DOMAIN log : log'[s] = log[s]) /\ log'[Top + 1] = e /\ Top + 1 \in DOMAIN log'
  BY SMTT(30), <1>1, <1>3 DEF Extended
<1>6. Dense'
  BY SMTT(30), <1>1, <1>3 DEF Dense
<1>7. FirstIsCreated'
  BY SMTT(30), <1>1, <1>4, <1>5 DEF IInv, FirstIsCreated
<1>8. StepCreatedOnce'
  BY <1>4, <1>5 DEF IInv, StepCreatedOnce
<1>9. e.seen \in Nat
  BY DEF Events
<1>10. NoBlindWrite'
  <2> SUFFICES ASSUME NEW s \in DOMAIN log', NEW t \in DOMAIN log', s < t,
                      log'[s].seen # 0, log'[t].seen # 0
               PROVE  s \in log'[t].view
    BY DEF NoBlindWrite
  <2>1. s \in DOMAIN log
    BY SMTT(30), <1>1, <1>3
  <2>2. CASE t \in DOMAIN log
    BY <1>5, <2>1, <2>2 DEF IInv, NoBlindWrite
  <2>3. CASE t = Top + 1
    BY <1>5, <2>1, <2>3
  <2> QED BY <1>4, <2>2, <2>3
<1>11. CountMatchesLog'
  <2>1. \A s \in DOMAIN log' : log'[s].seen < seq'
    BY SMTT(30), <1>1, <1>2, <1>4, <1>5, <1>9 DEF IInv, CountMatchesLog
  <2>2. ASSUME NEW n \in 1..(seq' - 1) PROVE \E s \in DOMAIN log' : log'[s].seen = n
    <3>1. CASE n \in 1..(seq - 1)
      <4>1. PICK s \in DOMAIN log : log[s].seen = n
        BY <3>1 DEF IInv, CountMatchesLog
      <4>2. s \in DOMAIN log'
        BY SMTT(30), <1>1, <1>3
      <4> QED BY <1>5, <4>1, <4>2
    <3>2. CASE n \notin 1..(seq - 1)
      BY SMTT(30), <1>1, <1>5, <2>2, <3>2
    <3> QED BY <3>1, <3>2
  <2>3. ASSUME NEW s \in DOMAIN log', NEW t \in DOMAIN log',
               log'[s].seen # 0, log'[s].seen = log'[t].seen
        PROVE  s = t
    <3>1. \A x \in DOMAIN log : log[x].seen \in Nat /\ log[x].seen < seq
      BY <1>2 DEF IInv, CountMatchesLog
    <3>2. CASE s \in DOMAIN log /\ t \in DOMAIN log
      BY <1>5, <2>3, <3>2 DEF IInv, CountMatchesLog
    <3>3. \A x \in DOMAIN log : e.seen = 0 \/ log[x].seen # e.seen
      BY SMTT(30), <1>1, <3>1
    <3> QED BY <1>4, <1>5, <2>3, <3>2, <3>3
  <2> QED BY <2>1, <2>2, <2>3 DEF CountMatchesLog
<1> QED BY <1>3, <1>6, <1>7, <1>8, <1>10, <1>11

(* An unfenced insertEventRow extends the log by one event.                *)
LEMMA InsertUnfenced ==
  ASSUME IInv, NEW w \in Writers, pc[w] = "insert", Runnable(w),
         slot[w] \notin DOMAIN log, ~Duplicate(w), ~Fenced(w),
         log' = Put(log, slot[w], EventOf(w)), UNCHANGED seq
  PROVE  /\ EventOf(w) \in Events /\ EventOf(w).seen = 0
         /\ op[w] # "run_created" /\ Top # 0
         /\ \A v \in Writers : ~HasPending(v)
         /\ Extended(EventOf(w))
         /\ op[w] = "step_created" => \A s \in DOMAIN log : log[s].type # "step_created"
<1>1. ~HasPending(w)
  BY DEF IInv, CleanUntilWrite, Clean, HasPending, NoEvents
<1>2. /\ \A v \in Writers : ~HasPending(v)
      /\ slot[w] = Top + 1 /\ Top # 0
  BY <1>1, FreeSlot
<1>3. op[w] \in EventTypes \ {"run_created"}
  BY DEF IInv, TypeOK, RunKnown
<1>4. EventOf(w) \in Events /\ EventOf(w).seen = 0
  BY <1>3 DEF EventOf, Events
<1>5. Top \in Nat /\ DOMAIN log = 1..Top /\ log \in [DOMAIN log -> Events]
  BY DEF IInv, Dense, TypeOK
<1>6. DOMAIN log \cup {slot[w]} = 1..(Top + 1)
  BY SMTT(30), <1>2, <1>5
<1>7. Extended(EventOf(w))
  <2>1. DOMAIN log' = 1..(Top + 1) /\ \A s \in DOMAIN log' :
          log'[s] = IF s = slot[w] THEN EventOf(w) ELSE log[s]
    BY <1>6 DEF Put
  <2>2. log' = [s \in DOMAIN log' |-> log'[s]]
    BY DEF Put
  <2>3. log' \in [DOMAIN log' -> Events]
    BY SMTT(30), <1>2, <1>4, <1>5, <2>1, <2>2
  <2> QED BY SMTT(30), <1>2, <1>5, <2>1, <2>3 DEF Extended
<1> QED BY <1>2, <1>3, <1>4, <1>7 DEF Duplicate

(* insertEventRow, in every one of its outcomes.                           *)
LEMMA InsertEventIInv ==
  ASSUME IInv, NEW w \in Writers, InsertEvent(w)
  PROVE  IInv'
<1>1. pc[w] = "insert" /\ Runnable(w)
  BY DEF InsertEvent
<1>2. CASE /\ slot[w] \in DOMAIN log
           /\ tries' = [tries EXCEPT ![w] = @ + 1] /\ Goto(w, "pick")
           /\ UNCHANGED <<rows, op, slot, tx, known, view>>
  <2> USE <1>2 DEF IInv, Goto, rows, tx
  <2>1. pc'[w] = "pick"
    BY DEF TypeOK
  <2>2. CleanUntilWrite!(w)'
    BY <1>1, <2>1 DEF CleanUntilWrite, Clean, Outside
  <2>3. PendingShape!(w)' /\ SlotBound!(w)'
    BY <1>1, <2>1 DEF PendingShape, HasPending, Creating, Top
  <2>4. RunKnown!(w)' /\ FenceHeld!(w)'
    BY <1>1, <2>1 DEF RunKnown, FenceHeld, Creating, HasPending, Top
  <2>5. /\ slot' \in [Writers -> Nat] /\ tries' \in [Writers -> Nat]
        /\ op' \in [Writers -> EventTypes \cup {"none"}]
        /\ \A v \in Writers : v # w => op'[v] = op[v] /\ slot'[v] = slot[v]
        /\ pc[w] \notin {"page", "repage"} /\ "pick" \in Labels
        /\ UNCHANGED <<rows, tx, known, view>> /\ Goto(w, "pick")
    BY SMTT(30), <1>1 DEF TypeOK, Labels
  <2> HIDE DEF IInv, Goto, rows, tx
  <2> QED BY <2>2, <2>3, <2>4, <2>5, MoveIInv
<1>3. CASE Abandon(w) \/ Refuse(w)
  BY <1>1, <1>3, RollbackIInv DEF Abandon, Refuse
<1>4. CASE /\ slot[w] \notin DOMAIN log /\ ~Duplicate(w) /\ Fenced(w)
           /\ ins' = [ins EXCEPT ![w] = Put(@, slot[w], EventOf(w))]
           /\ Goto(w, "advance")
           /\ UNCHANGED <<rows, call, newStatus, newSeq, newStep, locked, known, view>>
  BY <1>1, <1>4, InsertFencedIInv
<1>5. CASE /\ slot[w] \notin DOMAIN log /\ ~Duplicate(w) /\ ~Fenced(w)
           /\ log' = Put(log, slot[w], EventOf(w)) /\ Return(w)
           /\ UNCHANGED <<status, seq, steps, tx, known, view>>
  <2> USE <1>5 DEF Return, Goto, tx
  <2> DEFINE e == EventOf(w)
  <2>1. /\ e \in Events /\ e.seen = 0 /\ e.type = op[w] /\ op[w] # "run_created" /\ Top # 0
        /\ \A v \in Writers : ~HasPending(v)
        /\ Extended(e)
        /\ e.type = "step_created" => \A s \in DOMAIN log : log[s].type # "step_created"
    BY <1>1, InsertUnfenced DEF EventOf
  <2> HIDE DEF e
  <2>2. /\ Dense' /\ Top' = Top + 1 /\ FirstIsCreated' /\ CountMatchesLog'
        /\ NoBlindWrite' /\ StepCreatedOnce'
    BY <2>1, ExtendLog
  <2>3. Top \in Nat /\ DOMAIN log = 1..Top /\ DOMAIN log' = 1..(Top + 1)
    BY <2>1 DEF IInv, Dense, Extended
  <2>4. /\ OthersSame(w) /\ pc'[w] = "idle" /\ op'[w] = "none"
        /\ Clean(w)' /\ ~locked'[w]
    <3>1. OthersSame(w) /\ pc'[w] = "idle" /\ op'[w] = "none"
      BY DEF IInv, TypeOK, OthersSame
    <3>2. Clean(w) /\ ~locked[w]
      BY <1>1 DEF IInv, CleanUntilWrite
    <3> QED BY <3>1, <3>2 DEF Clean
  <2>5. TypeOK'
    <3>1. DOMAIN log' \subseteq Nat /\ log' \in [DOMAIN log' -> Events]
      BY SMTT(30), <2>1, <2>3 DEF Extended
    <3> QED BY <3>1 DEF IInv, TypeOK, Labels
  <2>6. RunKnown!(w)'
    BY <2>4 DEF Clean
  <2>7. status' # "absent" /\ seq' # 0
    BY <2>1 DEF IInv, RowsAgree
  <2>8. KnownBound'
    BY SMTT(30), <2>3 DEF IInv, KnownBound
  <2>9. SnapshotNeverAhead'
    <3> SUFFICES ASSUME NEW v \in Orchestrators, pc'[v] \notin {"page", "repage"},
                        NEW s \in DOMAIN log', 0 < log'[s].seen, log'[s].seen < known'[v]
                 PROVE  s \in view'[v]
      BY DEF SnapshotNeverAhead
    <3>1. v # w /\ v \in Writers
      BY DEF Fenced, Writers
    <3>2. s \in DOMAIN log /\ log'[s] = log[s]
      BY SMTT(30), <2>1, <2>3 DEF Extended
    <3> QED BY <2>4, <3>1, <3>2 DEF IInv, SnapshotNeverAhead, OthersSame
  <2>10. Top' >= Top /\ Top' # 0
    BY SMTT(30), <2>2, <2>3
  <2> QED BY <2>1, <2>2, <2>4, <2>5, <2>6, <2>7, <2>8, <2>9, <2>10, GrowIInv
<1> QED BY <1>2, <1>3, <1>4, <1>5 DEF InsertEvent

(* COMMIT of the run's creation: the log is run_created, alone or followed *)
(* by the resilient run_started that expected the count 1.                 *)
LEMMA CommitCreating ==
  ASSUME IInv, NEW w \in Writers, Creating(w), CommitRows(w), NEW n \in {1, 2},
         DOMAIN ins[w] = 1..n, newSeq[w] = n,
         n = 2 => ins[w][2].seen = 1 /\ ins[w][2].type = "run_started"
  PROVE  /\ log' = ins[w] /\ Dense' /\ Top' = n /\ FirstIsCreated' /\ CountMatchesLog'
         /\ NoBlindWrite' /\ StepCreatedOnce' /\ seq' = n /\ status' # "absent"
         /\ \A v \in Writers : v # w => ~HasPending(v) /\ ~SlotsHeldBy(v)
<1> USE DEF CommitRows
<1>1. DOMAIN log = {} /\ ins[w] \in [1..n -> Events]
  BY SMTT(30) DEF IInv, TypeOK, Dense, Creating
<1>2. log' = ins[w]
  <2>1. Merge(log, ins[w]) = [x \in 1..n |-> ins[w][x]]
    BY <1>1 DEF Merge
  <2> QED BY <1>1, <2>1
<1>3. DOMAIN log' = 1..n /\ Top' = n
  <2>1. LastSlot(1..n) = n
    <3>1. n \in Nat
      BY SMTT(30)
    <3> QED BY ONLY <3>1, LastSlotInterval
  <2> QED BY <1>2, <2>1 DEF Top
<1>4. seq' = n /\ status' # "absent"
  BY DEF SeqSeen, StatusSeen, Creating, IInv, RunKnown
<1>5. log'[1].type = "run_created" /\ log'[1].seen = 0
  BY SMTT(30), <1>2 DEF Creating, RunCreatedEvent
<1>6. \A s \in DOMAIN log' : s = 1 \/ (n = 2 /\ s = 2)
  BY SMTT(30), <1>3
<1>7. Dense'
  BY SMTT(30), <1>3 DEF Dense
<1>8. FirstIsCreated' /\ StepCreatedOnce'
  BY <1>2, <1>5, <1>6 DEF FirstIsCreated, StepCreatedOnce
<1>9. CountMatchesLog'
  BY SMTT(30), <1>2, <1>3, <1>4, <1>5, <1>6 DEF CountMatchesLog
<1>10. NoBlindWrite'
  BY SMTT(30), <1>2, <1>3, <1>5, <1>6 DEF NoBlindWrite
<1>11. \A v \in Writers : v # w => ~HasPending(v) /\ ~SlotsHeldBy(v)
  BY DEF IInv, Exclusion, HasPending, SlotsHeldBy, Creating
<1> QED BY <1>2, <1>3, <1>4, <1>7, <1>8, <1>9, <1>10, <1>11

(* COMMIT of a client's creation makes slot 1 visible with the run.        *)
LEMMA CommitCreatedIInv ==
  ASSUME IInv, NEW w \in Writers, CommitCreated(w)
  PROVE  IInv'
<1> USE DEF CommitCreated
<1>1. /\ Creating(w) /\ DOMAIN ins[w] = 1..1 /\ newSeq[w] = 1 /\ CommitRows(w)
      /\ pc[w] = "created" /\ op[w] \in {"run_created", "run_started"}
  BY SMTT(30) DEF IInv, PendingShape
<1>2. /\ log' = ins[w] /\ Dense' /\ Top' = 1 /\ FirstIsCreated' /\ CountMatchesLog'
      /\ NoBlindWrite' /\ StepCreatedOnce' /\ seq' = 1 /\ status' # "absent"
      /\ \A v \in Writers : v # w => ~HasPending(v) /\ ~SlotsHeldBy(v)
  BY SMTT(30), <1>1, CommitCreating
<1> USE DEF CommitRows, EndTransaction, Return, Goto, call
<1>3. /\ OthersSame(w) /\ Clean(w)' /\ ~locked'[w]
      /\ \/ pc'[w] = "idle" /\ op'[w] = "none"
         \/ pc'[w] = "update" /\ op'[w] = "run_started"
  <2>1. OthersSame(w)
    BY DEF IInv, TypeOK, OthersSame
  <2>2. Clean(w)' /\ ~locked'[w]
    BY DEF IInv, TypeOK, Clean
  <2> QED BY <1>1, <2>1, <2>2 DEF IInv, TypeOK
<1>4. TypeOK'
  <2>1. DOMAIN log' \subseteq Nat /\ log' \in [DOMAIN log' -> Events] /\ seq' \in Nat
    BY SMTT(30), <1>1, <1>2 DEF IInv, TypeOK
  <2>2. status' \in Statuses
    BY SMTT(30), <1>1 DEF IInv, TypeOK, StatusSeen, Creating
  <2>3. ins' = [v \in Writers |-> ins'[v]]
    BY DEF IInv, TypeOK
  <2>4. \A v \in Writers : DOMAIN ins'[v] \subseteq Nat /\ ins'[v] \in [DOMAIN ins'[v] -> Events]
    BY <1>3 DEF IInv, TypeOK, OthersSame, Clean, NoEvents
  <2>5. /\ newStatus' \in [Writers -> Statuses \cup {"none"}] /\ newSeq' \in [Writers -> Nat]
        /\ newStep' \in [Writers -> BOOLEAN] /\ locked' \in [Writers -> BOOLEAN]
        /\ steps' \in BOOLEAN
    BY DEF IInv, TypeOK
  <2>6. /\ pc' \in [Writers -> Labels] /\ op' \in [Writers -> EventTypes \cup {"none"}]
        /\ slot' \in [Writers -> Nat] /\ tries' \in [Writers -> Nat]
    <3>1. TypeOK /\ (Return(w) \/ (Goto(w, "update") /\ UNCHANGED call))
      BY DEF IInv
    <3>2. CASE Return(w)
      BY ONLY <3>1, <3>2 DEF Return, Goto, TypeOK, Labels
    <3>3. CASE Goto(w, "update") /\ UNCHANGED call
      BY ONLY <3>1, <3>3 DEF Goto, call, TypeOK, Labels
    <3> QED BY <3>1, <3>2, <3>3
  <2> QED BY <2>1, <2>2, <2>3, <2>4, <2>5, <2>6 DEF IInv, TypeOK
<1>5. RunKnown!(w)'
  BY <1>2, <1>3 DEF Clean
<1>6. KnownBound'
  <2>1. DOMAIN log = {} /\ seq = 0
    BY SMTT(30), <1>1 DEF IInv, Creating, Dense, RowsAgree
  <2> QED BY SMTT(30), <1>2, <2>1 DEF IInv, KnownBound, TypeOK, Writers
<1>7. SnapshotNeverAhead'
  <2>1. \A s \in DOMAIN log' : log'[s].seen = 0
    BY SMTT(30), <1>1, <1>2 DEF Creating, RunCreatedEvent
  <2> QED BY SMTT(30), <2>1 DEF SnapshotNeverAhead
<1>8. Top' >= Top /\ Top' # 0 /\ seq' # 0
  BY SMTT(30), <1>1, <1>2 DEF Creating
<1> QED BY <1>2, <1>3, <1>4, <1>5, <1>6, <1>7, <1>8, GrowIInv

(* COMMIT of a fenced call: its event extends the log of an existing run.  *)
LEMMA CommitExtends ==
  ASSUME IInv, NEW w \in Writers, pc[w] = "commit", ~Creating(w), CommitRows(w)
  PROVE  /\ EventOf(w) \in Events /\ EventOf(w).seen = seq /\ seq' = seq + 1
         /\ known[w] = seq /\ Top # 0 /\ slot[w] = Top + 1 /\ w \in Orchestrators
         /\ op[w] # "run_created" /\ Extended(EventOf(w))
         /\ op[w] = "step_created" => \A s \in DOMAIN log : log[s].type # "step_created"
         /\ \A s \in DOMAIN log : log[s].seen # 0 => s \in view[w]
<1>1. /\ w \in Orchestrators /\ HasPending(w) /\ ins[w][slot[w]] = EventOf(w)
      /\ DOMAIN ins[w] = {slot[w]} /\ slot[w] = Top + 1 /\ Top # 0
      /\ op[w] = "step_created" => \A s \in DOMAIN log : log[s].type # "step_created"
  BY DEF IInv, PendingShape, Fenced
<1>2. known[w] = seq /\ newSeq[w] = seq + 1 /\ seq' = seq + 1
  BY DEF IInv, FenceHeld, CommitRows, SeqSeen
<1>3. op[w] \in EventTypes \ {"run_created"} /\ view[w] \in SUBSET Nat /\ seq \in Nat
  BY DEF IInv, TypeOK, RunKnown
<1>4. EventOf(w) \in Events /\ EventOf(w).seen = seq
  BY <1>1, <1>2, <1>3 DEF EventOf, Events, Fenced
<1>5. \A s \in DOMAIN log : log[s].seen # 0 => s \in view[w]
  <2>1. \A s \in DOMAIN log : log[s].seen \in Nat /\ log[s].seen < seq
    BY DEF IInv, TypeOK, Events, CountMatchesLog
  <2> QED BY SMTT(30), <1>1, <1>2, <2>1 DEF IInv, SnapshotNeverAhead
<1>6. Top \in Nat /\ DOMAIN log = 1..Top /\ log \in [DOMAIN log -> Events]
  BY DEF IInv, Dense, TypeOK
<1>7. Extended(EventOf(w))
  <2>1. DOMAIN log \cup DOMAIN ins[w] = 1..(Top + 1)
    BY SMTT(30), <1>1, <1>6
  <2>2. log' = [s \in 1..(Top + 1) |-> IF s \in {slot[w]} THEN ins[w][s] ELSE log[s]]
    BY <1>1, <2>1 DEF CommitRows, Merge
  <2>3. log' \in [1..(Top + 1) -> Events]
    BY SMTT(30), <1>1, <1>4, <1>6, <2>2
  <2> QED BY SMTT(30), <1>1, <1>6, <2>2, <2>3 DEF Extended
<1> QED BY <1>1, <1>2, <1>3, <1>4, <1>5, <1>7

(* COMMIT of a fenced call, on a new run or on an existing one.            *)
LEMMA CommitFencedIInv ==
  ASSUME IInv, NEW w \in Writers, CommitFenced(w)
  PROVE  IInv'
<1> DEFINE n == IF Creating(w) THEN 2 ELSE Top + 1
<1>1. /\ pc[w] = "commit" /\ CommitRows(w) /\ Return(w)
      /\ known' = [known EXCEPT ![w] = @ + 1]
      /\ view' = [view EXCEPT ![w] = IF op[w] = "run_started" THEN SlotsSeen(w)
                                     ELSE @ \cup {slot[w]}]
  BY DEF CommitFenced
<1>2. /\ w \in Orchestrators /\ HasPending(w) /\ newSeq[w] # 0 /\ Top \in Nat
      /\ known[w] \in Nat /\ seq \in Nat /\ DOMAIN log = 1..Top /\ op[w] \in EventTypes
  BY <1>1 DEF IInv, PendingShape, FenceHeld, Fenced, Dense, TypeOK, RunKnown
<1>3. \A v \in Writers : v # w => ~HasPending(v) /\ ~SlotsHeldBy(v)
  BY <1>2 DEF IInv, Exclusion, SlotsHeldBy
<1>4. /\ Dense' /\ Top' = n /\ FirstIsCreated' /\ CountMatchesLog'
      /\ NoBlindWrite' /\ StepCreatedOnce'
      /\ log' \in [DOMAIN log' -> Events] /\ DOMAIN log' = 1..n
      /\ slot[w] = n /\ log'[n].seen = known[w] /\ seq' = known[w] + 1
      /\ (seq = known[w] \/ (known[w] = 1 /\ seq = 0)) /\ status' # "absent"
      /\ n \in Nat /\ n # 0 /\ n >= Top /\ DOMAIN log \cup DOMAIN ins[w] = 1..n
      /\ \A s \in DOMAIN log' : s # n => log'[s].seen = 0 \/ (s \in DOMAIN log /\ log'[s] = log[s])
  <2>1. CASE Creating(w)
    <3>1. /\ DOMAIN ins[w] = 1..2 /\ newSeq[w] = 2 /\ known[w] = 1 /\ slot[w] = 2
          /\ ins[w][2] = EventOf(w) /\ op[w] = "run_started" /\ Top = 0
          /\ seq = 0
      BY SMTT(30), <1>1, <1>2, <2>1 DEF IInv, PendingShape, FenceHeld, Creating, RowsAgree
    <3>2. ins[w][2].seen = 1 /\ ins[w][2].type = "run_started"
      BY SMTT(30), <1>2, <3>1 DEF EventOf, Fenced
    <3>3. /\ log' = ins[w] /\ Dense' /\ Top' = 2 /\ FirstIsCreated' /\ CountMatchesLog'
          /\ NoBlindWrite' /\ StepCreatedOnce' /\ seq' = 2 /\ status' # "absent"
      BY <1>1, <2>1, <3>1, <3>2, CommitCreating
    <3>4. ins[w] \in [DOMAIN ins[w] -> Events] /\ ins[w][1].seen = 0
      BY SMTT(30), <2>1 DEF IInv, TypeOK, Creating, RunCreatedEvent
    <3> QED BY SMTT(30), <1>2, <2>1, <3>1, <3>2, <3>3, <3>4
  <2>2. CASE ~Creating(w)
    <3> DEFINE e == EventOf(w)
    <3>1. /\ e \in Events /\ e.seen = seq /\ seq' = seq + 1 /\ e.type = op[w] /\ e.view = view[w]
          /\ known[w] = seq /\ Top # 0 /\ slot[w] = Top + 1
          /\ op[w] # "run_created" /\ Extended(e)
          /\ op[w] = "step_created" => \A s \in DOMAIN log : log[s].type # "step_created"
          /\ \A s \in DOMAIN log : log[s].seen # 0 => s \in view[w]
      BY <1>1, <2>2, CommitExtends DEF EventOf, Fenced
    <3> HIDE DEF e
    <3>2. /\ Dense' /\ Top' = Top + 1 /\ FirstIsCreated' /\ CountMatchesLog'
          /\ NoBlindWrite' /\ StepCreatedOnce'
      BY <3>1, ExtendLog
    <3>3. status' # "absent"
      BY <1>1, <3>1 DEF CommitRows, StatusSeen, IInv, RowsAgree, RunKnown
    <3>4. DOMAIN ins[w] = {Top + 1}
      BY <1>1, <1>2, <2>2, <3>1 DEF IInv, PendingShape
    <3>5. /\ DOMAIN log' = 1..(Top + 1) /\ log' \in [DOMAIN log' -> Events]
          /\ (\A s \in DOMAIN log : log'[s] = log[s]) /\ log'[Top + 1] = e
      BY <3>1 DEF Extended
    <3> QED BY SMTT(30), <1>2, <2>2, <3>1, <3>2, <3>3, <3>4, <3>5
  <2> QED BY <2>1, <2>2
<1> HIDE DEF n
<1>5. OthersSame(w) /\ Clean(w)' /\ ~locked'[w] /\ pc'[w] = "idle" /\ op'[w] = "none"
  <2>1. OthersSame(w)
    BY <1>1 DEF CommitRows, EndTransaction, Return, Goto, IInv, TypeOK, OthersSame
  <2>2. Clean(w)' /\ ~locked'[w]
    BY <1>1 DEF CommitRows, EndTransaction, IInv, TypeOK, Clean
  <2> QED BY <1>1, <2>1, <2>2 DEF Return, Goto, IInv, TypeOK
<1>6. view'[w] \subseteq 1..n /\ known'[w] = known[w] + 1 /\ n \in view'[w]
      /\ view[w] \subseteq view'[w]
  <2>1. view[w] \subseteq DOMAIN log
    BY <1>2 DEF IInv, KnownBound
  <2>2. view'[w] = (IF op[w] = "run_started" THEN 1..n ELSE view[w] \cup {n})
    BY <1>1, <1>4 DEF IInv, TypeOK, SlotsSeen
  <2>3. known'[w] = known[w] + 1
    BY <1>1 DEF IInv, TypeOK
  <2> QED BY SMTT(30), <1>2, <1>4, <2>1, <2>2, <2>3
<1>7. TypeOK'
  <2>1. DOMAIN log' \subseteq Nat /\ seq' \in Nat
    BY SMTT(30), <1>2, <1>4
  <2>2. status' \in Statuses
    BY <1>1, <1>4 DEF IInv, TypeOK, CommitRows, StatusSeen
  <2>3. ins' = [v \in Writers |-> ins'[v]]
    BY <1>1 DEF IInv, TypeOK, CommitRows, EndTransaction
  <2>4. \A v \in Writers : DOMAIN ins'[v] \subseteq Nat /\ ins'[v] \in [DOMAIN ins'[v] -> Events]
    BY <1>5 DEF IInv, TypeOK, OthersSame, Clean, NoEvents
  <2>5. /\ newStatus' \in [Writers -> Statuses \cup {"none"}] /\ newSeq' \in [Writers -> Nat]
        /\ newStep' \in [Writers -> BOOLEAN] /\ locked' \in [Writers -> BOOLEAN]
        /\ steps' \in BOOLEAN
    BY <1>1 DEF IInv, TypeOK, CommitRows, EndTransaction
  <2>6. /\ pc' \in [Writers -> Labels] /\ op' \in [Writers -> EventTypes \cup {"none"}]
        /\ slot' \in [Writers -> Nat] /\ tries' \in [Writers -> Nat]
    <3>1. TypeOK
      BY DEF IInv
    <3> QED BY ONLY <1>1, <3>1 DEF Return, Goto, TypeOK, Labels
  <2>7. known' \in [Writers -> Nat] /\ view' \in [Writers -> SUBSET Nat]
    <3>1. known'[w] \in Nat /\ view'[w] \in SUBSET Nat
      BY SMTT(30), <1>2, <1>4, <1>6
    <3> QED BY <1>1, <3>1 DEF IInv, TypeOK
  <2> QED BY <1>4, <2>1, <2>2, <2>3, <2>4, <2>5, <2>6, <2>7 DEF TypeOK
<1>8. RunKnown!(w)'
  BY <1>5 DEF Clean
<1>9. KnownBound'
  <2> SUFFICES ASSUME NEW v \in Orchestrators PROVE KnownBound!(v)'
    BY DEF KnownBound
  <2>1. v \in Writers /\ known[v] \in Nat
    BY DEF Writers, IInv, TypeOK
  <2>2. CASE v = w
    <3>1. known'[v] <= seq' /\ view'[v] \subseteq DOMAIN log'
      BY SMTT(30), <1>2, <1>4, <1>6, <2>2
    <3> QED BY <3>1
  <2>3. CASE v # w
    <3>1. known'[v] = known[v] /\ view'[v] = view[v]
      BY <1>5, <2>1, <2>3 DEF OthersSame
    <3>2. (known[v] <= seq \/ known[v] <= 1) /\ view[v] \subseteq 1..Top
      BY <1>2 DEF IInv, KnownBound
    <3>3. known[v] <= seq' \/ known[v] <= 1
      BY SMTT(30), <1>2, <1>4, <2>1, <3>2
    <3>4. view[v] \subseteq DOMAIN log'
      BY <1>2, <1>4, <3>2
    <3> QED BY <3>1, <3>3, <3>4
  <2> QED BY <2>2, <2>3
<1>10. SnapshotNeverAhead'
  <2> SUFFICES ASSUME NEW v \in Orchestrators, pc'[v] \notin {"page", "repage"},
                      NEW s \in DOMAIN log', 0 < log'[s].seen, log'[s].seen < known'[v]
               PROVE  s \in view'[v]
    BY DEF SnapshotNeverAhead
  <2>1. v \in Writers /\ known[v] \in Nat
    BY DEF Writers, IInv, TypeOK
  <2>2. CASE s = n
    <3>1. CASE v = w
      BY <1>6, <2>2, <3>1
    <3>2. CASE v # w
      <4>1. known'[v] = known[v] /\ (known[v] <= seq \/ known[v] <= 1)
        BY <1>5, <2>1, <3>2 DEF OthersSame, IInv, KnownBound
      <4> QED BY SMTT(30), <1>2, <1>4, <2>1, <2>2, <4>1
    <3> QED BY <3>1, <3>2
  <2>3. CASE s # n
    <3>1. s \in DOMAIN log /\ log'[s] = log[s] /\ log[s].seen \in Nat /\ log[s].seen < seq
      BY SMTT(30), <1>4, <2>3 DEF IInv, TypeOK, Events, CountMatchesLog
    <3>2. CASE v = w
      <4>1. 0 < log[s].seen /\ log[s].seen < known[w] /\ pc[w] \notin {"page", "repage"}
        BY SMTT(30), <1>1, <1>2, <1>4, <3>1
      <4>2. s \in view[w]
        BY <1>2, <3>1, <4>1 DEF IInv, SnapshotNeverAhead
      <4> QED BY <1>6, <3>2, <4>2
    <3>3. CASE v # w
      BY <1>5, <2>1, <3>1, <3>3 DEF IInv, SnapshotNeverAhead, OthersSame
    <3> QED BY <3>2, <3>3
  <2> QED BY <2>2, <2>3
<1>11. seq' # 0 /\ Top' >= Top /\ Top' # 0
  BY SMTT(30), <1>2, <1>4
<1> QED BY <1>3, <1>4, <1>5, <1>7, <1>8, <1>9, <1>10, <1>11, GrowIInv
=============================================================================
