------------------------ MODULE RunLogCallProofs ----------------------------
(***************************************************************************)
(* The inductive invariant of RunLog holds initially and is preserved by   *)
(* every step of a call that leaves the committed log alone.               *)
(***************************************************************************)
EXTENDS RunLogInv, TLAPS

USE ZenonT(30)

(* The last of the slots 1..n is n (nextSlotId's "order by id desc").      *)
LEMMA LastSlotInterval ==
  ASSUME NEW n \in Nat
  PROVE  LastSlot(1..n) = n
<1>1. CASE n = 0
  BY SMTT(30), <1>1 DEF LastSlot
<1>2. CASE n # 0
  <2>1. n \in 1..n /\ \A t \in 1..n : t <= n
    BY SMTT(30), <1>2
  <2>2. \A s \in 1..n : (\A t \in 1..n : t <= s) => s = n
    BY SMTT(30), <1>2
  <2>3. LastSlot(1..n) = CHOOSE s \in 1..n : \A t \in 1..n : t <= s
    BY <2>1 DEF LastSlot
  <2> QED BY <2>1, <2>2, <2>3
<1> QED BY <1>1, <1>2

(* An empty run with idle writers satisfies the invariant (Init).          *)
LEMMA InitIInv == Init => IInv
<1> SUFFICES ASSUME Init PROVE IInv
  OBVIOUS
<1> USE DEF Init, NoEvents, Top, LastSlot
<1>1. TypeOK
  BY DEF TypeOK, Statuses, Labels, Fresh
<1>2. Dense
  BY SMTT(30) DEF Dense
<1>3. CleanUntilWrite /\ PendingShape /\ SlotBound /\ RunKnown
  BY DEF CleanUntilWrite, Clean, Outside, PendingShape, HasPending, SlotBound, RunKnown
<1>4. Exclusion /\ FenceHeld /\ RowsAgree /\ KnownBound
  BY SMTT(30) DEF Exclusion, RunHeldBy, SlotsHeldBy, HasPending, FenceHeld, RowsAgree, KnownBound, Fresh, Writers, Fenced
<1>5. FirstIsCreated /\ CountMatchesLog /\ NoBlindWrite /\ SnapshotNeverAhead /\ StepCreatedOnce
  BY SMTT(30) DEF FirstIsCreated, CountMatchesLog, NoBlindWrite, SnapshotNeverAhead, StepCreatedOnce
<1> QED BY <1>1, <1>2, <1>3, <1>4, <1>5 DEF IInv

(* A call that ends without appending leaves the rows as they were.        *)
LEMMA RollbackIInv ==
  ASSUME IInv, NEW w \in Writers, Rollback(w),
         \/ UNCHANGED <<known, view>> /\ pc[w] \notin {"page", "repage"}
         \/ /\ known' = [known EXCEPT ![w] = Fresh(w)]
            /\ view' = [view EXCEPT ![w] = {}]
  PROVE  IInv'
<1> USE DEF IInv, Rollback, Return, Goto, EndTransaction, rows, NoEvents
<1>1. TypeOK'
  <2>1. ins' = [v \in Writers |-> ins'[v]]
    BY DEF TypeOK
  <2>2. \A v \in Writers : DOMAIN ins'[v] \subseteq Nat /\ ins'[v] \in [DOMAIN ins'[v] -> Events]
    <3> SUFFICES ASSUME NEW v \in Writers
                 PROVE  DOMAIN ins'[v] \subseteq Nat /\ ins'[v] \in [DOMAIN ins'[v] -> Events]
      OBVIOUS
    <3>1. CASE v = w
      BY <3>1 DEF TypeOK
    <3>2. CASE v # w
      BY <3>2 DEF TypeOK
    <3> QED BY <3>1, <3>2
  <2>3. known' \in [Writers -> Nat] /\ view' \in [Writers -> SUBSET Nat]
    <3>1. Fresh(w) \in Nat /\ {} \in SUBSET Nat
      BY DEF Fresh
    <3> QED BY <3>1 DEF TypeOK
  <2>4. pc' \in [Writers -> Labels] /\ op' \in [Writers -> EventTypes \cup {"none"}]
        /\ slot' \in [Writers -> Nat] /\ tries' \in [Writers -> Nat]
    BY DEF TypeOK, Labels
  <2>5. newStatus' \in [Writers -> Statuses \cup {"none"}] /\ newSeq' \in [Writers -> Nat]
        /\ newStep' \in [Writers -> BOOLEAN] /\ locked' \in [Writers -> BOOLEAN]
    BY DEF TypeOK, Labels
  <2> QED BY <2>1, <2>2, <2>3, <2>4, <2>5 DEF TypeOK
<1>2. CleanUntilWrite'
  BY DEF TypeOK, CleanUntilWrite, Clean, Outside, Fenced
<1>3. PendingShape'
  <2> SUFFICES ASSUME NEW v \in Writers PROVE PendingShape!(v)'
    BY DEF PendingShape
  <2>1. CASE v = w
    BY <2>1 DEF TypeOK, PendingShape, HasPending
  <2>2. CASE v # w
    BY <2>2 DEF TypeOK, PendingShape, HasPending, Creating, Top, EventOf, Fenced
  <2> QED BY <2>1, <2>2
<1>4. SlotBound' /\ RunKnown'
  BY DEF TypeOK, SlotBound, RunKnown, HasPending, Top
<1>5. Exclusion'
  BY DEF TypeOK, Exclusion, RunHeldBy, SlotsHeldBy, HasPending
<1>6. FenceHeld'
  BY SMTT(30) DEF TypeOK, FenceHeld, Creating, Top
<1>7. RowsAgree' /\ Dense' /\ FirstIsCreated' /\ CountMatchesLog' /\ NoBlindWrite' /\ StepCreatedOnce'
  BY DEF TypeOK, RowsAgree, Dense, Top, FirstIsCreated, CountMatchesLog, NoBlindWrite, StepCreatedOnce
<1>8. KnownBound' /\ SnapshotNeverAhead'
  <2> SUFFICES ASSUME NEW v \in Orchestrators
               PROVE  KnownBound!(v)' /\ SnapshotNeverAhead!(v)'
    BY DEF KnownBound, SnapshotNeverAhead
  <2>1. v \in Writers /\ known[v] \in Nat
    BY DEF Writers, TypeOK
  <2>2. CASE v = w
    <3>1. CASE UNCHANGED <<known, view>> /\ pc[w] \notin {"page", "repage"}
      BY <2>1, <2>2, <3>1 DEF TypeOK, KnownBound, SnapshotNeverAhead
    <3>2. CASE /\ known' = [known EXCEPT ![w] = Fresh(w)]
               /\ view' = [view EXCEPT ![w] = {}]
      <4>1. known'[v] <= 1 /\ known'[v] \in Nat
        BY SMTT(30), <2>1, <2>2, <3>2 DEF TypeOK, Fresh
      <4>2. \A s \in DOMAIN log : log[s].seen \in Nat
        BY DEF TypeOK, Events
      <4> QED BY SMTT(30), <2>1, <2>2, <3>2, <4>1, <4>2 DEF TypeOK, KnownBound
    <3> QED BY <3>1, <3>2
  <2>3. CASE v # w
    BY <2>1, <2>3 DEF TypeOK, KnownBound, SnapshotNeverAhead
  <2> QED BY <2>2, <2>3
<1> QED BY <1>1, <1>2, <1>3, <1>4, <1>5, <1>6, <1>7, <1>8

(* Only the call and the transaction of w change.                          *)
OthersSame(w) ==
  \A v \in Writers : v # w =>
    /\ pc'[v] = pc[v] /\ op'[v] = op[v] /\ slot'[v] = slot[v]
    /\ ins'[v] = ins[v] /\ newStatus'[v] = newStatus[v] /\ newSeq'[v] = newSeq[v]
    /\ newStep'[v] = newStep[v] /\ locked'[v] = locked[v]
    /\ known'[v] = known[v] /\ view'[v] = view[v]

(* A step of w that leaves the log, the count and the run's existence      *)
(* alone preserves the invariant if it preserves what the invariant says   *)
(* of w and the exclusion.                                                 *)
LEMMA FrameIInv ==
  ASSUME IInv, NEW w \in Writers, UNCHANGED <<seq, log>>,
         status' = "absent" <=> status = "absent", OthersSame(w),
         TypeOK', Exclusion',
         CleanUntilWrite!(w)', PendingShape!(w)', SlotBound!(w)',
         RunKnown!(w)', FenceHeld!(w)',
         w \in Orchestrators => KnownBound!(w)' /\ SnapshotNeverAhead!(w)'
  PROVE  IInv'
<1> USE DEF IInv
<1>1. \A v \in Writers : v # w => pc'[v] = pc[v] /\ op'[v] = op[v] /\ slot'[v] = slot[v]
    /\ ins'[v] = ins[v] /\ newStatus'[v] = newStatus[v] /\ newSeq'[v] = newSeq[v]
    /\ newStep'[v] = newStep[v] /\ locked'[v] = locked[v]
    /\ known'[v] = known[v] /\ view'[v] = view[v]
  BY DEF OthersSame
<1>2. CleanUntilWrite'
  BY SMTT(30), <1>1 DEF CleanUntilWrite, Clean
<1>3. PendingShape'
  <2> SUFFICES ASSUME NEW v \in Writers, v # w PROVE PendingShape!(v)'
    BY DEF PendingShape
  <2> QED BY SMTT(30), <1>1 DEF PendingShape, HasPending, Creating, Top, EventOf
<1>4. SlotBound' /\ RunKnown'
  BY SMTT(30), <1>1 DEF SlotBound, RunKnown, HasPending, Top
<1>5. FenceHeld'
  BY SMTT(30), <1>1 DEF FenceHeld, Creating, Top
<1>6. RowsAgree' /\ Dense' /\ FirstIsCreated' /\ CountMatchesLog' /\ NoBlindWrite' /\ StepCreatedOnce'
  BY DEF RowsAgree, Dense, Top, FirstIsCreated, CountMatchesLog, NoBlindWrite, StepCreatedOnce
<1>7. KnownBound' /\ SnapshotNeverAhead'
  BY <1>1 DEF KnownBound, SnapshotNeverAhead, Writers
<1> QED BY <1>2, <1>3, <1>4, <1>5, <1>6, <1>7

(* A step of w that only moves its call.                                   *)
LEMMA MoveIInv ==
  ASSUME IInv, NEW w \in Writers, NEW l \in Labels,
         UNCHANGED <<rows, tx, known, view>>, Goto(w, l),
         op' \in [Writers -> EventTypes \cup {"none"}],
         slot' \in [Writers -> Nat], tries' \in [Writers -> Nat],
         \A v \in Writers : v # w => op'[v] = op[v] /\ slot'[v] = slot[v],
         pc[w] \notin {"page", "repage"},
         CleanUntilWrite!(w)', PendingShape!(w)', SlotBound!(w)',
         RunKnown!(w)', FenceHeld!(w)'
  PROVE  IInv'
<1> USE DEF rows, tx, Goto
<1>1. TypeOK'
  BY DEF IInv, TypeOK
<1>2. OthersSame(w)
  BY DEF OthersSame, IInv, TypeOK
<1>3. Exclusion'
  BY DEF IInv, Exclusion, RunHeldBy, SlotsHeldBy, HasPending
<1>4. w \in Orchestrators => KnownBound!(w)' /\ SnapshotNeverAhead!(w)'
  BY DEF IInv, TypeOK, KnownBound, SnapshotNeverAhead
<1> QED BY <1>1, <1>2, <1>3, <1>4, FrameIInv

(* The arrival of a call writes nothing (create of either storage).        *)
LEMMA BeginIInv ==
  ASSUME IInv, NEW w \in Writers, NEW o \in EventTypes, Begin(w, o)
  PROVE  IInv'
<1> DEFINE l == CASE Fenced(w) -> "fence"
                  [] o = "run_created" -> "create"
                  [] OTHER -> "validate"
<1> USE DEF IInv, Begin, Goto, rows, tx
<1>1. l \in Labels /\ l \in {"fence", "create", "validate"} /\ Goto(w, l)
      /\ (l = "fence" <=> Fenced(w)) /\ (l = "create" => o = "run_created")
      /\ (o = "run_created" => l = "create")
  BY WriterAssumption DEF Labels, Fenced, OrchestratorOps, Writers
<1> HIDE DEF l
<1>2. pc'[w] = l /\ op'[w] = o /\ o # "none" /\ op' \in [Writers -> EventTypes \cup {"none"}]
  BY <1>1 DEF TypeOK, EventTypes, TerminalOps
<1>3. Clean(w) /\ ~locked[w]
  BY DEF CleanUntilWrite, Outside
<1>4. CleanUntilWrite!(w)'
  BY <1>1, <1>2, <1>3 DEF Clean, Outside, Fenced
<1>5. PendingShape!(w)' /\ SlotBound!(w)'
  BY <1>1, <1>2, <1>3 DEF HasPending, Clean, NoEvents
<1>6. RunKnown!(w)'
  <2>1. o = "step_created" => status # "absent"
    <3>1. CASE w \in Orchestrators /\ 1 \in view[w]
      <4>1. 1 \in 1..Top /\ Top \in Nat
        BY <3>1 DEF KnownBound, Dense
      <4> QED BY SMTT(30), <4>1 DEF RowsAgree
    <3>2. CASE w \in Clients /\ (status = "absent" => o \in EarlyOps)
      BY <3>2, OpAssumption
    <3> QED BY <3>1, <3>2
  <2> QED BY <1>1, <1>2, <1>3, <2>1 DEF Clean, RunKnown
<1>7. FenceHeld!(w)'
  BY <1>1, <1>2, <1>3 DEF Clean
<1>8. /\ slot' \in [Writers -> Nat] /\ tries' \in [Writers -> Nat]
      /\ \A v \in Writers : v # w => op'[v] = op[v] /\ slot'[v] = slot[v]
      /\ pc[w] \notin {"page", "repage"}
      /\ UNCHANGED <<rows, tx, known, view>>
  BY DEF TypeOK
<1> HIDE DEF IInv, Begin, Goto, rows, tx
<1> QED BY <1>1, <1>2, <1>4, <1>5, <1>6, <1>7, <1>8, MoveIInv

(* Moving on to the next statement with every row kept.                    *)
LEMMA ContinueIInv ==
  ASSUME IInv, NEW w \in Writers, NEW l \in Labels, Continue(w, l),
         pc[w] \notin {"page", "repage"},
         CleanUntilWrite!(w)', PendingShape!(w)', SlotBound!(w)',
         RunKnown!(w)', FenceHeld!(w)'
  PROVE  IInv'
<1>1. /\ UNCHANGED <<rows, tx, known, view>> /\ Goto(w, l)
      /\ op' \in [Writers -> EventTypes \cup {"none"}]
      /\ slot' \in [Writers -> Nat] /\ tries' \in [Writers -> Nat]
      /\ \A v \in Writers : v # w => op'[v] = op[v] /\ slot'[v] = slot[v]
  BY DEF Continue, call, IInv, TypeOK
<1> QED BY <1>1, MoveIInv

(* A call that has written nothing yet goes on to a statement that does    *)
(* not need a slot.                                                        *)
LEMMA CleanMoveIInv ==
  ASSUME IInv, NEW w \in Writers,
         NEW l \in {"validate", "create", "update", "pick"}, Continue(w, l),
         pc[w] \in {"validate", "create"},
         l = "pick" \/ (l = "update" /\ op[w] \notin TerminalOps) => status # "absent",
         l = "create" => op[w] = "run_started",
         op[w] # "run_created"
  PROVE  IInv'
<1> USE DEF IInv, Continue, Goto, rows, tx, call
<1>1. Clean(w) /\ (~Fenced(w) => ~locked[w]) /\ op[w] # "none" /\ ~HasPending(w)
  BY DEF CleanUntilWrite, RunKnown, Clean, HasPending, NoEvents
<1>2. pc'[w] = l
  BY DEF TypeOK
<1>3. CleanUntilWrite!(w)'
  BY <1>1, <1>2 DEF Clean, Outside, Fenced
<1>4. PendingShape!(w)' /\ SlotBound!(w)'
  BY <1>1, <1>2 DEF HasPending
<1>5. RunKnown!(w)'
  BY <1>1, <1>2 DEF Clean, RunKnown
<1>6. FenceHeld!(w)'
  BY <1>1, <1>2 DEF Clean, FenceHeld
<1>7. l \in Labels /\ Continue(w, l) /\ pc[w] \notin {"page", "repage"}
  BY DEF Labels
<1> HIDE DEF IInv, Continue
<1> QED BY <1>3, <1>4, <1>5, <1>6, <1>7, ContinueIInv

(* The unlocked validation read only routes the call.                      *)
LEMMA ValidateIInv ==
  ASSUME IInv, NEW w \in Writers, Validate(w)
  PROVE  IInv'
<1>1. pc[w] = "validate" /\ StatusSeen(w) = status /\ op[w] # "run_created"
  BY DEF IInv, Validate, CleanUntilWrite, Clean, StatusSeen, RunKnown
<1>2. op[w] = "step_created" => status # "absent"
  BY DEF IInv, RunKnown
<1>3. op[w] \in EventTypes
  BY <1>1 DEF IInv, TypeOK, RunKnown
<1>4. CASE op[w] = "run_started" /\ status = "absent" /\ Continue(w, "create")
  BY <1>1, <1>4, CleanMoveIInv
<1>5. CASE op[w] = "run_started" /\ status = "pending" /\ Continue(w, "update")
  BY <1>1, <1>5, CleanMoveIInv
<1>6. CASE op[w] # "run_started" /\ status \notin Terminal /\ Continue(w, "update")
  <2>1. op[w] \notin TerminalOps => op[w] = "step_created"
    BY <1>1, <1>3, <1>6 DEF EventTypes
  <2> QED BY <1>1, <1>2, <1>6, <2>1, CleanMoveIInv
<1>7. CASE op[w] = "run_cancelled" /\ status = "cancelled" /\ Continue(w, "pick")
  BY <1>1, <1>7, CleanMoveIInv
<1>8. CASE Refuse(w) \/ Abandon(w)
  BY <1>1, <1>8, RollbackIInv DEF Refuse, Abandon
<1> QED BY <1>1, <1>4, <1>5, <1>6, <1>7, <1>8 DEF Validate

(* The second read after an UPDATE that missed only routes the call.       *)
LEMMA RecheckIInv ==
  ASSUME IInv, NEW w \in Writers, Recheck(w)
  PROVE  IInv'
<1>1. CASE Refuse(w)
  BY <1>1, RollbackIInv DEF Refuse, Recheck
<1>2. CASE StatusSeen(w) \in {"pending", "running"} /\ Continue(w, "pick")
  <2> USE DEF IInv, Continue, Goto, rows, tx, call
  <2>1. pc[w] = "recheck" /\ pc'[w] = "pick"
    BY <1>2 DEF Recheck, TypeOK
  <2>2. ~HasPending(w) /\ newSeq[w] = 0 /\ op[w] \notin {"none", "run_created"}
    BY <2>1 DEF PendingShape, FenceHeld, Creating, HasPending, RunKnown
  <2>3. status # "absent"
    BY <1>2, <2>2 DEF RunKnown, StatusSeen
  <2>4. CleanUntilWrite!(w)'
    BY <1>2, <2>1 DEF CleanUntilWrite, Clean, Outside
  <2>5. PendingShape!(w)' /\ SlotBound!(w)'
    BY <1>2, <2>1, <2>2 DEF HasPending
  <2>6. RunKnown!(w)' /\ FenceHeld!(w)'
    BY <1>2, <2>1, <2>2, <2>3 DEF RunKnown, FenceHeld
  <2>7. "pick" \in Labels /\ pc[w] \notin {"page", "repage"}
    BY <2>1 DEF Labels
  <2> HIDE DEF IInv, Continue
  <2> QED BY <1>2, <2>4, <2>5, <2>6, <2>7, ContinueIInv
<1> QED BY <1>1, <1>2 DEF Recheck

(* The slot an INSERT computes is the first free one among what it sees.   *)
LEMMA NextSlotFacts ==
  ASSUME IInv, NEW w \in Writers, pc[w] = "pick"
  PROVE  IF HasPending(w) THEN NextSlot(w) = 2 ELSE NextSlot(w) = Top + 1
<1>1. CASE HasPending(w)
  <2>1. DOMAIN log = 1..0 /\ DOMAIN ins[w] = {1}
    BY <1>1 DEF IInv, PendingShape, Creating, Dense
  <2>2. SlotsSeen(w) = 1..1
    BY SMTT(30), <2>1 DEF SlotsSeen
  <2>3. LastSlot(1..1) = 1
    <3>1. 1 \in Nat
      OBVIOUS
    <3> QED BY ONLY <3>1, LastSlotInterval
  <2>4. NextSlot(w) = 2
    BY SMTT(30), <2>2, <2>3 DEF NextSlot
  <2> QED BY <1>1, <2>4
<1>2. CASE ~HasPending(w)
  <2>1. SlotsSeen(w) = DOMAIN log
    BY <1>2 DEF SlotsSeen, HasPending
  <2> QED BY <1>2, <2>1 DEF NextSlot, Top
<1> QED BY <1>1, <1>2

(* allocateEventId: the computed slot is within one of the log's end.      *)
LEMMA PickSlotIInv ==
  ASSUME IInv, NEW w \in Writers, PickSlot(w)
  PROVE  IInv'
<1> USE DEF IInv, PickSlot, Goto, rows, tx
<1>1. pc[w] = "pick" /\ pc'[w] = "insert" /\ slot'[w] = NextSlot(w)
  BY DEF TypeOK
<1>2. NextSlot(w) \in Nat /\ (IF HasPending(w) THEN NextSlot(w) = 2 ELSE NextSlot(w) = Top + 1)
  BY SMTT(30), <1>1, NextSlotFacts DEF Dense
<1>3. CleanUntilWrite!(w)'
  BY <1>1 DEF CleanUntilWrite, Clean, Outside
<1>4. PendingShape!(w)'
  BY <1>1 DEF PendingShape, HasPending, Creating, Top
<1>5. SlotBound!(w)'
  BY SMTT(30), <1>1, <1>2 DEF HasPending, Top, Dense
<1>6. RunKnown!(w)'
  BY <1>1 DEF RunKnown, HasPending
<1>7. FenceHeld!(w)'
  BY <1>1 DEF FenceHeld, Creating, Top
<1>8. /\ slot' \in [Writers -> Nat] /\ tries' \in [Writers -> Nat]
      /\ op' \in [Writers -> EventTypes \cup {"none"}]
      /\ \A v \in Writers : v # w => op'[v] = op[v] /\ slot'[v] = slot[v]
      /\ pc[w] \notin {"page", "repage"}
      /\ UNCHANGED <<rows, tx, known, view>> /\ Goto(w, "insert")
  BY <1>1, <1>2 DEF TypeOK
<1>9. "insert" \in Labels
  BY DEF Labels
<1> HIDE DEF IInv, PickSlot, Goto, rows, tx
<1> QED BY <1>3, <1>4, <1>5, <1>6, <1>7, <1>8, <1>9, MoveIInv

(* The fence locks the slots row only at the count it expects.             *)
LEMMA FenceIInv ==
  ASSUME IInv, NEW w \in Writers, Fence(w)
  PROVE  IInv'
<1>1. CASE Abandon(w)
  BY <1>1, RollbackIInv DEF Abandon
<1>2. CASE /\ seq \in {0, known[w]} /\ Goto(w, "validate")
           /\ locked' = [locked EXCEPT ![w] = (seq # 0)]
           /\ UNCHANGED <<rows, call, ins, newStatus, newSeq, newStep, known, view>>
  <2> USE <1>2 DEF IInv, Goto, rows, call
  <2>1. /\ pc[w] = "fence" /\ pc'[w] = "validate" /\ Fenced(w) /\ Clean(w)
        /\ locked'[w] = (seq # 0)
    BY DEF Fence, TypeOK, CleanUntilWrite, Outside
  <2>2. TypeOK'
    BY DEF TypeOK, Labels
  <2>3. OthersSame(w)
    BY DEF OthersSame, TypeOK
  <2>4. Exclusion'
    <3>1. ASSUME NEW v \in Writers, v # w, seq # 0 PROVE ~SlotsHeldBy(v)
      BY <2>1, <3>1 DEF Fence, Runnable, WaitsFor
    <3>2. \A v \in Writers : v # w => locked'[v] = locked[v]
      BY <2>3 DEF OthersSame
    <3> QED BY <2>1, <3>1, <3>2 DEF Exclusion, RunHeldBy, SlotsHeldBy, HasPending, Clean
  <2>5. CleanUntilWrite!(w)'
    BY <2>1 DEF Clean, Outside, Fenced
  <2>6. PendingShape!(w)' /\ SlotBound!(w)'
    BY <2>1 DEF HasPending, Clean, NoEvents
  <2>7. RunKnown!(w)'
    BY <2>1 DEF RunKnown, Clean, HasPending
  <2>8. FenceHeld!(w)'
    BY <2>1 DEF Clean
  <2>9. w \in Orchestrators => KnownBound!(w)' /\ SnapshotNeverAhead!(w)'
    BY <2>1 DEF KnownBound, SnapshotNeverAhead
  <2> HIDE DEF IInv
  <2> QED BY <2>2, <2>3, <2>4, <2>5, <2>6, <2>7, <2>8, <2>9, FrameIInv
<1> QED BY <1>1, <1>2 DEF Fence

(* Nobody else has uncommitted rows while the run does not exist and       *)
(* nobody else holds it.                                                   *)
LEMMA NobodyCreating ==
  ASSUME IInv, status = "absent", NEW v \in Writers, ~RunHeldBy(v)
  PROVE  ~SlotsHeldBy(v) /\ ~HasPending(v)
BY DEF IInv, RunHeldBy, SlotsHeldBy, RowsAgree, FenceHeld, PendingShape, Creating

(* insertRunWithCreatedEvent stages slot 1 for one writer at a time.       *)
LEMMA CreateRunIInv ==
  ASSUME IInv, NEW w \in Writers, CreateRun(w)
  PROVE  IInv'
<1>1. pc[w] = "create" /\ op[w] \in {"run_created", "run_started"} /\ Clean(w)
  BY DEF CreateRun, IInv, RunKnown, CleanUntilWrite
<1>2. CASE status # "absent" /\ op[w] = "run_started" /\ Continue(w, "validate")
  BY <1>1, <1>2, CleanMoveIInv
<1>3. CASE Refuse(w)
  BY <1>1, <1>3, RollbackIInv DEF Refuse
<1>4. CASE /\ status = "absent"
           /\ newStatus' = [newStatus EXCEPT ![w] = "pending"]
           /\ newSeq' = [newSeq EXCEPT ![w] = 1]
           /\ ins' = [ins EXCEPT ![w] = Put(@, 1, RunCreatedEvent)]
           /\ Goto(w, IF Fenced(w) THEN "update" ELSE "created")
           /\ UNCHANGED <<rows, call, newStep, locked, known, view>>
  <2> USE <1>4 DEF IInv, Goto, rows, call
  <2>1. /\ pc'[w] = (IF Fenced(w) THEN "update" ELSE "created")
        /\ newStatus'[w] = "pending" /\ newSeq'[w] = 1
        /\ ins'[w] = Put(ins[w], 1, RunCreatedEvent)
    BY DEF TypeOK
  <2>2. /\ DOMAIN ins'[w] = {1} /\ ins'[w][1] = RunCreatedEvent
        /\ ins'[w] \in [DOMAIN ins'[w] -> Events]
    BY SMTT(30), <1>1, <2>1 DEF Clean, NoEvents, Put, Events, RunCreatedEvent, EventTypes
  <2>3. Top = 0 /\ Top' = 0 /\ Creating(w)' /\ seq = 0
    BY SMTT(30), <2>1, <2>2 DEF RowsAgree, Creating, Top
  <2>4. OthersSame(w)
    BY DEF OthersSame, TypeOK
  <2>5. TypeOK'
    <3>1. ins' = [v \in Writers |-> ins'[v]]
      BY DEF TypeOK
    <3>2. \A v \in Writers : DOMAIN ins'[v] \subseteq Nat /\ ins'[v] \in [DOMAIN ins'[v] -> Events]
      BY SMTT(30), <2>2, <2>4 DEF TypeOK, OthersSame
    <3> QED BY <3>1, <3>2 DEF TypeOK, Labels, Statuses
  <2>6. Exclusion'
    <3>1. ASSUME NEW v \in Writers, v # w
          PROVE  ~RunHeldBy(v) /\ ~SlotsHeldBy(v) /\ ~HasPending(v)
      <4>1. ~RunHeldBy(v)
        BY <1>1, <3>1 DEF CreateRun, Runnable, WaitsFor
      <4> QED BY <4>1, <3>1, NobodyCreating
    <3> QED BY SMTT(30), <2>4, <3>1 DEF Exclusion, RunHeldBy, SlotsHeldBy, HasPending, OthersSame
  <2>7. CleanUntilWrite!(w)'
    BY SMTT(30), <1>1, <2>1 DEF CleanUntilWrite, Outside, Fenced
  <2>8. PendingShape!(w)' /\ SlotBound!(w)'
    BY SMTT(30), <1>1, <2>1, <2>2, <2>3 DEF HasPending
  <2>9. RunKnown!(w)'
    BY <1>1, <2>1, <2>2 DEF HasPending, RunKnown
  <2>10. FenceHeld!(w)'
    BY SMTT(30), <2>1, <2>3 DEF FenceHeld
  <2>11. w \in Orchestrators => KnownBound!(w)' /\ SnapshotNeverAhead!(w)'
    BY <1>1, <2>1 DEF KnownBound, SnapshotNeverAhead
  <2> HIDE DEF IInv
  <2> QED BY <2>4, <2>5, <2>6, <2>7, <2>8, <2>9, <2>10, <2>11, FrameIInv
<1> QED BY <1>1, <1>2, <1>3, <1>4 DEF CreateRun

(* events.list: the count first, the page after it.                        *)
LEMMA ListIInv ==
  ASSUME IInv, NEW w \in Writers, ListSnapshot(w) \/ ListPage(w)
  PROVE  IInv'
<1> USE DEF IInv, ListSnapshot, ListPage, Goto, rows, call, tx
<1>1. /\ pc[w] \in Outside /\ pc[w] # "fence" /\ Clean(w) /\ ~locked[w]
      /\ pc'[w] \in Outside /\ pc'[w] # "fence"
  BY DEF TypeOK, CleanUntilWrite, Outside
<1>2. TypeOK'
  <2>1. seq \in Nat /\ DOMAIN log \in SUBSET Nat
    BY DEF TypeOK
  <2>2. pc' \in [Writers -> Labels]
    BY DEF TypeOK, Labels
  <2>3. CASE ListSnapshot(w)
    BY <2>1, <2>2, <2>3 DEF TypeOK
  <2>4. CASE ListPage(w)
    BY <2>1, <2>2, <2>4 DEF TypeOK
  <2> QED BY <2>3, <2>4
<1>3. OthersSame(w)
  BY DEF OthersSame, TypeOK
<1>4. Exclusion'
  BY DEF Exclusion, RunHeldBy, SlotsHeldBy, HasPending
<1>5. CleanUntilWrite!(w)'
  BY <1>1 DEF Clean, Outside, Fenced
<1>6. PendingShape!(w)' /\ SlotBound!(w)'
  BY <1>1 DEF Clean, Outside, HasPending, NoEvents
<1>7. RunKnown!(w)' /\ FenceHeld!(w)'
  BY <1>1 DEF Clean, Outside, RunKnown
<1>8. w \in Orchestrators => KnownBound!(w)' /\ SnapshotNeverAhead!(w)'
  BY SMTT(30) DEF TypeOK, KnownBound, SnapshotNeverAhead
<1> HIDE DEF IInv
<1> QED BY <1>2, <1>3, <1>4, <1>5, <1>6, <1>7, <1>8, FrameIInv

(* advanceFence moves the count only from the expected value.              *)
LEMMA AdvanceFenceIInv ==
  ASSUME IInv, NEW w \in Writers, AdvanceFence(w)
  PROVE  IInv'
<1>1. CASE Abandon(w)
  BY <1>1, RollbackIInv DEF Abandon
<1>2. CASE /\ SeqSeen(w) = known[w]
           /\ newSeq' = [newSeq EXCEPT ![w] = known[w] + 1]
           /\ Goto(w, "commit")
           /\ UNCHANGED <<rows, call, ins, newStatus, newStep, locked, known, view>>
  <2> USE <1>2 DEF IInv, Goto, rows, call
  <2>1. /\ pc[w] = "advance" /\ pc'[w] = "commit" /\ newSeq'[w] = known[w] + 1
        /\ known[w] \in Nat /\ seq \in Nat
    BY DEF AdvanceFence, TypeOK
  <2>2. TypeOK'
    BY SMTT(30), <2>1 DEF TypeOK, Labels
  <2>3. OthersSame(w)
    BY DEF OthersSame, TypeOK
  <2>4. Exclusion'
    <3>1. ASSUME NEW v \in Writers, v # w PROVE ~SlotsHeldBy(v)
      BY <2>1, <3>1 DEF AdvanceFence, Runnable, WaitsFor
    <3> QED BY SMTT(30), <2>3, <3>1 DEF Exclusion, RunHeldBy, SlotsHeldBy, HasPending, OthersSame
  <2>5. CleanUntilWrite!(w)'
    BY <2>1 DEF CleanUntilWrite, Clean, Outside, PendingShape
  <2>6. Fenced(w) /\ HasPending(w) /\ (Creating(w) \/ Top # 0)
    BY <2>1 DEF PendingShape
  <2>7. Creating(w) <=> Creating(w)'
    BY SMTT(30), <2>1, <2>6 DEF Creating, Top, FenceHeld
  <2>8. PendingShape!(w)'
    BY <2>1, <2>7 DEF PendingShape, HasPending, Top, EventOf
  <2>9. SlotBound!(w)' /\ RunKnown!(w)'
    BY <2>1 DEF RunKnown, HasPending
  <2>10. FenceHeld!(w)'
    <3>1. CASE Creating(w)
      <4>1. newSeq[w] # 0
        BY <3>1 DEF Creating
      <4>2. newSeq[w] = 1 /\ known[w] = 1
        BY <2>1, <3>1, <4>1 DEF FenceHeld, SeqSeen
      <4> QED BY SMTT(30), <2>1, <2>7, <3>1, <4>2 DEF FenceHeld
    <3>2. CASE ~Creating(w)
      <4>1. newSeq[w] = 0 /\ known[w] = seq /\ Top' # 0
        BY <2>1, <2>6, <3>2 DEF FenceHeld, SeqSeen, Top
      <4> QED BY SMTT(30), <2>1, <2>7, <3>2, <4>1 DEF FenceHeld
    <3> QED BY <3>1, <3>2
  <2>11. w \in Orchestrators => KnownBound!(w)' /\ SnapshotNeverAhead!(w)'
    BY <2>1 DEF KnownBound, SnapshotNeverAhead
  <2>12. UNCHANGED <<seq, log>> /\ (status' = "absent" <=> status = "absent")
    OBVIOUS
  <2> HIDE DEF IInv
  <2> QED BY <2>2, <2>3, <2>4, <2>5, <2>8, <2>9, <2>10, <2>11, <2>12, FrameIInv
<1> QED BY <1>1, <1>2 DEF AdvanceFence

(* The entity write touches no event and no count.                         *)
LEMMA UpdateEntityIInv ==
  ASSUME IInv, NEW w \in Writers, UpdateEntity(w)
  PROVE  IInv'
<1> USE DEF IInv, UpdateEntity, InsertStep, UpdateRun, Goto, rows, call
<1>1. /\ pc[w] = "update" /\ pc'[w] = (IF Matches(w) THEN "pick" ELSE "recheck")
      /\ op[w] \in EventTypes \ {"run_created"}
  BY DEF TypeOK, RunKnown, Matches, TerminalOps
<1>2. Matches(w) => status # "absent" \/ HasPending(w)
  BY <1>1 DEF Matches, RunKnown, StatusSeen
<1>3. ~Matches(w) => ~HasPending(w)
  BY <1>1 DEF PendingShape, Matches, TerminalOps
<1>4. op[w] # "step_created" => StatusOf(op[w]) \in Statuses \ {"absent", "none"}
  BY <1>1 DEF EventTypes, TerminalOps, StatusOf, Statuses, Terminal
<1>5. UNCHANGED <<seq, log>> /\ (status' = "absent" <=> status = "absent")
  BY <1>1, <1>2, <1>4 DEF CleanUntilWrite, Clean, HasPending, NoEvents
<1>6. TypeOK'
  <2>1. pc' \in [Writers -> Labels]
    BY <1>1 DEF TypeOK, Labels
  <2>2. status' \in Statuses /\ steps' \in BOOLEAN
    BY <1>4 DEF TypeOK
  <2>3. newStatus' \in [Writers -> Statuses \cup {"none"}]
    BY <1>4 DEF TypeOK
  <2>4. newStep' \in [Writers -> BOOLEAN]
    BY DEF TypeOK
  <2> QED BY <2>1, <2>2, <2>3, <2>4 DEF TypeOK
<1>7. OthersSame(w)
  BY DEF OthersSame, TypeOK
<1>8. newStatus'[w] = newStatus[w] \/ (Fenced(w) /\ newStatus'[w] \notin {"absent", "none"})
  BY <1>4 DEF TypeOK
<1>9. ~Fenced(w) => newStep'[w] = newStep[w]
  BY DEF TypeOK
<1>10. Exclusion'
  <2>1. ASSUME NEW v \in Writers, v # w, newStatus'[w] # newStatus[w] PROVE ~RunHeldBy(v)
    <3>1. op[w] # "step_created" /\ Matches(w)
      BY <2>1
    <3>2. CASE status # "absent"
      BY <1>1, <2>1, <3>1, <3>2 DEF Runnable, WaitsFor
    <3>3. CASE status = "absent"
      <4>1. RunHeldBy(w)
        BY <1>1, <1>2, <3>1, <3>3 DEF PendingShape, Creating, RunHeldBy
      <4> QED BY <2>1, <4>1 DEF Exclusion
    <3> QED BY <3>2, <3>3
  <2> QED BY SMTT(30), <1>7, <2>1 DEF Exclusion, RunHeldBy, SlotsHeldBy, HasPending, OthersSame
<1>11. CleanUntilWrite!(w)'
  BY <1>1, <1>8, <1>9 DEF CleanUntilWrite, Clean, Outside
<1>12. Creating(w) => Creating(w)'
  BY <1>5, <1>8 DEF Creating, Top
<1>13. PendingShape!(w)' /\ SlotBound!(w)'
  BY <1>1, <1>3, <1>12 DEF PendingShape, HasPending
<1>14. RunKnown!(w)'
  BY <1>1, <1>2, <1>5, <1>8 DEF RunKnown, HasPending, EventTypes, TerminalOps
<1>15. FenceHeld!(w)'
  BY <1>1, <1>3, <1>12 DEF FenceHeld, PendingShape, HasPending, Creating
<1>16. w \in Orchestrators => KnownBound!(w)' /\ SnapshotNeverAhead!(w)'
  BY <1>1 DEF KnownBound, SnapshotNeverAhead
<1> HIDE DEF IInv, UpdateEntity, InsertStep, UpdateRun
<1> QED BY <1>5, <1>6, <1>7, <1>10, <1>11, <1>13, <1>14, <1>15, <1>16, FrameIInv

(* An INSERT that finds its slot free and nobody waiting on it appends     *)
(* right behind the committed slots, and nobody else has events pending.   *)
LEMMA FreeSlot ==
  ASSUME IInv, NEW w \in Writers, pc[w] = "insert", Runnable(w),
         slot[w] \notin DOMAIN log
  PROVE  /\ \A v \in Writers : v # w => ~HasPending(v)
         /\ ~HasPending(w) => slot[w] = Top + 1 /\ Top # 0
         /\ HasPending(w) => slot[w] = 2 /\ DOMAIN ins[w] = {1} /\ Creating(w)
                            /\ newSeq[w] = 1 /\ op[w] = "run_started"
<1>1. Top \in Nat /\ DOMAIN log = 1..Top
  BY DEF IInv, Dense
<1>2. ~HasPending(w) => slot[w] = Top + 1 /\ Top # 0
  BY SMTT(30), <1>1 DEF IInv, SlotBound, RunKnown, RowsAgree
<1>3. HasPending(w) => slot[w] = 2 /\ DOMAIN ins[w] = {1} /\ Creating(w)
                       /\ newSeq[w] = 1 /\ op[w] = "run_started"
  BY DEF IInv, SlotBound, PendingShape, RunKnown
<1>4. ASSUME NEW v \in Writers, v # w, HasPending(v) PROVE FALSE
  <2>1. slot[w] \notin DOMAIN ins[v]
    BY <1>4 DEF Runnable, WaitsFor
  <2>2. ~HasPending(w)
    BY <1>4 DEF IInv, Exclusion
  <2>3. ~Creating(v)
    BY <1>2, <2>2 DEF Creating
  <2> QED BY <1>2, <1>4, <2>1, <2>2, <2>3 DEF IInv, PendingShape
<1> QED BY <1>2, <1>3, <1>4

(* A fenced insertEventRow stages the event behind the log's end.          *)
LEMMA InsertFencedIInv ==
  ASSUME IInv, NEW w \in Writers, pc[w] = "insert", Runnable(w),
         slot[w] \notin DOMAIN log, ~Duplicate(w), Fenced(w),
         ins' = [ins EXCEPT ![w] = Put(@, slot[w], EventOf(w))],
         Goto(w, "advance"),
         UNCHANGED <<rows, call, newStatus, newSeq, newStep, locked, known, view>>
  PROVE  IInv'
<1> USE DEF IInv, Goto, rows, call
<1>1. /\ pc'[w] = "advance" /\ ins'[w] = Put(ins[w], slot[w], EventOf(w))
      /\ slot[w] \in Nat /\ known[w] \in Nat /\ view[w] \in SUBSET Nat
      /\ op[w] \in EventTypes
  BY DEF TypeOK, RunKnown
<1>2. /\ \A v \in Writers : v # w => ~HasPending(v)
      /\ ~HasPending(w) => slot[w] = Top + 1 /\ Top # 0
      /\ HasPending(w) => slot[w] = 2 /\ DOMAIN ins[w] = {1} /\ Creating(w)
                         /\ newSeq[w] = 1 /\ op[w] = "run_started"
  <2> HIDE DEF IInv
  <2> QED BY FreeSlot
<1>3. /\ DOMAIN ins'[w] = DOMAIN ins[w] \cup {slot[w]}
      /\ ins'[w][slot[w]] = EventOf(w)
      /\ \A s \in DOMAIN ins[w] : s # slot[w] => ins'[w][s] = ins[w][s]
      /\ ins'[w] \in [DOMAIN ins'[w] -> Events]
  <2>1. EventOf(w) \in Events
    BY <1>1 DEF EventOf, Events
  <2>2. ins[w] \in [DOMAIN ins[w] -> Events]
    BY DEF TypeOK
  <2> QED BY SMTT(30), <1>1, <2>1, <2>2 DEF Put
<1>4. OthersSame(w)
  BY DEF OthersSame, TypeOK
<1>5. TypeOK'
  <2>1. ins' = [v \in Writers |-> ins'[v]]
    BY DEF TypeOK
  <2>2. \A v \in Writers : DOMAIN ins'[v] \subseteq Nat /\ ins'[v] \in [DOMAIN ins'[v] -> Events]
    BY <1>1, <1>3, <1>4 DEF TypeOK, OthersSame
  <2> QED BY <2>1, <2>2 DEF TypeOK, Labels
<1>6. Exclusion'
  <2>1. \A v \in Writers : (RunHeldBy(v)' <=> RunHeldBy(v)) /\ (SlotsHeldBy(v)' <=> SlotsHeldBy(v))
    BY DEF RunHeldBy, SlotsHeldBy
  <2>2. \A v \in Writers : v # w => ~HasPending(v)'
    BY <1>2, <1>4 DEF HasPending, OthersSame
  <2>3. Exclusion
    OBVIOUS
  <2> HIDE DEF IInv
  <2> QED BY <2>1, <2>2, <2>3 DEF Exclusion
<1>7. CleanUntilWrite!(w)'
  BY <1>1 DEF CleanUntilWrite, Outside, Fenced
<1>8. HasPending(w) => Creating(w)'
  BY SMTT(30), <1>2, <1>3 DEF Creating, Top
<1>9. ~HasPending(w) => ~Creating(w)' /\ newSeq[w] = 0
  BY <1>2 DEF Creating, Top, FenceHeld
<1>10. EventOf(w)' = EventOf(w)
  BY DEF EventOf
<1>11. PendingShape!(w)'
  <2>0. HasPending(w)'
    BY <1>3 DEF HasPending
  <2>1. op[w] = "step_created" => \A s \in DOMAIN log : log[s].type # "step_created"
    BY DEF Duplicate
  <2>2. CASE HasPending(w)
    BY <1>1, <1>2, <1>3, <1>8, <1>10, <2>0, <2>1, <2>2
  <2>3. CASE ~HasPending(w)
    <3>1. DOMAIN ins'[w] = {slot[w]}
      BY <1>3, <2>3 DEF HasPending
    <3> QED BY <1>1, <1>2, <1>3, <1>10, <2>0, <2>1, <2>3, <3>1 DEF Top
  <2> QED BY <2>2, <2>3
<1>12. SlotBound!(w)' /\ RunKnown!(w)'
  BY <1>1, <1>3 DEF RunKnown, HasPending
<1>13. FenceHeld!(w)'
  BY <1>1, <1>2, <1>8, <1>9 DEF FenceHeld
<1>14. w \in Orchestrators => KnownBound!(w)' /\ SnapshotNeverAhead!(w)'
  BY <1>1 DEF KnownBound, SnapshotNeverAhead
<1>15. UNCHANGED <<seq, log>> /\ (status' = "absent" <=> status = "absent")
  OBVIOUS
<1> HIDE DEF IInv
<1> QED BY <1>4, <1>5, <1>6, <1>7, <1>11, <1>12, <1>13, <1>14, <1>15, FrameIInv
=============================================================================
