----------------------------- MODULE RunLogInv -----------------------------
(***************************************************************************)
(* The inductive invariant behind the safety properties of RunLog: what    *)
(* each writer's open transaction may hold at each of its statements, who  *)
(* may hold a row, and how the rows agree with the log.                    *)
(***************************************************************************)
EXTENDS RunLog

Top == LastSlot(DOMAIN log)

Dense == Top \in Nat /\ DOMAIN log = 1..Top

HasPending(w) == DOMAIN ins[w] # {}

(* Between calls, while listing and before its first write, a writer's     *)
(* transaction has written nothing.                                        *)
Clean(w) ==
  ins[w] = NoEvents /\ newStatus[w] = "none" /\ newSeq[w] = 0 /\ ~newStep[w]

Outside == {"idle", "fence", "page", "relist", "repage"}

CleanUntilWrite ==
  \A w \in Writers :
    /\ pc[w] \in Outside \cup {"validate", "create"} => Clean(w)
    /\ pc[w] \in Outside => ~locked[w]
    /\ ~Fenced(w) => ~locked[w] /\ pc[w] # "fence"
    /\ ~Fenced(w) /\ pc[w] # "created" => Clean(w)

(* The events a transaction has inserted: run_created alone or followed by *)
(* the call's event when it creates the run, else the call's event alone,  *)
(* always right behind the committed slots.                                *)
Creating(w) ==
  /\ Top = 0 /\ status = "absent" /\ 1 \in DOMAIN ins[w]
  /\ ins[w][1] = RunCreatedEvent
  /\ newStatus[w] # "none" /\ newSeq[w] # 0

PendingShape ==
  \A w \in Writers :
    /\ pc[w] \in {"created", "advance", "commit"} => HasPending(w)
    /\ HasPending(w) /\ pc[w] \in {"advance", "commit"} =>
         /\ Fenced(w) /\ ins[w][slot[w]] = EventOf(w)
         /\ \/ DOMAIN ins[w] = {1, 2} /\ slot[w] = 2 /\ Creating(w)
               /\ op[w] = "run_started"
            \/ DOMAIN ins[w] = {slot[w]} /\ slot[w] = Top + 1 /\ Top # 0
         /\ op[w] = "step_created" =>
              \A s \in DOMAIN log : log[s].type # "step_created"
    /\ HasPending(w) /\ pc[w] \notin {"advance", "commit"} =>
         /\ DOMAIN ins[w] = {1} /\ Creating(w) /\ newSeq[w] = 1
         /\ op[w] \in {"run_created", "run_started"}
         /\ pc[w] \in {"created", "update", "pick", "insert"}

(* A slot an INSERT has computed is at most one past the rows it saw.      *)
SlotBound ==
  \A w \in Writers : pc[w] = "insert" =>
    IF HasPending(w) THEN slot[w] = 2 ELSE slot[w] \in 1..(Top + 1)

(* The writers that appended an event know that the run exists, and none   *)
(* of them appends run_created.                                            *)
RunKnown ==
  \A w \in Writers :
    /\ \/ pc[w] \in {"pick", "insert"}
       \/ pc[w] = "update" /\ op[w] \notin TerminalOps
       \/ newStatus[w] # "none"
       => status # "absent" \/ HasPending(w)
    /\ newStatus[w] # "absent"
    /\ op[w] = "step_created" => status # "absent"
    /\ op[w] = "run_created" => pc[w] \in {"create", "created"} /\ ~Fenced(w)
    /\ pc[w] \in {"create", "created"} => op[w] \in {"run_created", "run_started"}
    /\ pc[w] \notin {"idle", "page", "relist", "repage"} => op[w] # "none"

(* A row has one uncommitted writer, and a slot one uncommitted event.     *)
Exclusion ==
  \A v, w \in Writers : v # w =>
    /\ ~(RunHeldBy(v) /\ RunHeldBy(w))
    /\ ~(SlotsHeldBy(v) /\ SlotsHeldBy(w))
    /\ ~(HasPending(v) /\ HasPending(w))

(* Whoever holds the slots row holds the count it expects.                 *)
FenceHeld ==
  \A w \in Writers :
    /\ locked[w] => seq # 0 /\ seq = known[w]
    /\ newSeq[w] # 0 => \/ Creating(w) /\ newSeq[w] = 1 /\ pc[w] # "commit"
                        \/ Creating(w) /\ newSeq[w] = 2 /\ pc[w] = "commit"
                           /\ known[w] = 1
                        \/ ~Creating(w) /\ Top # 0 /\ pc[w] = "commit"
                           /\ known[w] = seq /\ newSeq[w] = seq + 1
    /\ pc[w] = "commit" => newSeq[w] # 0

(* The rows of the run agree on whether it exists.                         *)
RowsAgree == (status = "absent" <=> Top = 0) /\ (seq = 0 <=> Top = 0)

(* A count that was read or committed is never ahead of the row, and what  *)
(* was loaded is in the log.                                               *)
KnownBound ==
  \A w \in Orchestrators :
    (known[w] <= seq \/ known[w] <= 1) /\ view[w] \subseteq DOMAIN log

FirstIsCreated ==
  \A s \in DOMAIN log :
    /\ log[s].type = "run_created" <=> s = 1
    /\ s = 1 => log[s].seen = 0

(* The inductive invariant of the log.                                     *)
IInv ==
  /\ TypeOK /\ Dense /\ CleanUntilWrite /\ PendingShape /\ SlotBound
  /\ RunKnown /\ Exclusion /\ FenceHeld /\ RowsAgree /\ KnownBound
  /\ FirstIsCreated /\ CountMatchesLog /\ NoBlindWrite /\ SnapshotNeverAhead
  /\ StepCreatedOnce

=============================================================================
