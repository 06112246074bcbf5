----------------------------- MODULE AppendLog -----------------------------
(***************************************************************************)
(* What events.create and events.list promise to the orchestrators of a    *)
(* run: one append-only sequence of events, opened by run_created, with a  *)
(* count of in-band positions.  An in-band append is a compare-and-append: *)
(* it carries the count, and its writer has seen every in-band event.      *)
(***************************************************************************)
EXTENDS Integers, Sequences

VARIABLES
  entries,   \* the events, in slot order
  count      \* the in-band count, 0 before the run exists

Init == entries = <<>> /\ count = 0

(* entries grows by one event, New.                                        *)
New == entries'[Len(entries) + 1]

Appends ==
  /\ Len(entries') = Len(entries) + 1
  /\ entries' = Append(entries, New)
  /\ New.type # "run_created"

SeesInBand(e) ==
  \A i \in 1..Len(entries) : entries[i].seen # 0 => i \in e.view

(* The run appears, in the same step as its first in-band event if the     *)
(* call that creates it is a resilient run_started.                        *)
Open ==
  /\ entries = <<>>
  /\ \/ Len(entries') = 1 /\ count' = 1
     \/ /\ Len(entries') = 2 /\ count' = 2
        /\ entries'[2].type = "run_started" /\ entries'[2].seen = 1
  /\ entries'[1].type = "run_created" /\ entries'[1].seen = 0

OutOfBand == entries # <<>> /\ Appends /\ New.seen = 0 /\ UNCHANGED count

InBand ==
  /\ entries # <<>> /\ Appends
  /\ New.seen = count /\ SeesInBand(New)
  /\ count' = count + 1

Next == Open \/ OutOfBand \/ InBand

Spec == Init /\ [][Next]_<<entries, count>>

=============================================================================
