-------------------------- MODULE SnapshotRouting --------------------------
(* What the gateway promises of its routing, with the handlers, the cache and  *)
(* the health checker left out: tables are committed one after another, and    *)
(* the runtime registry only ever holds rows that stood together in one        *)
(* committed table, each of them enabled there. It may be an old table, and a  *)
(* later load may install an older one than an earlier load did; it is never   *)
(* a mixture of two tables, and a restart forgets it.                          *)
EXTENDS SQLRepository, Naturals, Sequences

VARIABLES
  history,   \* the tables committed so far, the current one last
  routed     \* the services in the runtime registry

Init == history = <<{}>> /\ routed = {}

Commit ==
  /\ Len(history') = Len(history) + 1
  /\ history' = Append(history, history'[Len(history')])
  /\ IsTable(history'[Len(history')])
  /\ UNCHANGED routed

(* A load that installs what it read of one of the committed tables.           *)
Install ==
  \E i \in 1..Len(history) :
    /\ routed' \in SUBSET EnabledView(history[i])
    /\ UNCHANGED history

Restart == routed' = {} /\ UNCHANGED history

Next == Commit \/ Install \/ Restart

Spec == Init /\ [][Next]_<<history, routed>>

=============================================================================
