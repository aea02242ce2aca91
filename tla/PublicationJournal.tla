-------------------------- MODULE PublicationJournal --------------------------
(***************************************************************************)
(* The persisted state machine of one file publication: the codes of       *)
(* FilePublicationJournalState and the transitions the SQLite journal      *)
(* accepts.  A record is either a byte-preserving same-filesystem rename   *)
(* or follows the prepared lifecycle (a verified copy on another           *)
(* filesystem, or a destination artifact that was rendered first).         *)
(***************************************************************************)

States == {"planned", "target_prepared", "target_published",
           "dependent_state_committed", "source_removed",
           "complete", "rolled_back", "needs_reconciliation"}

(* What load_incomplete leaves out: finished records never replay. *)
Settled == {"complete", "rolled_back"}

(* Nothing leaves these states. *)
Final == Settled \cup {"needs_reconciliation"}

(* The failure states a record can be closed with. *)
FailureStates == {"rolled_back", "needs_reconciliation"}

ForwardStep(prepared, from, to) ==
    \/ from = "planned" /\ to = IF prepared THEN "target_prepared"
                                            ELSE "target_published"
    \/ from = "target_prepared" /\ prepared /\ to = "target_published"
    \/ from = "target_published" /\ to = "dependent_state_committed"
    \/ from = "dependent_state_committed"
          /\ to = IF prepared THEN "source_removed" ELSE "complete"
    \/ from = "source_removed" /\ prepared /\ to = "complete"

RollBackStep(prepared, from) ==
    \/ from \in {"planned", "target_published"}
    \/ from = "target_prepared" /\ prepared

LegalTransition(prepared, from, to) ==
    \/ to = "needs_reconciliation" /\ from \notin Final
    \/ to = "rolled_back" /\ RollBackStep(prepared, from)
    \/ ForwardStep(prepared, from, to)

(* The states a record of either lifecycle can hold. *)
StatesOf(prepared) ==
    IF prepared THEN States ELSE States \ {"target_prepared", "source_removed"}
===============================================================================
