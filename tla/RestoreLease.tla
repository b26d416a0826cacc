---------------------------- MODULE RestoreLease ----------------------------
(***************************************************************************)
(* The restore lease (shared/session/src/restore_lease.rs): the durable      *)
(* record, written before a host resource is changed, from which the          *)
(* original can be put back.  Operators only; the modules of the resources   *)
(* that are redirected under a lease extend this one.                         *)
(***************************************************************************)

Phases == {"Armed", "Applying", "Applied", "Restoring", "Restored", "Conflicted"}
ActivePhases == {"Applying", "Applied", "Restoring"}

\* RestoreLease::arm
Arm(original, target) == [original |-> original, target |-> target, phase |-> "Armed"]

\* The phases from which an event is accepted, and the phase it leads to.
From == [BeginApply        |-> {"Armed", "Applying"},
         ApplySucceeded    |-> {"Applying", "Applied"},
         BeginRestore      |-> ActivePhases,
         RestoreSucceeded  |-> {"Restoring", "Restored"},
         OwnershipConflict |-> ActivePhases \cup {"Conflicted"}]
To == [BeginApply        |-> "Applying",
       ApplySucceeded    |-> "Applied",
       BeginRestore      |-> "Restoring",
       RestoreSucceeded  |-> "Restored",
       OwnershipConflict |-> "Conflicted"]

\* RestoreLease::apply; the guard Accepts is its error return.
Accepts(lease, event) == lease.phase \in From[event]
After(lease, event) == [lease EXCEPT !.phase = To[event]]

\* Mutant: a lease that was only begun counts as unmutated.
DirectiveLax(lease, current) ==
    IF lease.phase \in {"Armed", "Applying"} THEN "RemoveUnmutatedJournal"
    ELSE IF lease.phase = "Restored" \/ (lease.phase \in ActivePhases /\ current = lease.original)
    THEN "RemoveRestoredJournal"
    ELSE IF lease.phase \in ActivePhases /\ current = lease.target THEN "RestoreOriginal"
    ELSE "HoldForOperator"

\* RestoreLease::recovery_directive
Directive(lease, current) ==
    IF lease.phase = "Armed" THEN "RemoveUnmutatedJournal"
    ELSE IF lease.phase = "Restored" \/ (lease.phase \in ActivePhases /\ current = lease.original)
    THEN "RemoveRestoredJournal"
    ELSE IF lease.phase \in ActivePhases /\ current = lease.target THEN "RestoreOriginal"
    ELSE "HoldForOperator"

\* RestoreLease::adjudicate_recovery: an unknown state becomes a conflict.
Adjudicated(lease, current) ==
    IF Directive(lease, current) = "HoldForOperator" THEN [lease EXCEPT !.phase = "Conflicted"]
    ELSE lease
=============================================================================
