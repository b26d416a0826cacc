------------------------------ MODULE HostCert ------------------------------
(***************************************************************************)
(* Certificate provisioning as the hosts carry it out: the Linux installer   *)
(* (packaging/linux/installer/src/main.rs) and the macOS host                *)
(* (hosts/macos/src/host_cert.rs) publish under a journal and recover an     *)
(* interrupted publication first; `arcen-pier new-host-cert` on Linux         *)
(* (hosts/linux/src/host_cert.rs) publishes file by file without one.        *)
(* A step is one file operation, and the process may die after any.          *)
(* One process publishes at a time.                                          *)
(***************************************************************************)
EXTENDS Naturals, Sequences, FiniteSets

CONSTANTS Publishers,      \* of {"installer", "macos", "command"}
          Absent, MaxIssued,
          MaxCrashes, MaxFaults

VARIABLES file, backup,    \* the managed files, their backups under the journal's id
          journal,         \* Absent or [phase, existed]
          operators,       \* the initial certificate is an operator's, not ours
          request, who,    \* what was asked for, and of which program
          pc, i,           \* its step, and the file it is at
          fresh,           \* the certificate and key it publishes
          incomplete,      \* roll_back: failures is not empty
          issued, crashes, faults

disk == <<file, backup, journal>>
asked == <<operators, request, who>>
certVars == <<disk, asked, pc, i, fresh, incomplete, issued, crashes, faults>>

Order == <<"key", "crt", "pin", "spki", "marker">>
Files == {Order[n] : n \in 1 .. Len(Order)}
NoFiles == [f \in Files |-> Absent]
Present(f) == file[f] # Absent
This == Order[i]

Requests == [installer |-> {"Ensure", "Rekey"},
             macos |-> {"Ensure", "Renew", "Rekey", "AdoptLegacy"},
             command |-> {"Ensure", "Renew", "Rekey", "AdoptLegacy"}]

\* What a file may hold: a key, or a certificate and its key.
Contents == Nat \cup (Nat \X Nat)
Journals == [phase : {"Prepared", "Committed"}, existed : [Files -> BOOLEAN]]

ASSUME AbsentAssumption == Absent \notin Contents /\ Absent \notin Journals
ASSUME IssuedAssumption == MaxIssued \in Nat
ASSUME PublishersAssumption == Publishers \subseteq DOMAIN Requests

-----------------------------------------------------------------------------
(* The shared decisions. *)

\* inspect: the marker decides whose material it is.
Ownership ==
    IF ~Present("marker") THEN "Foreign"
    ELSE IF file["marker"] = file["crt"] THEN "Owned" ELSE "Ambiguous"

\* plan: what to do about the material found.
Plan(req, valid, due, legacy) ==
    IF Present("key") # Present("crt") THEN "Refused"
    ELSE IF ~Present("key") THEN IF req = "Ensure" THEN "CreateNew" ELSE "Refused"
    ELSE IF req = "AdoptLegacy"
    THEN IF Ownership = "Foreign" THEN "AdoptAndRenew" ELSE "Refused"
    ELSE IF req = "Ensure" /\ Ownership = "Foreign" /\ legacy THEN "AdoptAndRenew"
    ELSE IF Ownership # "Owned"
    THEN IF req = "Ensure" /\ valid THEN "KeepExisting" ELSE "Refused"
    ELSE IF req = "Rekey" THEN "ReplaceKeyAndCertificate"
    ELSE IF req = "Renew" \/ due THEN "RenewPreservingKey"
    ELSE IF valid THEN "KeepExisting" ELSE "Refused"

NewKey(action) == action \in {"CreateNew", "ReplaceKeyAndCertificate"}

\* Mutant: an interrupted publication is kept.
RecoverFileForward(f) ==
    IF journal.phase = "Committed" \/ Present(f) THEN "RequirePublished"
    ELSE IF backup[f] # Absent THEN "RestoreBackup"
    ELSE IF journal.existed[f] THEN "RequireUntouched" ELSE "RemoveFile"

\* TransactionJournal::recover_file
RecoverFile(f) ==
    IF journal.phase = "Committed" THEN "RequirePublished"
    ELSE IF backup[f] # Absent THEN "RestoreBackup"
    ELSE IF journal.existed[f] THEN "RequireUntouched" ELSE "RemoveFile"

-----------------------------------------------------------------------------
(* Steps. *)

Proceed(step) == pc' = step /\ i' = 1
NextFile(step, after) ==
    IF i < Len(Order) THEN pc' = step /\ i' = i + 1 ELSE Proceed(after)
Set(f, content) == file' = [file EXCEPT ![f] = content]
Fault == faults < MaxFaults /\ faults' = faults + 1
Same == UNCHANGED <<asked, fresh, incomplete, issued, crashes>>

\* A run starts; the journalled programs recover first.
Start ==
    /\ pc = "idle"
    /\ \E w \in Publishers : who' = w /\ request' \in Requests[w]
    /\ Proceed(IF journal # Absent /\ who' # "command" THEN "recover" ELSE "plan")
    /\ UNCHANGED <<disk, operators, fresh, incomplete, issued, crashes, faults>>

\* recover_interrupted, one managed file.
Recover ==
    /\ pc = "recover"
    /\ LET decision == RecoverFile(This) IN
       \/ /\ decision \in {"RequirePublished", "RequireUntouched"}
          /\ IF Present(This) THEN NextFile("recover", "clear") ELSE Proceed("idle")
          /\ backup' = [backup EXCEPT ![This] = Absent]
          /\ UNCHANGED <<file, faults>>
       \/ /\ decision = "RestoreBackup"
          /\ Set(This, Absent)
          /\ pc' = "restore" /\ UNCHANGED <<backup, i, faults>>
       \/ /\ decision = "RemoveFile"
          /\ NextFile("recover", "clear")
          /\ Set(This, Absent)
          /\ UNCHANGED <<backup, faults>>
    /\ UNCHANGED journal /\ Same

Restore ==
    /\ pc = "restore"
    /\ \/ /\ Set(This, backup[This])
          /\ backup' = [backup EXCEPT ![This] = Absent]
          /\ NextFile("recover", "clear") /\ UNCHANGED faults
       \/ Fault /\ Proceed("idle") /\ UNCHANGED <<file, backup>>
    /\ UNCHANGED journal /\ Same

\* The journal goes last, after recovery, commit or roll-back.
ClearJournal ==
    /\ pc \in {"clear", "done", "undone"}
    /\ \/ journal' = Absent /\ Proceed(IF pc = "clear" THEN "plan" ELSE "idle") /\ UNCHANGED faults
       \/ Fault /\ Proceed("idle") /\ UNCHANGED journal
    /\ UNCHANGED <<file, backup>> /\ Same

\* The certificate's validity and whether it has the profile of older releases
\* are what the clock and its text say.
Decide ==
    /\ pc = "plan"
    /\ \E valid, due, legacy \in BOOLEAN :
          LET action == Plan(request, valid, due, legacy /\ ~operators) IN
          IF action \in {"KeepExisting", "Refused"} THEN Proceed("idle") /\ UNCHANGED <<issued, fresh>>
          ELSE /\ issued < MaxIssued /\ issued' = issued + 1
               /\ fresh' = [gen |-> issued', key |-> IF NewKey(action) THEN issued' ELSE file["key"]]
               /\ Proceed(IF who = "installer" THEN "journal"
                       ELSE IF who = "macos" THEN "backup" ELSE "publish")
    /\ UNCHANGED <<disk, asked, incomplete, crashes, faults>>

-----------------------------------------------------------------------------
(* Publication. *)

Published(f) == IF f \in {"key", "spki"} THEN fresh.key ELSE <<fresh.gen, fresh.key>>

\* Mutant: every file is taken to have been there before.
PreparedAll == [phase |-> "Prepared", existed |-> [f \in Files |-> TRUE]]

Prepared == [phase |-> "Prepared", existed |-> [f \in Files |-> Present(f)]]
Committed == [phase |-> "Committed", existed |-> [f \in Files |-> Present(f)]]

\* begin: the installer journals before it moves a file; the macOS host, which
\* copies, before it overwrites one.  An error leaves the journal to recovery.
BeginJournal ==
    /\ journal' = Prepared
    /\ Proceed(IF who = "installer" THEN "backup" ELSE "publish")

Begin ==
    /\ pc = "journal"
    /\ \/ BeginJournal /\ UNCHANGED faults
       \/ Fault /\ journal' \in {journal, Prepared} /\ Proceed("idle")
    /\ backup' = IF who = "installer" THEN NoFiles ELSE backup
    /\ UNCHANGED file /\ Same

\* begin: each existing file is moved (installer) or copied (macOS) aside.
Backup ==
    /\ pc = "backup"
    /\ LET before == IF i = 1 THEN NoFiles ELSE backup
           aside == [before EXCEPT ![This] = file[This]]
           taken == file' = IF who = "installer" THEN [file EXCEPT ![This] = Absent] ELSE file
       IN \/ /\ backup' = aside /\ taken
             /\ NextFile("backup", IF who = "installer" THEN "publish" ELSE "journal")
             /\ UNCHANGED faults
          \/ /\ Present(This) /\ Fault
             /\ Proceed(IF who = "installer" THEN "undo" ELSE "idle")
             /\ \/ backup' = aside /\ taken
                \/ backup' = before /\ UNCHANGED file
    /\ UNCHANGED journal /\ Same

\* publish: in order.  Only the installer rewrites a key it keeps.
Publish ==
    /\ pc = "publish"
    /\ LET write == IF This = "key" /\ who # "installer" /\ fresh.key = file["key"]
                    THEN UNCHANGED file ELSE Set(This, Published(This))
       IN \/ /\ write
             /\ NextFile("publish", IF who = "command" THEN "idle" ELSE "commit")
             /\ UNCHANGED faults
          \/ /\ Fault
             /\ write \/ UNCHANGED file
             /\ Proceed(IF who = "command" THEN "idle" ELSE "undo")
    /\ UNCHANGED <<backup, journal>> /\ Same

\* commit: an error returns without a roll-back; recovery reads the journal.
Commit ==
    /\ pc = "commit"
    /\ \/ journal' = Committed /\ Proceed("clean") /\ UNCHANGED faults
       \/ Fault /\ journal' \in {journal, Committed} /\ Proceed("idle")
    /\ UNCHANGED <<file, backup>> /\ Same

Clean ==
    /\ pc = "clean"
    /\ \/ backup' = [backup EXCEPT ![This] = Absent] /\ NextFile("clean", "done") /\ UNCHANGED faults
       \/ /\ backup[This] # Absent /\ Fault /\ UNCHANGED backup
          /\ IF who = "installer" THEN Proceed("idle") ELSE NextFile("clean", "done")
    /\ UNCHANGED <<file, journal>> /\ Same

-----------------------------------------------------------------------------
(* Roll-back after an error. *)

\* roll_back: put each backup back.
Undo ==
    /\ pc = "undo"
    /\ IF backup[This] # Absent THEN Set(This, Absent) /\ pc' = "undo2" /\ UNCHANGED i
       ELSE NextFile("undo", "drop") /\ UNCHANGED file
    /\ UNCHANGED <<backup, journal, asked, fresh, incomplete, issued, crashes, faults>>

UndoRename ==
    /\ pc = "undo2"
    /\ NextFile("undo", "drop")
    /\ \/ /\ Set(This, backup[This]) /\ backup' = [backup EXCEPT ![This] = Absent]
          /\ \/ UNCHANGED <<faults, incomplete>>
             \/ Fault /\ incomplete' = TRUE
       \/ Fault /\ incomplete' = TRUE /\ UNCHANGED <<file, backup>>
    /\ UNCHANGED <<journal, asked, fresh, issued, crashes>>

\* roll_back: remove what was not there before.
Drop ==
    /\ pc = "drop"
    /\ NextFile("drop", "undone?")
    /\ \/ /\ file' = IF journal.existed[This] THEN file ELSE [file EXCEPT ![This] = Absent]
          /\ UNCHANGED <<faults, incomplete>>
       \/ /\ ~journal.existed[This] /\ Present(This)
          /\ Fault /\ incomplete' = TRUE /\ UNCHANGED file
    /\ UNCHANGED <<backup, journal, asked, fresh, issued, crashes>>

\* The installer keeps the journal when something could not be put back.
KeepsJournal == who = "installer" /\ incomplete

Undone ==
    /\ pc = "undone?"
    /\ Proceed(IF KeepsJournal THEN "idle" ELSE "undone")
    /\ incomplete' = FALSE
    /\ UNCHANGED <<disk, asked, fresh, issued, crashes, faults>>

\* The process dies between two file operations.
Crash ==
    /\ pc # "idle" /\ crashes < MaxCrashes
    /\ crashes' = crashes + 1
    /\ Proceed("idle") /\ incomplete' = FALSE
    /\ UNCHANGED <<disk, asked, fresh, issued, faults>>

-----------------------------------------------------------------------------
CertInit ==
    /\ file \in {[f \in Files |-> IF f \notin present THEN Absent
                                  ELSE IF f \in {"key", "spki"} THEN 0 ELSE <<0, 0>>] :
                    present \in {{}, {"key", "crt"}, {"key", "crt", "pin", "spki"}, Files}}
    /\ operators \in {FALSE, file["key"] # Absent /\ file["pin"] = Absent}
    /\ backup = NoFiles /\ journal = Absent
    /\ request = "Ensure" /\ who \in Publishers
    /\ pc = "idle" /\ i = 1 /\ fresh = [gen |-> 0, key |-> 0]
    /\ incomplete = FALSE
    /\ issued = 0 /\ crashes = 0 /\ faults = 0

CertNext ==
    \/ Start \/ Recover \/ Restore \/ ClearJournal \/ Decide
    \/ Begin \/ Backup \/ Publish \/ Commit \/ Clean
    \/ Undo \/ UndoRename \/ Drop \/ Undone \/ Crash

CertSpec == CertInit /\ [][CertNext]_certVars

-----------------------------------------------------------------------------
(* Properties. *)

\* The material as recovery would leave it: a prepared publication is undone.
Logical ==
    [f \in Files |-> IF journal = Absent THEN file[f]
                     ELSE IF journal.phase = "Committed" THEN file[f]
                     ELSE IF backup[f] # Absent THEN backup[f]
                     ELSE IF journal.existed[f] THEN file[f] ELSE Absent]

Store == INSTANCE CertStore WITH material <- Logical

\* Whatever file operation the process dies at or fails in, the certificate,
\* its key, the pins and the marker change as one value and the key changes
\* only on request or where there was none: the journalled publication
\* implements CertStore.
PublishesAtomically == Store!Spec

\* recover_interrupted never stops at "cannot restore": a file it requires to
\* be there is there, so an interrupted run never blocks every later one.
RecoveryNeverBlocked ==
    pc = "recover" /\ RecoverFile(This) \in {"RequirePublished", "RequireUntouched"}
        => Present(This)

=============================================================================
