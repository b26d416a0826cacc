---------------------------- MODULE JournalProofs ----------------------------
(***************************************************************************)
(* Theorems about what a host changes under a recovery journal.            *)
(*                                                                         *)
(* HostCert, for any number of publications, crashes and failed file       *)
(* operations: recovery is never blocked, whichever program is             *)
(* interrupted, and the journalled publication implements CertStore.  The  *)
(* second holds for the installer whatever fails, and for the macOS host,  *)
(* whose roll-back drops its errors, while at most one operation fails.    *)
(*                                                                         *)
(* TimezoneRedirect, for any zones, watchdogs, restarts and failures: a    *)
(* redirected zone is always journalled with the one to put back.          *)
(***************************************************************************)
EXTENDS HostCert, TimezoneRedirect, TLAPS

-----------------------------------------------------------------------------
(* The files in their order. *)

\* The files a step that goes through them has dealt with.
Handled == {Order[n] : n \in 1 .. i - 1}

\* Going on to the next file, or past the last one.
LEMMA Advances ==
    ASSUME i \in 1 .. 5, NEW step, NEW after, NextFile(step, after)
    PROVE  \/ pc' = step /\ i' \in 1 .. 5 /\ Handled' = Handled \cup {This}
           \/ pc' = after /\ i' = 1 /\ Handled' = {} /\ Files = Handled \cup {This}
<1>1. Len(Order) = 5
  BY Zenon DEF Order
<1>2. CASE i < 5
  BY <1>1, <1>2 DEF NextFile, Handled, This
<1>3. CASE i = 5
  <2>1. pc' = after /\ i' = 1
    BY <1>1, <1>3 DEF NextFile, Proceed
  <2>2. Handled' = {}
    BY <2>1 DEF Handled
  <2>3. Files = Handled \cup {This}
    BY <1>1, <1>3 DEF Files, Handled, This
  <2> QED
    BY Zenon, <2>1, <2>2, <2>3
<1> QED
  BY <1>2, <1>3

\* Starting a pass over the files.
LEMMA Starts ==
    ASSUME NEW step, Proceed(step)
    PROVE  pc' = step /\ i' = 1 /\ Handled' = {}
  BY DEF Proceed, Handled

\* The file a step is at has not been dealt with.
LEMMA ThisFile ==
    ASSUME i \in 1 .. 5
    PROVE  This \in Files /\ This \notin Handled /\ Handled \subseteq Files
           /\ Files = {"key", "crt", "pin", "spki", "marker"}
           /\ (i = 1 => Handled = {})
<1>1. Len(Order) = 5
  BY Zenon DEF Order
<1>2. Files = {"key", "crt", "pin", "spki", "marker"}
  BY <1>1 DEF Files, Order
<1>3. This \in Files /\ Handled \subseteq Files
  BY <1>1 DEF This, Files, Handled
<1>4. \A m, n \in 1 .. 5 : m # n => Order[m] # Order[n]
  BY DEF Order
<1>5. This \notin Handled
  BY <1>4 DEF This, Handled
<1> QED
  BY <1>2, <1>3, <1>5 DEF Handled

-----------------------------------------------------------------------------
(* The invariant of recovery. *)

Numbers == 0 .. MaxIssued
Steps == {"idle", "recover", "restore", "clear", "plan", "journal", "backup", "publish", "commit",
          "clean", "done", "undo", "undo2", "drop", "undone?", "undone"}

\* What the files, their backups, the journal and the run hold.
TypeOK ==
    /\ file \in [Files -> Contents \cup {Absent}] /\ file["key"] \in Numbers \cup {Absent}
    /\ backup \in [Files -> Contents \cup {Absent}] /\ backup["key"] \in Numbers \cup {Absent}
    /\ journal \in Journals \cup {Absent}
    /\ operators \in BOOLEAN /\ who \in Publishers
    /\ request \in {"Ensure", "Renew", "Rekey", "AdoptLegacy"}
    /\ pc \in Steps /\ i \in 1 .. 5
    /\ fresh \in [gen : Numbers, key : Numbers]
    /\ incomplete \in BOOLEAN /\ issued \in Numbers

IsPrepared == journal # Absent /\ journal.phase = "Prepared"
IsCommitted == journal # Absent /\ journal.phase = "Committed"
Saved(f) == backup[f] # Absent

\* A committed journal stands for a whole set; a prepared one for files that are
\* each in place or saved.
Recoverable ==
    /\ IsCommitted => \A f \in Files : Present(f)
    /\ IsPrepared => \A f \in Files : journal.existed[f] => Present(f) \/ Saved(f)

\* What each step of the journalled programs goes by.
Stages ==
    /\ pc \in {"recover", "restore"} => who # "command" /\ journal # Absent
    /\ pc \in {"journal", "backup", "commit", "undo", "undo2", "drop"} => who # "command"
    /\ pc \in {"plan", "journal"} /\ who # "command" => journal = Absent
    /\ pc = "backup" => IF who = "installer" THEN IsPrepared ELSE journal = Absent
    /\ pc = "publish" /\ who # "command" => IsPrepared
    /\ pc \in {"restore", "commit", "undo", "undo2", "drop"} => IsPrepared
    /\ pc = "clean" => IsCommitted
    /\ pc \in {"restore", "undo2"} => Saved(This)
    /\ pc = "backup" /\ who = "installer" =>
         \A f \in Files \ Handled : journal.existed[f] => Present(f)
    /\ pc = "publish" /\ who # "command" => \A f \in Handled : Present(f)
    /\ pc = "commit" => \A f \in Files : Present(f)

\* The invariant of recovery, inductive for every publisher.
RInv == TypeOK /\ Recoverable /\ Stages

\* A file, or its backup, is changed to a content of its kind.
LEMMA SetType ==
    ASSUME TypeOK, NEW f \in Files, NEW c \in Contents \cup {Absent},
           f = "key" => c \in Numbers \cup {Absent}
    PROVE  /\ [file EXCEPT ![f] = c] \in [Files -> Contents \cup {Absent}]
           /\ [file EXCEPT ![f] = c]["key"] \in Numbers \cup {Absent}
           /\ [backup EXCEPT ![f] = c] \in [Files -> Contents \cup {Absent}]
           /\ [backup EXCEPT ![f] = c]["key"] \in Numbers \cup {Absent}
           /\ [file EXCEPT ![f] = c][f] = c /\ [backup EXCEPT ![f] = c][f] = c
           /\ \A g \in Files \ {f} : /\ [file EXCEPT ![f] = c][g] = file[g]
                                     /\ [backup EXCEPT ![f] = c][g] = backup[g]
<1>1. "key" \in Files
  BY Zenon, ThisFile DEF TypeOK
<1> QED
  BY Zenon, <1>1 DEF TypeOK

\* A file, or its backup, is removed.
LEMMA RemovedType ==
    ASSUME TypeOK, NEW f \in Files
    PROVE  /\ file \in [Files -> Contents \cup {Absent}] /\ file["key"] \in Numbers \cup {Absent}
           /\ [file EXCEPT ![f] = Absent] \in [Files -> Contents \cup {Absent}]
           /\ [file EXCEPT ![f] = Absent]["key"] \in Numbers \cup {Absent}
           /\ backup \in [Files -> Contents \cup {Absent}] /\ backup["key"] \in Numbers \cup {Absent}
           /\ [backup EXCEPT ![f] = Absent] \in [Files -> Contents \cup {Absent}]
           /\ [backup EXCEPT ![f] = Absent]["key"] \in Numbers \cup {Absent}
<1>1. Absent \in Contents \cup {Absent} /\ (f = "key" => Absent \in Numbers \cup {Absent})
  BY Zenon
<1> QED
  BY Zenon, <1>1, SetType DEF TypeOK

\* What is published is there.
LEMMA PublishedType ==
    ASSUME TypeOK, NEW f \in Files
    PROVE  /\ Published(f) \in Contents /\ Published(f) # Absent
           /\ f = "key" => Published(f) \in Numbers
           /\ fresh.key \in Numbers /\ fresh.key # Absent
<1>1. fresh.key \in Numbers /\ fresh.gen \in Numbers /\ Numbers \subseteq Nat
  BY IssuedAssumption DEF TypeOK, Numbers
<1>2. Published(f) \in Contents
  BY Zenon, <1>1 DEF Published, Contents
<1> QED
  BY Zenon, <1>1, <1>2, AbsentAssumption DEF Published, Contents

\* The journal at the start of a publication, and at its commit.
LEMMA JournalType ==
    /\ Prepared \in Journals /\ Prepared # Absent /\ Prepared.phase = "Prepared"
    /\ \A f \in Files : Prepared.existed[f] = Present(f)
    /\ Committed \in Journals /\ Committed # Absent /\ Committed.phase = "Committed"
<1>1. [f \in Files |-> Present(f)] \in [Files -> BOOLEAN]
  BY Zenon DEF Present
<1> QED
  BY <1>1, AbsentAssumption DEF Prepared, Committed, Journals

-----------------------------------------------------------------------------
(* Every step keeps it. *)

\* The initial states: the releases' sets of files, or none, and no journal.
LEMMA RInit ==
    ASSUME CertInit
    PROVE  RInv
<1>1. Files = {"key", "crt", "pin", "spki", "marker"}
  BY ThisFile DEF CertInit
<1>2. PICK present \in {{}, {"key", "crt"}, {"key", "crt", "pin", "spki"}, Files} :
        file = [f \in Files |-> IF f \notin present THEN Absent
                                ELSE IF f \in {"key", "spki"} THEN 0 ELSE <<0, 0>>]
  BY Zenon DEF CertInit
<1>3. 0 \in Contents /\ <<0, 0>> \in Contents /\ 0 \in Numbers
  BY IssuedAssumption DEF Contents, Numbers
<1>4. file \in [Files -> Contents \cup {Absent}] /\ file["key"] \in Numbers \cup {Absent}
  BY Zenon, <1>1, <1>2, <1>3
<1>5. backup \in [Files -> Contents \cup {Absent}] /\ backup["key"] \in Numbers \cup {Absent}
  BY Zenon, <1>1 DEF CertInit, NoFiles
<1>6. journal = Absent /\ pc = "idle" /\ i = 1 /\ incomplete = FALSE /\ issued = 0
      /\ fresh = [gen |-> 0, key |-> 0] /\ who \in Publishers /\ operators \in BOOLEAN
      /\ request = "Ensure"
  BY Zenon DEF CertInit
<1>7. fresh \in [gen : Numbers, key : Numbers] /\ issued \in Numbers
  BY Zenon, <1>3, <1>6
<1>8. pc \in Steps /\ i \in 1 .. 5
  BY <1>6 DEF Steps
<1>9. incomplete \in BOOLEAN
  BY <1>6, Zenon
<1>10. TypeOK
  BY <1>4, <1>5, <1>6, <1>7, <1>8, <1>9, Zenon DEF TypeOK
<1> QED
  BY Zenon, <1>6, <1>10 DEF RInv, Recoverable, Stages, IsPrepared, IsCommitted

\* A run starts: with the recovery, if a journal is there and it knows of it.
LEMMA RStart ==
    ASSUME RInv, Start
    PROVE  RInv'
<1>1. PICK w \in Publishers : who' = w /\ request' \in Requests[w]
  BY Zenon DEF Start
<1>2. request' \in {"Ensure", "Renew", "Rekey", "AdoptLegacy"}
  BY <1>1, PublishersAssumption DEF Requests
<1>3. /\ i' = 1 /\ pc' = (IF journal # Absent /\ who' # "command" THEN "recover" ELSE "plan")
      /\ UNCHANGED <<file, backup, journal, operators, fresh, incomplete, issued>>
  BY Zenon DEF Start, Proceed, disk
<1>4. TypeOK'
  BY <1>1, <1>2, <1>3 DEF RInv, TypeOK, Steps
<1>5. Recoverable'
  BY Zenon, <1>3 DEF RInv, Recoverable, IsPrepared, IsCommitted, Present, Saved
<1>6. Stages'
  BY Zenon, <1>3 DEF Stages
<1> QED
  BY Zenon, <1>4, <1>5, <1>6 DEF RInv

\* A step that ends the run, or goes on to plan or to clear the journal, and leaves the
\* files alone.
LEMMA RQuiet ==
    ASSUME RInv, UNCHANGED <<file, backup, operators, request, who>>,
           fresh' \in [gen : Numbers, key : Numbers], incomplete' \in BOOLEAN, issued' \in Numbers,
           i' = 1,
           \/ pc' \in {"idle", "clear", "done", "undone?", "undone"}
              /\ (journal' = journal \/ journal' = Absent)
           \/ pc' = "plan" /\ journal' = Absent
    PROVE  RInv'
<1>1. TypeOK'
  BY DEF RInv, TypeOK, Steps
<1>2. Recoverable'
  BY Zenon DEF RInv, Recoverable, IsPrepared, IsCommitted, Present, Saved
<1>3. Stages'
  BY Zenon DEF Stages
<1> QED
  BY Zenon, <1>1, <1>2, <1>3 DEF RInv

\* recover_interrupted never finds a required file missing.
LEMMA NeverBlocked ==
    ASSUME RInv, pc = "recover", RecoverFile(This) \in {"RequirePublished", "RequireUntouched"}
    PROVE  Present(This)
<1>1. This \in Files /\ journal # Absent /\ journal \in Journals
  BY Zenon, ThisFile DEF RInv, TypeOK, Stages
<1>2. journal.phase \in {"Prepared", "Committed"}
  BY Zenon, <1>1 DEF Journals
<1> QED
  BY Zenon, <1>1, <1>2 DEF RInv, Recoverable, IsPrepared, IsCommitted, RecoverFile, Saved

\* One file recovered.
LEMMA RRecover ==
    ASSUME RInv, Recover
    PROVE  RInv'
<1>1. /\ pc = "recover" /\ i \in 1 .. 5 /\ This \in Files /\ journal # Absent
      /\ UNCHANGED <<journal, operators, request, who, fresh, incomplete, issued>>
      /\ who # "command"
  BY Zenon, ThisFile DEF RInv, TypeOK, Stages, Recover, Same, asked
<1>2. journal.phase \in {"Prepared", "Committed"} /\ journal \in Journals
  BY Zenon, <1>1 DEF RInv, TypeOK, Journals
<1>3. CASE RecoverFile(This) \in {"RequirePublished", "RequireUntouched"}
  <2>1. Present(This)
    BY Zenon, <1>1, <1>3, NeverBlocked
  <2>2. NextFile("recover", "clear") /\ backup' = [backup EXCEPT ![This] = Absent] /\ file' = file
    BY Zenon, <1>3, <2>1 DEF Recover
  <2>3. (pc' = "recover" \/ pc' = "clear") /\ i' \in 1 .. 5
    BY <1>1, <2>2, Advances
  <2>4. TypeOK'
    BY Zenon, <1>1, <2>2, <2>3, SetType DEF RInv, TypeOK, Steps
  <2>5. Recoverable'
    BY <1>1, <2>1, <2>2, SetType DEF RInv, Recoverable, IsPrepared, IsCommitted, Present, Saved
  <2>6. Stages'
    BY Zenon, <1>1, <2>3 DEF Stages
  <2> QED
    BY Zenon, <2>4, <2>5, <2>6 DEF RInv
<1>4. CASE RecoverFile(This) = "RestoreBackup"
  <2>1. file' = [file EXCEPT ![This] = Absent] /\ pc' = "restore" /\ UNCHANGED <<backup, i>>
    BY Zenon, <1>4 DEF Recover, Set
  <2>2. IsPrepared /\ Saved(This)
    BY Zenon, <1>1, <1>2, <1>4 DEF RecoverFile, IsPrepared, Saved
  <2>3. TypeOK'
    BY Zenon, <1>1, <2>1, SetType DEF RInv, TypeOK, Steps
  <2>4. Recoverable'
    BY <1>1, <2>1, <2>2, SetType DEF RInv, Recoverable, IsPrepared, IsCommitted, Present, Saved
  <2>5. Stages'
    BY Zenon, <1>1, <2>1, <2>2 DEF Stages, IsPrepared, Saved, This
  <2> QED
    BY Zenon, <2>3, <2>4, <2>5 DEF RInv
<1>5. CASE RecoverFile(This) = "RemoveFile"
  <2>1. NextFile("recover", "clear") /\ file' = [file EXCEPT ![This] = Absent] /\ UNCHANGED backup
    BY Zenon, <1>5 DEF Recover, Set
  <2>2. (pc' = "recover" \/ pc' = "clear") /\ i' \in 1 .. 5
    BY <1>1, <2>1, Advances
  <2>3. IsPrepared /\ ~journal.existed[This]
    BY Zenon, <1>1, <1>2, <1>5 DEF RecoverFile, IsPrepared
  <2>4. TypeOK'
    BY Zenon, <1>1, <2>1, <2>2, SetType DEF RInv, TypeOK, Steps
  <2>5. Recoverable'
    BY <1>1, <2>1, <2>3, SetType DEF RInv, Recoverable, IsPrepared, IsCommitted, Present, Saved
  <2>6. Stages'
    BY Zenon, <1>1, <2>2 DEF Stages
  <2> QED
    BY Zenon, <2>4, <2>5, <2>6 DEF RInv
<1> QED
  BY Zenon, <1>3, <1>4, <1>5 DEF Recover

\* A backup renamed back, by recovery or by the roll-back.
LEMMA RPutBack ==
    ASSUME RInv, IsPrepared, Saved(This), who # "command",
           file' = [file EXCEPT ![This] = backup[This]],
           backup' = [backup EXCEPT ![This] = Absent],
           UNCHANGED <<journal, operators, request, who, fresh, issued>>, incomplete' \in BOOLEAN,
           i' \in 1 .. 5, pc' \in {"recover", "clear", "undo", "drop"}
    PROVE  RInv'
<1>1. This \in Files
  BY Zenon, ThisFile DEF RInv, TypeOK
<1>2. backup[This] \in Contents \cup {Absent} /\ (This = "key" => backup[This] \in Numbers \cup {Absent})
  BY Zenon, <1>1 DEF RInv, TypeOK
<1>3. TypeOK'
  BY Zenon, <1>1, <1>2, SetType DEF RInv, TypeOK, Steps
<1>4. /\ file'[This] = backup[This] /\ backup'[This] = Absent
      /\ \A g \in Files \ {This} : file'[g] = file[g] /\ backup'[g] = backup[g]
  BY <1>1, <1>2, SetType DEF RInv
<1>5. Recoverable'
  BY Zenon, <1>1, <1>4 DEF RInv, Recoverable, IsPrepared, IsCommitted, Present, Saved
<1>6. Stages'
  BY Zenon DEF Stages, IsPrepared
<1> QED
  BY Zenon, <1>3, <1>5, <1>6 DEF RInv

\* recover_interrupted renames a backup into place, or fails to.
LEMMA RRestore ==
    ASSUME RInv, Restore
    PROVE  RInv'
<1>1. /\ IsPrepared /\ Saved(This) /\ who # "command" /\ i \in 1 .. 5
      /\ UNCHANGED <<journal, operators, request, who, fresh, incomplete, issued>>
  BY Zenon DEF RInv, TypeOK, Stages, Restore, Same, asked
<1>2. CASE /\ Set(This, backup[This]) /\ backup' = [backup EXCEPT ![This] = Absent]
           /\ NextFile("recover", "clear")
  <2>1. i' \in 1 .. 5 /\ pc' \in {"recover", "clear"}
    BY <1>1, <1>2, Advances
  <2> QED
    BY Zenon, <1>1, <1>2, <2>1, RPutBack DEF Set, RInv, TypeOK
<1>3. CASE Proceed("idle") /\ UNCHANGED <<file, backup>>
  BY Zenon, <1>1, <1>3, Starts, RQuiet DEF RInv, TypeOK
<1> QED
  BY Zenon, <1>2, <1>3 DEF Restore

\* recover_interrupted removes the journal once every file is dealt with.
LEMMA RClearJournal ==
    ASSUME RInv, ClearJournal
    PROVE  RInv'
<1>1. UNCHANGED <<file, backup, operators, request, who, fresh, incomplete, issued>>
  BY Zenon DEF ClearJournal, Same, asked
<1>2. \/ journal' = Absent /\ Proceed(IF pc = "clear" THEN "plan" ELSE "idle")
      \/ Proceed("idle") /\ UNCHANGED journal
  BY Zenon DEF ClearJournal
<1>3. i' = 1 /\ (\/ pc' = "idle" /\ (journal' = journal \/ journal' = Absent)
                 \/ pc' = "plan" /\ journal' = Absent)
  BY Zenon, <1>2 DEF Proceed
<1> QED
  BY Zenon, <1>1, <1>3, RQuiet DEF RInv, TypeOK

\* A renewal keeps a key that is there; every other publication has a new one.
LEMMA DecideType ==
    ASSUME RInv, NEW valid \in BOOLEAN, NEW due \in BOOLEAN, NEW legacy \in BOOLEAN,
           NEW action, action = Plan(request, valid, due, legacy),
           action \notin {"KeepExisting", "Refused"}
    PROVE  /\ NewKey(action) \/ Present("key")
           /\ NewKey(action) => request = "Rekey" \/ ~Present("key")
  BY Zenon DEF Plan, NewKey

\* What ensure finds on disk decides whether it publishes, and what.
LEMMA RDecide ==
    ASSUME RInv, Decide
    PROVE  RInv'
<1>1. /\ pc = "plan" /\ UNCHANGED <<file, backup, journal, operators, request, who, incomplete>>
      /\ who # "command" => journal = Absent
  BY Zenon DEF RInv, Stages, Decide, disk, asked
<1>2. PICK valid, due, legacy \in BOOLEAN :
          LET action == Plan(request, valid, due, legacy /\ ~operators) IN
          IF action \in {"KeepExisting", "Refused"} THEN Proceed("idle") /\ UNCHANGED <<issued, fresh>>
          ELSE /\ issued < MaxIssued /\ issued' = issued + 1
               /\ fresh' = [gen |-> issued', key |-> IF NewKey(action) THEN issued' ELSE file["key"]]
               /\ Proceed(IF who = "installer" THEN "journal"
                          ELSE IF who = "macos" THEN "backup" ELSE "publish")
  BY Zenon DEF Decide
<1>3. PICK action : action = Plan(request, valid, due, legacy /\ ~operators)
  BY Zenon
<1>4. CASE action \in {"KeepExisting", "Refused"}
  <2>1. Proceed("idle") /\ UNCHANGED <<issued, fresh>>
    BY Zenon, <1>2, <1>3, <1>4
  <2> QED
    BY Zenon, <1>1, <2>1, Starts, RQuiet DEF RInv, TypeOK
<1>5. CASE action \notin {"KeepExisting", "Refused"}
  <2>1. /\ issued < MaxIssued /\ issued' = issued + 1
        /\ fresh' = [gen |-> issued', key |-> IF NewKey(action) THEN issued' ELSE file["key"]]
        /\ pc' = (IF who = "installer" THEN "journal" ELSE IF who = "macos" THEN "backup" ELSE "publish")
        /\ i' = 1 /\ Handled' = {}
    BY <1>2, <1>3, <1>5, Starts
  <2>2. NewKey(action) \/ Present("key")
    BY Zenon, <1>3, <1>5, DecideType DEF RInv, TypeOK
  <2>3. issued' \in Numbers
    BY <2>1, IssuedAssumption DEF RInv, TypeOK, Numbers
  <2>4. fresh' \in [gen : Numbers, key : Numbers]
    BY Zenon, <2>1, <2>2, <2>3 DEF RInv, TypeOK, Present
  <2>5. who \in {"installer", "macos", "command"}
    BY Zenon, PublishersAssumption DEF RInv, TypeOK, Requests
  <2>6. TypeOK'
    BY <1>1, <2>1, <2>3, <2>4, <2>5 DEF RInv, TypeOK, Steps
  <2>7. Recoverable'
    BY Zenon, <1>1 DEF RInv, Recoverable, IsPrepared, IsCommitted, Present, Saved
  <2>8. Stages'
    BY Zenon, <1>1, <2>1, <2>5 DEF Stages
  <2> QED
    BY Zenon, <2>6, <2>7, <2>8 DEF RInv
<1> QED
  BY Zenon, <1>4, <1>5

\* begin: nothing has been moved yet, or everything has been copied.
LEMMA RBegin ==
    ASSUME RInv, Begin
    PROVE  RInv'
<1>1. /\ pc = "journal" /\ journal = Absent /\ who # "command"
      /\ UNCHANGED <<file, operators, request, who, fresh, incomplete, issued>>
  BY Zenon DEF RInv, Stages, Begin, Same, asked
<1>2. /\ i' = 1 /\ Handled' = {} /\ journal' \in {Absent, Prepared}
      /\ pc' = "idle" \/ (journal' = Prepared /\ pc' = IF who = "installer" THEN "backup" ELSE "publish")
  BY <1>1, Starts DEF Begin, BeginJournal
<1>3. NoFiles \in [Files -> Contents \cup {Absent}] /\ NoFiles["key"] \in Numbers \cup {Absent}
  BY Zenon, ThisFile DEF RInv, TypeOK, NoFiles
<1>4. backup' \in [Files -> Contents \cup {Absent}] /\ backup'["key"] \in Numbers \cup {Absent}
  BY Zenon, <1>3 DEF RInv, TypeOK, Begin
<1>5. TypeOK'
  BY <1>1, <1>2, <1>4, JournalType DEF RInv, TypeOK, Steps
<1>6. Recoverable'
  BY Zenon, <1>1, <1>2, JournalType DEF Recoverable, IsPrepared, IsCommitted, Present
<1>7. Stages'
  BY Zenon, <1>1, <1>2, JournalType DEF Stages, IsPrepared, Present
<1> QED
  BY Zenon, <1>5, <1>6, <1>7 DEF RInv

\* begin: one file is moved or copied aside.
LEMMA RBackup ==
    ASSUME RInv, Backup
    PROVE  RInv'
<1> DEFINE start == IF i = 1 THEN NoFiles ELSE backup
<1>1. /\ pc = "backup" /\ who # "command" /\ i \in 1 .. 5 /\ This \in Files /\ This \notin Handled
      /\ UNCHANGED <<journal, operators, request, who, fresh, incomplete, issued>>
      /\ i = 1 => Handled = {}
  BY Zenon, ThisFile DEF RInv, TypeOK, Stages, Backup, Same, asked
<1>2. /\ \/ backup' = [start EXCEPT ![This] = file[This]]
            /\ file' = (IF who = "installer" THEN [file EXCEPT ![This] = Absent] ELSE file)
         \/ Present(This) /\ backup' = start /\ file' = file /\ pc' # "backup"
      /\ \/ NextFile("backup", IF who = "installer" THEN "publish" ELSE "journal")
            /\ backup' = [start EXCEPT ![This] = file[This]]
         \/ Proceed(IF who = "installer" THEN "undo" ELSE "idle")
  BY Zenon DEF Backup, Proceed
<1>3. /\ start \in [Files -> Contents \cup {Absent}] /\ start["key"] \in Numbers \cup {Absent}
      /\ \A f \in Files : i = 1 => start[f] = Absent
      /\ \A f \in Files : i # 1 => start[f] = backup[f]
  BY Zenon, ThisFile DEF RInv, TypeOK, NoFiles
<1>4. file[This] \in Contents \cup {Absent} /\ (This = "key" => file[This] \in Numbers \cup {Absent})
  BY Zenon, <1>1 DEF RInv, TypeOK
<1>5. [start EXCEPT ![This] = file[This]] \in [Files -> Contents \cup {Absent}]
      /\ [start EXCEPT ![This] = file[This]]["key"] \in Numbers \cup {Absent}
  <2> HIDE DEF start
  <2> QED
    BY Zenon, <1>1, <1>3, <1>4, ThisFile
<1>6. /\ pc' \in {"backup", "publish", "journal", "undo", "idle"} /\ i' \in 1 .. 5
      /\ pc' \in {"publish", "undo"} => who = "installer"
      /\ pc' = "backup" => Handled' = Handled \cup {This}
      /\ pc' = "publish" => Handled' = {}
      /\ pc' = "journal" => who # "installer"
  BY <1>1, <1>2, Advances, Starts
<1>7. TypeOK'
  <2>1. backup' \in [Files -> Contents \cup {Absent}] /\ backup'["key"] \in Numbers \cup {Absent}
    BY Zenon, <1>2, <1>3, <1>5
  <2>2. file' = file \/ file' = [file EXCEPT ![This] = Absent]
    BY Zenon, <1>2
  <2>3. file' \in [Files -> Contents \cup {Absent}] /\ file'["key"] \in Numbers \cup {Absent}
    BY Zenon, <1>1, <2>2, RemovedType DEF RInv
  <2> QED
    BY Zenon, <1>1, <1>6, <2>1, <2>3 DEF RInv, TypeOK, Steps
<1>8. CASE who = "installer"
  <2>1. IsPrepared /\ \A f \in Files \ Handled : journal.existed[f] => Present(f)
    BY Zenon, <1>1, <1>8 DEF RInv, Stages
  <2>2. \A f \in Files \ {This} : /\ file'[f] = file[f]
                                  /\ i # 1 => backup'[f] = backup[f]
    <3> HIDE DEF start
    <3> QED
      BY <1>1, <1>2, <1>3, SetType DEF RInv
  <2>3. journal.existed[This] => file'[This] # Absent \/ backup'[This] # Absent
    <3> HIDE DEF start
    <3> QED
      BY Zenon, <1>1, <1>2, <1>3, <2>1 DEF Present
  <2>4. Recoverable'
    BY Zenon, <1>1, <2>1, <2>2, <2>3 DEF RInv, Recoverable, IsPrepared, IsCommitted, Present, Saved
  <2>5. Stages'
    BY Zenon, <1>1, <1>6, <1>8, <2>1, <2>2 DEF Stages, IsPrepared, Present
  <2> QED
    BY Zenon, <1>7, <2>4, <2>5 DEF RInv
<1>9. CASE who # "installer"
  <2>1. journal = Absent
    BY Zenon, <1>1, <1>9 DEF RInv, Stages
  <2>2. pc' \in {"backup", "journal", "idle"}
    BY Zenon, <1>6, <1>9
  <2>3. Recoverable'
    BY Zenon, <1>1, <2>1 DEF Recoverable, IsPrepared, IsCommitted
  <2>4. Stages'
    BY Zenon, <1>1, <1>9, <2>1, <2>2 DEF Stages
  <2> QED
    BY Zenon, <1>7, <2>3, <2>4 DEF RInv
<1> QED
  BY Zenon, <1>8, <1>9

\* publish: files only appear.
LEMMA RPublish ==
    ASSUME RInv, Publish
    PROVE  RInv'
<1>1. /\ pc = "publish" /\ i \in 1 .. 5 /\ This \in Files
      /\ UNCHANGED <<backup, journal, operators, request, who, fresh, incomplete, issued>>
  BY Zenon, ThisFile DEF RInv, TypeOK, Publish, Same, asked
<1>2. /\ \/ file' = [file EXCEPT ![This] = Published(This)]
         \/ file' = file /\ This = "key" /\ fresh.key = file["key"]
         \/ file' = file /\ pc' \in {"idle", "undo"} /\ i' = 1
      /\ \/ NextFile("publish", IF who = "command" THEN "idle" ELSE "commit")
         \/ Proceed(IF who = "command" THEN "idle" ELSE "undo")
  BY Zenon DEF Publish, Set, Proceed
<1>3. /\ i' \in 1 .. 5
      /\ \/ pc' = "publish" /\ Handled' = Handled \cup {This}
         \/ pc' = "commit" /\ who # "command" /\ Files = Handled \cup {This}
         \/ pc' = "undo" /\ who # "command"
         \/ pc' = "idle"
  BY <1>1, <1>2, Advances, Starts
<1>4. TypeOK'
  <2>1. Published(This) \in Contents /\ (This = "key" => Published(This) \in Numbers)
    BY Zenon, <1>1, PublishedType DEF RInv
  <2>2. file' \in [Files -> Contents \cup {Absent}] /\ file'["key"] \in Numbers \cup {Absent}
    <3>1. CASE file' = file
      BY Zenon, <3>1 DEF RInv, TypeOK
    <3>2. CASE file' = [file EXCEPT ![This] = Published(This)]
      BY Zenon, <1>1, <2>1, <3>2, SetType DEF RInv
    <3> QED
      BY Zenon, <1>2, <3>1, <3>2
  <2> QED
    BY Zenon, <1>1, <1>3, <2>2 DEF RInv, TypeOK, Steps
<1>5. \A f \in Files : Present(f) => file'[f] # Absent
  BY <1>1, <1>2, SetType, PublishedType DEF RInv, Present
<1>6. pc' \in {"publish", "commit"} => file'[This] # Absent
  BY <1>1, <1>2, SetType, PublishedType DEF RInv
<1>7. Recoverable'
  BY Zenon, <1>1, <1>5 DEF RInv, Recoverable, IsPrepared, IsCommitted, Present, Saved
<1>8. Stages'
  <2>1. who # "command" => IsPrepared /\ \A f \in Handled : Present(f)
    BY Zenon, <1>1 DEF RInv, Stages
  <2>2. Handled \subseteq Files
    BY Zenon, <1>1, ThisFile
  <2> QED
    BY Zenon, <1>1, <1>3, <1>5, <1>6, <2>1, <2>2 DEF Stages, IsPrepared, Present
<1> QED
  BY Zenon, <1>4, <1>7, <1>8 DEF RInv

\* commit: the whole set is there.
LEMMA RCommit ==
    ASSUME RInv, Commit
    PROVE  RInv'
<1>1. /\ pc = "commit" /\ \A f \in Files : Present(f)
      /\ UNCHANGED <<file, backup, operators, request, who, fresh, incomplete, issued>>
  BY Zenon DEF RInv, Stages, Commit, Same, asked
<1>2. /\ i' = 1 /\ journal' \in {journal, Committed}
      /\ pc' = "idle" \/ (pc' = "clean" /\ journal' = Committed)
  BY Zenon, Starts DEF Commit
<1>3. TypeOK'
  BY <1>1, <1>2, JournalType DEF RInv, TypeOK, Steps
<1>4. Recoverable'
  BY Zenon, <1>1, <1>2, JournalType DEF RInv, Recoverable, IsPrepared, IsCommitted, Present, Saved
<1>5. Stages'
  BY Zenon, <1>1, <1>2, JournalType DEF Stages, IsCommitted
<1> QED
  BY Zenon, <1>3, <1>4, <1>5 DEF RInv

\* The backups go once the set is committed.
LEMMA RClean ==
    ASSUME RInv, Clean
    PROVE  RInv'
<1>1. /\ pc = "clean" /\ IsCommitted /\ i \in 1 .. 5 /\ This \in Files
      /\ UNCHANGED <<file, journal, operators, request, who, fresh, incomplete, issued>>
  BY Zenon, ThisFile DEF RInv, TypeOK, Stages, Clean, Same, asked
<1>2. backup' = backup \/ backup' = [backup EXCEPT ![This] = Absent]
  BY Zenon DEF Clean
<1>3. i' \in 1 .. 5 /\ pc' \in {"clean", "done", "idle"}
  BY <1>1, Advances, Starts DEF Clean
<1>4. TypeOK'
  <2>1. backup' \in [Files -> Contents \cup {Absent}] /\ backup'["key"] \in Numbers \cup {Absent}
    BY Zenon, <1>1, <1>2, RemovedType DEF RInv
  <2> QED
    BY Zenon, <1>1, <1>3, <2>1 DEF RInv, TypeOK, Steps
<1>5. Recoverable'
  BY Zenon, <1>1 DEF RInv, Recoverable, IsPrepared, IsCommitted, Present
<1>6. Stages'
  BY Zenon, <1>1, <1>3 DEF Stages, IsCommitted
<1> QED
  BY Zenon, <1>4, <1>5, <1>6 DEF RInv

\* roll_back: a saved file's place is cleared, then the backup is renamed back.
LEMMA RUndo ==
    ASSUME RInv, Undo
    PROVE  RInv'
<1>1. /\ pc = "undo" /\ IsPrepared /\ who # "command" /\ i \in 1 .. 5 /\ This \in Files
      /\ UNCHANGED <<backup, journal, operators, request, who, fresh, incomplete, issued>>
  BY Zenon, ThisFile DEF RInv, TypeOK, Stages, Undo, asked
<1>2. CASE Saved(This)
  <2>1. file' = [file EXCEPT ![This] = Absent] /\ pc' = "undo2" /\ i' = i
    BY Zenon, <1>2 DEF Undo, Set, Saved
  <2>2. TypeOK'
    BY Zenon, <1>1, <2>1, SetType DEF RInv, TypeOK, Steps
  <2>3. Recoverable'
    BY <1>1, <1>2, <2>1, SetType DEF RInv, Recoverable, IsPrepared, IsCommitted, Present, Saved
  <2>4. Stages'
    BY Zenon, <1>1, <1>2, <2>1 DEF Stages, IsPrepared, Saved, This
  <2> QED
    BY Zenon, <2>2, <2>3, <2>4 DEF RInv
<1>3. CASE ~Saved(This)
  <2>1. NextFile("undo", "drop") /\ file' = file
    BY Zenon, <1>3 DEF Undo, Saved
  <2>2. i' \in 1 .. 5 /\ pc' \in {"undo", "drop"}
    BY <1>1, <2>1, Advances
  <2>3. TypeOK'
    BY Zenon, <1>1, <2>1, <2>2 DEF RInv, TypeOK, Steps
  <2>4. Recoverable'
    BY Zenon, <1>1, <2>1 DEF RInv, Recoverable, IsPrepared, IsCommitted, Present, Saved
  <2>5. Stages'
    BY Zenon, <1>1, <2>2 DEF Stages, IsPrepared
  <2> QED
    BY Zenon, <2>3, <2>4, <2>5 DEF RInv
<1> QED
  BY Zenon, <1>2, <1>3

\* roll_back's rename of a backup into place.
LEMMA RUndoRename ==
    ASSUME RInv, UndoRename
    PROVE  RInv'
<1>1. /\ pc = "undo2" /\ IsPrepared /\ Saved(This) /\ who # "command" /\ i \in 1 .. 5
      /\ UNCHANGED <<journal, operators, request, who, fresh, issued>> /\ incomplete' \in BOOLEAN
  BY Zenon DEF RInv, TypeOK, Stages, UndoRename, asked
<1>2. i' \in 1 .. 5 /\ pc' \in {"undo", "drop"}
  BY <1>1, Advances DEF UndoRename
<1>3. CASE Set(This, backup[This]) /\ backup' = [backup EXCEPT ![This] = Absent]
  BY Zenon, <1>1, <1>2, <1>3, RPutBack DEF Set
<1>4. CASE UNCHANGED <<file, backup>>
  <2>1. TypeOK'
    BY Zenon, <1>1, <1>2, <1>4 DEF RInv, TypeOK, Steps
  <2>2. Recoverable'
    BY Zenon, <1>1, <1>4 DEF RInv, Recoverable, IsPrepared, IsCommitted, Present, Saved
  <2>3. Stages'
    BY Zenon, <1>1, <1>2 DEF Stages, IsPrepared
  <2> QED
    BY Zenon, <2>1, <2>2, <2>3 DEF RInv
<1> QED
  BY Zenon, <1>3, <1>4 DEF UndoRename

\* roll_back: what was not there before is removed.
LEMMA RDrop ==
    ASSUME RInv, Drop
    PROVE  RInv'
<1>1. /\ pc = "drop" /\ IsPrepared /\ who # "command" /\ i \in 1 .. 5 /\ This \in Files
      /\ UNCHANGED <<backup, journal, operators, request, who, fresh, issued>>
      /\ incomplete' \in BOOLEAN
  BY Zenon, ThisFile DEF RInv, TypeOK, Stages, Drop, asked
<1>2. i' \in 1 .. 5 /\ pc' \in {"drop", "undone?"}
  BY <1>1, Advances DEF Drop
<1>3. file' = file \/ (~journal.existed[This] /\ file' = [file EXCEPT ![This] = Absent])
  BY Zenon DEF Drop
<1>4. TypeOK'
  <2>1. file' \in [Files -> Contents \cup {Absent}] /\ file'["key"] \in Numbers \cup {Absent}
    BY Zenon, <1>1, <1>3, RemovedType DEF RInv
  <2> QED
    BY Zenon, <1>1, <1>2, <2>1 DEF RInv, TypeOK, Steps
<1>5. Recoverable'
  BY <1>1, <1>3, SetType DEF RInv, Recoverable, IsPrepared, IsCommitted, Present, Saved
<1>6. Stages'
  BY Zenon, <1>1, <1>2 DEF Stages, IsPrepared
<1> QED
  BY Zenon, <1>4, <1>5, <1>6 DEF RInv

\* A run that ends, or a process that dies, leaves the disk as it is.
LEMMA REnds ==
    ASSUME RInv, Undone \/ Crash
    PROVE  RInv'
<1>1. /\ UNCHANGED <<file, backup, journal, operators, request, who, fresh, issued>>
      /\ incomplete' = FALSE /\ i' = 1 /\ pc' \in {"idle", "undone"}
  BY Zenon DEF Undone, Crash, Proceed, disk, asked
<1> QED
  BY Zenon, <1>1, RQuiet DEF RInv, TypeOK

\* Every step keeps the invariant of recovery.
LEMMA RNext ==
    ASSUME RInv, [CertNext]_certVars
    PROVE  RInv'
<1>1. CASE UNCHANGED certVars
  BY <1>1 DEF certVars, disk, asked, RInv, TypeOK, Recoverable, Stages, IsPrepared, IsCommitted,
     Present, Saved, This, Handled
<1> QED
  BY Zenon, <1>1, RStart, RRecover, RRestore, RClearJournal, RDecide, RBegin, RBackup, RPublish, RCommit,
     RClean, RUndo, RUndoRename, RDrop, REnds DEF CertNext

\* Whatever is interrupted, the journal on disk stands for a set that recovery can make whole.
THEOREM RecoverableAlways == CertSpec => []RInv
<1>1. CertInit => RInv
  BY Zenon, RInit
<1>2. RInv /\ [CertNext]_certVars => RInv'
  BY Zenon, RNext
<1> QED
  BY <1>1, <1>2, PTL DEF CertSpec

\* recover_interrupted, recover_file: for every publisher, and any number of crashes and failed
\* file operations, the recovery never stops at a file it requires and does not find.
THEOREM RecoveryAlwaysRuns == CertSpec => []RecoveryNeverBlocked
<1>1. RInv => RecoveryNeverBlocked
  BY Zenon, NeverBlocked DEF RecoveryNeverBlocked
<1> QED
  BY <1>1, RecoverableAlways, PTL

-----------------------------------------------------------------------------
(* The journalled programs publish as CertStore does. *)

\* The installer, whatever fails; the macOS host, whose roll_back drops its
\* errors, while at most one file operation fails.
Journalled ==
    \/ Publishers \subseteq {"installer"}
    \/ Publishers \subseteq {"installer", "macos"} /\ MaxFaults \in {0, 1}

\* A prepared publication is undone as far as this file is concerned.
PutBack(f) == ~Saved(f) /\ (~journal.existed[f] => ~Present(f))

\* What the journal, the backups and the files say of one another.
Undoable ==
    /\ who # "command"
    /\ IsPrepared => \A f \in Files : ~journal.existed[f] => ~Saved(f)
    /\ pc = "backup" /\ who = "installer" =>
         /\ \A f \in Files \ Handled : (Present(f) => journal.existed[f]) /\ ~Saved(f)
         /\ \A f \in Handled : journal.existed[f] => Saved(f)
    /\ pc = "backup" /\ who = "macos" => \A f \in Handled : backup[f] = file[f]
    /\ pc = "journal" /\ who = "macos" => \A f \in Files : backup[f] = file[f]
    /\ pc \in {"publish", "commit"} => \A f \in Files : journal.existed[f] => Saved(f)
    /\ pc = "publish" => \A f \in Handled : file[f] = Published(f)
    /\ pc = "commit" => \A f \in Files : file[f] = Published(f)

\* How far a recovery or a roll-back has come.
Undoing ==
    /\ pc \in {"recover", "restore"} /\ IsPrepared => \A f \in Handled : PutBack(f)
    /\ pc = "clear" => journal # Absent /\ (IsPrepared => \A f \in Files : PutBack(f))
    /\ pc \in {"undo", "undo2"} /\ ~incomplete => \A f \in Handled : ~Saved(f)
    /\ pc = "drop" /\ ~incomplete => (\A f \in Files : ~Saved(f)) /\ \A f \in Handled : PutBack(f)
    /\ pc = "undone?" => IsPrepared /\ (~incomplete => \A f \in Files : PutBack(f))
    /\ pc = "undone" => IsPrepared /\ \A f \in Files : PutBack(f)
    /\ pc = "done" => IsCommitted

\* A roll-back follows a failed operation; the macOS host's own does not fail.
Failures ==
    /\ faults \in Nat
    /\ pc \notin {"undo", "undo2", "drop", "undone?"} => ~incomplete
    /\ who = "macos" => ~incomplete /\ (pc \in {"undo", "undo2", "drop"} => faults >= 1)

\* The certificate to publish keeps the key, but where there is none or on request.
Keyed ==
    pc \in {"journal", "backup", "publish", "commit"} =>
        /\ fresh.gen \in 1 .. MaxIssued
        /\ fresh.key = Logical["key"] \/ Logical["key"] = Absent \/ request = "Rekey"

\* The invariant the refinement needs, inductive for the journalled programs.
PInv == RInv /\ Undoable /\ Undoing /\ Failures /\ Keyed

\* One file, or one backup, changes.
LEMMA Changed ==
    ASSUME TypeOK, NEW f \in Files, NEW c
    PROVE  /\ [file EXCEPT ![f] = c][f] = c /\ [backup EXCEPT ![f] = c][f] = c
           /\ \A g \in Files \ {f} : /\ [file EXCEPT ![f] = c][g] = file[g]
                                     /\ [backup EXCEPT ![f] = c][g] = backup[g]
  BY Zenon DEF TypeOK

\* The file as recovery would leave it.
At(f) ==
    IF IsPrepared THEN IF Saved(f) THEN backup[f] ELSE IF journal.existed[f] THEN file[f] ELSE Absent
    ELSE file[f]

\* HostCert's refinement mapping, file by file.
LEMMA LogicalAt ==
    ASSUME TypeOK
    PROVE  Logical = [f \in Files |-> At(f)]
  BY Zenon DEF TypeOK, Journals, Logical, At, IsPrepared, Saved

\* A step that leaves every file as recovery would leave it before maps to a stutter.
LEMMA SameLogical ==
    ASSUME TypeOK, TypeOK', \A f \in Files : At(f)' = At(f)
    PROVE  Logical' = Logical
<1>1. Logical = [f \in Files |-> At(f)]
  BY Zenon, LogicalAt
<1>2. Logical' = [f \in Files |-> At(f)']
  BY Zenon DEF TypeOK, Journals, Logical, At, IsPrepared, Saved, Files
<1> QED
  BY Zenon, <1>1, <1>2

\* A run begins, with the recovery of an earlier one or with its own plan.
LEMMA UStart ==
    ASSUME PInv, RInv', Journalled, Start
    PROVE  PInv' /\ Logical' = Logical
<1>1. /\ pc = "idle" /\ pc' \in {"recover", "plan"} /\ Handled' = {}
      /\ UNCHANGED <<file, backup, journal, fresh, incomplete, faults>>
      /\ who' \in Publishers
  BY Zenon, Starts DEF Start, disk
<1>2. who' # "command"
  BY Zenon, <1>1 DEF Journalled
<1>3. Undoable'
  BY Zenon, <1>1, <1>2 DEF PInv, Undoable, IsPrepared, Saved
<1>4. Undoing' /\ Failures' /\ Keyed'
  BY Zenon, <1>1 DEF PInv, Undoing, Failures, Keyed
<1>5. Logical' = Logical
  BY Zenon, <1>1 DEF Logical, Files
<1> QED
  BY Zenon, <1>3, <1>4, <1>5 DEF PInv

\* A file is put back, or recovery moves past it.
LEMMA URecover ==
    ASSUME PInv, RInv', Recover
    PROVE  PInv' /\ Logical' = Logical
<1>1. /\ pc = "recover" /\ i \in 1 .. 5 /\ This \in Files /\ journal # Absent
      /\ UNCHANGED <<journal, operators, request, who, fresh, incomplete, faults>>
      /\ TypeOK /\ TypeOK'
  BY Zenon, ThisFile DEF PInv, RInv, TypeOK, Stages, Recover, Same, asked
<1>2. RecoverFile(This) = IF IsPrepared
                          THEN IF Saved(This) THEN "RestoreBackup"
                               ELSE IF journal.existed[This] THEN "RequireUntouched"
                               ELSE "RemoveFile"
                          ELSE "RequirePublished"
  BY Zenon, <1>1 DEF RecoverFile, IsPrepared, Saved, TypeOK, Journals
<1>3. Failures'
  <2>1. pc' \in {"recover", "restore", "clear", "idle"}
    BY Zenon, <1>1, Advances, Starts DEF Recover
  <2> QED
    BY Zenon, <1>1, <2>1 DEF PInv, Failures
<1>4. CASE RecoverFile(This) \in {"RequirePublished", "RequireUntouched"}
  <2>1. /\ backup' = [backup EXCEPT ![This] = Absent] /\ file' = file
        /\ \/ pc' = "recover" /\ Handled' = Handled \cup {This}
           \/ pc' = "clear" /\ Files = Handled \cup {This}
           \/ pc' = "idle"
    BY Zenon, <1>1, <1>4, Advances, Starts DEF Recover
  <2>2. /\ IsPrepared => \A f \in Files : backup'[f] = backup[f]
        /\ IsPrepared => PutBack(This)
    BY SMTT(30), <1>1, <1>2, <1>4, <2>1, Changed DEF PutBack, Saved
  <2>3. Undoable' /\ Undoing'
    BY <1>1, <2>1, <2>2 DEF PInv, Undoable, Undoing, IsPrepared, IsCommitted, Saved, Present, PutBack
  <2>4. \A f \in Files : At(f)' = At(f)
    BY Zenon, <1>1, <2>1, <2>2 DEF At, IsPrepared, Saved
  <2> QED
    BY Zenon, <1>1, <1>3, <2>1, <2>3, <2>4, SameLogical DEF PInv, Keyed
<1>5. CASE RecoverFile(This) = "RestoreBackup"
  <2>1. /\ file' = [file EXCEPT ![This] = Absent] /\ backup' = backup
        /\ pc' = "restore" /\ i' = i /\ Handled' = Handled
    BY Zenon, <1>5 DEF Recover, Set, Handled
  <2>2. IsPrepared /\ Saved(This)
    BY Zenon, <1>2, <1>5
  <2>3. \A f \in Files : f # This => file'[f] = file[f]
    BY <1>1, <2>1, Changed
  <2>4. This \notin Handled /\ Handled \subseteq Files
    BY Zenon, <1>1, ThisFile
  <2>5. Undoable' /\ Undoing'
    BY Zenon, <1>1, <2>1, <2>3, <2>4 DEF PInv, Undoable, Undoing, IsPrepared, Saved, Present, PutBack
  <2>6. \A f \in Files : At(f)' = At(f)
    BY Zenon, <1>1, <2>1, <2>2, <2>3 DEF At, IsPrepared, Saved
  <2> QED
    BY Zenon, <1>1, <1>3, <2>1, <2>5, <2>6, SameLogical DEF PInv, Keyed
<1>6. CASE RecoverFile(This) = "RemoveFile"
  <2>1. /\ file' = [file EXCEPT ![This] = Absent] /\ backup' = backup
        /\ \/ pc' = "recover" /\ Handled' = Handled \cup {This}
           \/ pc' = "clear" /\ Files = Handled \cup {This}
    BY Zenon, <1>1, <1>6, Advances DEF Recover, Set
  <2>2. IsPrepared /\ ~Saved(This) /\ ~journal.existed[This]
    BY Zenon, <1>2, <1>6
  <2>3. file'[This] = Absent /\ \A f \in Files : f # This => file'[f] = file[f]
    BY <1>1, <2>1, Changed
  <2>4. Handled \subseteq Files
    BY Zenon, <1>1, ThisFile
  <2>5. Undoable' /\ Undoing'
    BY Zenon, <1>1, <2>1, <2>2, <2>3, <2>4
    DEF PInv, Undoable, Undoing, IsPrepared, IsCommitted, Saved, Present, PutBack
  <2>6. \A f \in Files : At(f)' = At(f)
    BY Zenon, <1>1, <2>1, <2>2, <2>3 DEF At, IsPrepared, Saved
  <2> QED
    BY Zenon, <1>1, <1>3, <2>1, <2>5, <2>6, SameLogical DEF PInv, Keyed
<1> QED
  BY Zenon, <1>2, <1>4, <1>5, <1>6

\* A run stops, whatever it was at.
LEMMA UStops ==
    ASSUME PInv, RInv', pc' = "idle", faults' \in Nat, ~incomplete',
           UNCHANGED <<file, backup, journal, who>>
    PROVE  PInv' /\ Logical' = Logical
<1>1. Undoable' /\ Undoing' /\ Failures' /\ Keyed'
  BY Zenon DEF PInv, Undoable, Undoing, Failures, Keyed, IsPrepared, Saved
<1>2. Logical' = Logical
  BY Zenon DEF Logical, Files
<1> QED
  BY Zenon, <1>1, <1>2 DEF PInv

\* The backup of a file is renamed back.
LEMMA PutsBack ==
    ASSUME TypeOK, TypeOK', NEW f \in Files, IsPrepared, Saved(f), journal.existed[f],
           journal' = journal, file' = [file EXCEPT ![f] = backup[f]],
           backup' = [backup EXCEPT ![f] = Absent]
    PROVE  /\ Logical' = Logical
           /\ file'[f] = backup[f] /\ backup'[f] = Absent
           /\ \A g \in Files : g # f => file'[g] = file[g] /\ backup'[g] = backup[g]
<1>1. /\ file'[f] = backup[f] /\ backup'[f] = Absent
      /\ \A g \in Files : g # f => file'[g] = file[g] /\ backup'[g] = backup[g]
  BY Changed
<1>2. \A g \in Files : At(g)' = At(g)
  BY ZenonT(60), <1>1 DEF At, IsPrepared, Saved
<1> QED
  BY Zenon, <1>1, <1>2, SameLogical

\* recover_interrupted puts one file back.
LEMMA URestore ==
    ASSUME PInv, RInv', Restore
    PROVE  PInv' /\ Logical' = Logical
<1>1. /\ pc = "restore" /\ i \in 1 .. 5 /\ This \in Files /\ IsPrepared /\ Saved(This)
      /\ Handled \subseteq Files /\ This \notin Handled
      /\ UNCHANGED <<journal, operators, request, who, fresh, incomplete>>
      /\ TypeOK /\ TypeOK'
  BY Zenon, ThisFile DEF PInv, RInv, TypeOK, Stages, Restore, Same, asked
<1>2. journal.existed[This]
  BY Zenon, <1>1 DEF PInv, Undoable
<1>3. CASE /\ Set(This, backup[This]) /\ backup' = [backup EXCEPT ![This] = Absent]
           /\ NextFile("recover", "clear") /\ UNCHANGED faults
  <2>1. \/ pc' = "recover" /\ Handled' = Handled \cup {This}
        \/ pc' = "clear" /\ Files = Handled \cup {This}
    BY Zenon, <1>1, <1>3, Advances
  <2>2. /\ Logical' = Logical /\ backup'[This] = Absent
        /\ \A g \in Files : g # This => file'[g] = file[g] /\ backup'[g] = backup[g]
    BY Zenon, <1>1, <1>2, <1>3, PutsBack DEF Set
  <2>3. Undoable'
    BY Zenon, <1>1, <2>1, <2>2 DEF PInv, Undoable, IsPrepared, Saved
  <2>4. Undoing'
    BY Zenon, <1>1, <1>2, <2>1, <2>2 DEF PInv, Undoing, IsPrepared, Saved, Present, PutBack
  <2>5. Failures' /\ Keyed'
    BY Zenon, <1>1, <1>3, <2>1 DEF PInv, Failures, Keyed
  <2> QED
    BY Zenon, <2>2, <2>3, <2>4, <2>5 DEF PInv
<1>4. CASE Fault /\ Proceed("idle") /\ UNCHANGED <<file, backup>>
  BY <1>1, <1>4, Starts, UStops DEF Fault, PInv, Failures
<1> QED
  BY Zenon, <1>3, <1>4 DEF Restore

\* The journal is removed: what it stood for is what the files hold.
LEMMA UClearJournal ==
    ASSUME PInv, RInv', ClearJournal
    PROVE  PInv' /\ Logical' = Logical
<1>1. /\ pc \in {"clear", "done", "undone"}
      /\ UNCHANGED <<file, backup, operators, request, who, fresh, incomplete>>
      /\ TypeOK /\ TypeOK'
  BY Zenon DEF PInv, RInv, ClearJournal, Same, asked
<1>2. CASE journal' = Absent /\ Proceed(IF pc = "clear" THEN "plan" ELSE "idle") /\ UNCHANGED faults
  <2>1. pc' \in {"plan", "idle"} /\ ~IsPrepared'
    BY Zenon, <1>2, Starts DEF IsPrepared
  <2>2. Undoable' /\ Undoing' /\ Failures' /\ Keyed'
    BY Zenon, <1>1, <1>2, <2>1 DEF PInv, Undoable, Undoing, Failures, Keyed
  <2>3. IsPrepared => \A f \in Files : PutBack(f)
    BY Zenon, <1>1 DEF PInv, Undoing, IsPrepared, IsCommitted
  <2>4. \A f \in Files : At(f)' = At(f)
    BY Zenon, <1>1, <2>1, <2>3 DEF At, PutBack, Present
  <2> QED
    BY Zenon, <1>1, <2>2, <2>4, SameLogical DEF PInv
<1>3. CASE Fault /\ Proceed("idle") /\ UNCHANGED journal
  BY <1>1, <1>3, Starts, UStops DEF Fault, PInv, Failures
<1> QED
  BY Zenon, <1>2, <1>3 DEF ClearJournal

\* The plan of a publication touches nothing on disk.
LEMMA UDecide ==
    ASSUME PInv, RInv', Decide
    PROVE  PInv' /\ Logical' = Logical
<1>1. /\ pc = "plan" /\ journal = Absent /\ who # "command" /\ i \in 1 .. 5
      /\ UNCHANGED <<file, backup, journal, operators, request, who, incomplete, faults>>
      /\ TypeOK /\ TypeOK'
  BY Zenon DEF PInv, RInv, TypeOK, Stages, Undoable, Decide, disk, asked
<1>2. Logical' = Logical /\ Logical = file
  <2>1. \A f \in Files : At(f) = file[f] /\ At(f)' = At(f)
    BY Zenon, <1>1 DEF At, IsPrepared
  <2>2. Logical' = Logical /\ Logical = [f \in Files |-> file[f]]
    BY Zenon, <1>1, <2>1, LogicalAt, SameLogical
  <2> QED
    BY Zenon, <1>1, <2>2 DEF TypeOK
<1>3. CASE pc' = "idle" /\ fresh' = fresh /\ i' = 1
  BY Zenon, <1>1, <1>3, UStops DEF PInv, Failures
<1>4. CASE /\ pc' \in {"journal", "backup"} /\ Handled' = {} /\ (pc' = "journal" <=> who = "installer")
           /\ fresh'.gen \in 1 .. MaxIssued
           /\ fresh'.key = file["key"] \/ ~Present("key") \/ request = "Rekey"
  <2>1. Undoable' /\ Undoing' /\ Failures'
    BY Zenon, <1>1, <1>4 DEF PInv, Undoable, Undoing, Failures, IsPrepared
  <2>2. Keyed'
    BY Zenon, <1>1, <1>2, <1>4 DEF Keyed, Present
  <2> QED
    BY Zenon, <1>2, <2>1, <2>2 DEF PInv
<1>5. PICK valid \in BOOLEAN, due \in BOOLEAN, legacy \in BOOLEAN :
        LET action == Plan(request, valid, due, legacy /\ ~operators) IN
        IF action \in {"KeepExisting", "Refused"} THEN Proceed("idle") /\ UNCHANGED <<issued, fresh>>
        ELSE /\ issued < MaxIssued /\ issued' = issued + 1
             /\ fresh' = [gen |-> issued', key |-> IF NewKey(action) THEN issued' ELSE file["key"]]
             /\ Proceed(IF who = "installer" THEN "journal"
                        ELSE IF who = "macos" THEN "backup" ELSE "publish")
  BY Zenon DEF Decide
<1> DEFINE action == Plan(request, valid, due, legacy /\ ~operators)
<1>6. NewKey(action) => ~Present("key") \/ request = "Rekey"
  BY Zenon DEF NewKey, Plan
<1>7. who \in {"installer", "macos"}
  BY Zenon, <1>1, PublishersAssumption DEF TypeOK, Requests
<1>8. CASE action \in {"KeepExisting", "Refused"}
  BY Zenon, <1>3, <1>5, <1>8, Starts
<1>9. CASE action \notin {"KeepExisting", "Refused"}
  <2> HIDE DEF action
  <2>1. /\ issued < MaxIssued /\ issued' = issued + 1
        /\ fresh' = [gen |-> issued', key |-> IF NewKey(action) THEN issued' ELSE file["key"]]
        /\ Proceed(IF who = "installer" THEN "journal"
                   ELSE IF who = "macos" THEN "backup" ELSE "publish")
    BY Zenon, <1>5, <1>9 DEF action
  <2>2. pc' = (IF who = "installer" THEN "journal" ELSE "backup") /\ Handled' = {}
    BY Zenon, <1>7, <2>1, Starts
  <2>3. fresh'.gen \in 1 .. MaxIssued
    BY <1>1, <2>1, IssuedAssumption DEF TypeOK, Numbers
  <2>4. fresh'.key = file["key"] \/ ~Present("key") \/ request = "Rekey"
    BY Zenon, <1>6, <2>1
  <2> QED
    BY Zenon, <1>4, <2>2, <2>3, <2>4
<1> QED
  BY Zenon, <1>8, <1>9

\* The journal is written: by the installer before its backups, by the macOS host after them.
LEMMA UBegin ==
    ASSUME PInv, RInv', Begin
    PROVE  PInv' /\ Logical' = Logical
<1>1. /\ pc = "journal" /\ journal = Absent /\ i \in 1 .. 5 /\ who \in {"installer", "macos"}
      /\ UNCHANGED <<file, operators, request, who, fresh, incomplete>>
      /\ backup' = IF who = "installer" THEN NoFiles ELSE backup
      /\ TypeOK /\ TypeOK' /\ faults' \in Nat /\ ~incomplete
  <2>1. who \in {"installer", "macos"}
    BY Zenon, PublishersAssumption DEF PInv, RInv, TypeOK, Undoable, Requests
  <2>2. faults' \in Nat
    BY DEF PInv, Failures, Begin, Fault
  <2> QED
    BY Zenon, <2>1, <2>2 DEF PInv, RInv, TypeOK, Stages, Undoable, Failures, Begin, Same, asked
<1>2. /\ journal' \in {journal, Prepared}
      /\ \/ pc' = "idle"
         \/ pc' = (IF who = "installer" THEN "backup" ELSE "publish") /\ journal' = Prepared
      /\ Handled' = {}
  BY Starts DEF Begin, BeginJournal
<1>3. /\ IsPrepared' => \A f \in Files : journal'.existed[f] = Present(f)
      /\ pc' # "idle" => IsPrepared'
  BY Zenon, <1>1, <1>2, JournalType DEF IsPrepared
<1>4. \A f \in Files : who = "installer" => backup'[f] = Absent
  BY Zenon, <1>1 DEF NoFiles
<1>5. \A f \in Files : who = "macos" => backup'[f] = file[f]
  BY Zenon, <1>1 DEF PInv, Undoable
<1>6. Undoable'
  BY Zenon, <1>1, <1>2, <1>3, <1>4, <1>5 DEF Undoable, Saved, Present
<1>7. Undoing' /\ Failures'
  BY Zenon, <1>1, <1>2 DEF Undoing, Failures
<1>8. \A f \in Files : At(f)' = At(f)
  <2>1. ~IsPrepared
    BY Zenon, <1>1 DEF IsPrepared
  <2> QED
    BY Zenon, <1>1, <1>3, <1>4, <1>5, <2>1 DEF At, Saved, Present
<1>9. Logical' = Logical
  BY Zenon, <1>1, <1>8, SameLogical
<1>10. Keyed'
  BY Zenon, <1>1, <1>9 DEF PInv, Keyed
<1> QED
  BY Zenon, <1>6, <1>7, <1>9, <1>10 DEF PInv

\* A file is saved, by a rename under a journal or by a copy before there is one.
LEMMA UBackup ==
    ASSUME PInv, RInv', Backup
    PROVE  PInv' /\ Logical' = Logical
<1> DEFINE start == IF i = 1 THEN NoFiles ELSE backup
<1>1. /\ pc = "backup" /\ i \in 1 .. 5 /\ This \in Files /\ who \in {"installer", "macos"}
      /\ Handled \subseteq Files /\ This \notin Handled /\ (i = 1 => Handled = {})
      /\ UNCHANGED <<journal, operators, request, who, fresh, incomplete>>
      /\ TypeOK /\ TypeOK' /\ ~incomplete
  <2>1. who \in {"installer", "macos"}
    BY Zenon, PublishersAssumption DEF PInv, RInv, TypeOK, Undoable, Requests
  <2> QED
    BY Zenon, <2>1, ThisFile DEF PInv, RInv, TypeOK, Failures, Backup, Same, asked
<1>2. /\ \/ /\ backup' = [start EXCEPT ![This] = file[This]]
            /\ file' = IF who = "installer" THEN [file EXCEPT ![This] = Absent] ELSE file
         \/ Present(This) /\ backup' = start /\ file' = file /\ pc' \in {"undo", "idle"}
      /\ \/ NextFile("backup", IF who = "installer" THEN "publish" ELSE "journal")
         \/ Proceed(IF who = "installer" THEN "undo" ELSE "idle") /\ Present(This)
  BY Zenon DEF Backup, Proceed
<1>3. /\ start \in [Files -> Contents \cup {Absent}]
      /\ \A f \in Files : start[f] = IF i = 1 THEN Absent ELSE backup[f]
  BY Zenon, <1>1 DEF TypeOK, NoFiles
<1>4. /\ [start EXCEPT ![This] = file[This]][This] = file[This]
      /\ \A f \in Files : f # This => [start EXCEPT ![This] = file[This]][f] = start[f]
  <2> HIDE DEF start
  <2> QED
    BY Zenon, <1>1, <1>3
<1>5. /\ [file EXCEPT ![This] = Absent][This] = Absent
      /\ \A f \in Files : f # This => [file EXCEPT ![This] = Absent][f] = file[f]
  BY <1>1, Changed
<1>6. \/ pc' = "backup" /\ Handled' = Handled \cup {This}
      \/ pc' = (IF who = "installer" THEN "publish" ELSE "journal") /\ Handled' = {}
         /\ Files = Handled \cup {This}
      \/ pc' = (IF who = "installer" THEN "undo" ELSE "idle") /\ Handled' = {} /\ Present(This)
  BY Zenon, <1>1, <1>2, Advances, Starts
<1> HIDE DEF start
<1>7. Undoing'
  BY Zenon, <1>1, <1>6 DEF Undoing
<1>8. Failures'
  BY <1>1, <1>6 DEF PInv, Failures, Backup, Fault
<1>9. CASE who = "installer"
  <2>1. /\ IsPrepared /\ IsPrepared'
        /\ \A f \in Files \ Handled : (journal.existed[f] <=> Present(f)) /\ ~Saved(f)
        /\ \A f \in Handled : journal.existed[f] => Saved(f)
        /\ \A f \in Files : ~journal.existed[f] => ~Saved(f)
    BY Zenon, <1>1, <1>9 DEF PInv, RInv, Stages, Undoable, IsPrepared
  <2>2. \A f \in Files : f # This => backup'[f] = backup[f] /\ file'[f] = file[f]
    BY Zenon, <1>1, <1>2, <1>3, <1>4, <1>5, <1>9, <2>1 DEF Saved
  <2>3. \/ backup'[This] = file[This] /\ file'[This] = Absent
        \/ /\ backup'[This] = Absent /\ file'[This] = file[This]
           /\ Present(This) /\ pc' \in {"undo", "idle"}
    BY Zenon, <1>1, <1>2, <1>3, <1>4, <1>5, <1>9, <2>1 DEF Saved
  <2>4. \A f \in Files : At(f)' = At(f)
    BY Zenon, <1>1, <2>1, <2>2, <2>3 DEF At, Saved, Present
  <2>5. Undoable'
    BY Zenon, <1>1, <1>6, <1>9, <2>1, <2>2, <2>3 DEF Undoable, Saved, Present
  <2>6. Logical' = Logical
    BY Zenon, <1>1, <2>4, SameLogical
  <2>7. Keyed'
    BY Zenon, <1>1, <2>6 DEF PInv, Keyed
  <2> QED
    BY Zenon, <1>7, <1>8, <2>5, <2>6, <2>7 DEF PInv
<1>10. CASE who = "macos"
  <2>1. journal = Absent /\ ~IsPrepared /\ ~IsPrepared' /\ \A f \in Handled : backup[f] = file[f]
    BY Zenon, <1>1, <1>10 DEF PInv, RInv, Stages, Undoable, IsPrepared
  <2>2. file' = file
    BY Zenon, <1>2, <1>10
  <2>3. pc' \in {"backup", "journal"} =>
          backup'[This] = file[This] /\ \A f \in Handled : backup'[f] = file[f]
    BY Zenon, <1>1, <1>2, <1>3, <1>4, <2>1
  <2>4. Undoable'
    BY Zenon, <1>1, <1>6, <1>10, <2>1, <2>2, <2>3 DEF Undoable
  <2>5. \A f \in Files : At(f)' = At(f)
    BY Zenon, <2>1, <2>2 DEF At
  <2>6. Logical' = Logical
    BY Zenon, <1>1, <2>5, SameLogical
  <2>7. Keyed'
    BY Zenon, <1>1, <2>6 DEF PInv, Keyed
  <2> QED
    BY Zenon, <1>7, <1>8, <2>4, <2>6, <2>7 DEF PInv
<1> QED
  BY Zenon, <1>1, <1>9, <1>10

\* A file is published: recovery would still put the old one back.
LEMMA UPublish ==
    ASSUME PInv, RInv', Publish
    PROVE  PInv' /\ Logical' = Logical
<1>1. /\ pc = "publish" /\ i \in 1 .. 5 /\ This \in Files /\ who # "command" /\ IsPrepared
      /\ Handled \subseteq Files /\ This \notin Handled
      /\ UNCHANGED <<backup, journal, operators, request, who, fresh, incomplete>>
      /\ TypeOK /\ TypeOK' /\ ~incomplete
  BY Zenon, ThisFile DEF PInv, RInv, TypeOK, Stages, Undoable, Failures, Publish, Same, asked
<1>2. /\ \/ file' = [file EXCEPT ![This] = Published(This)]
         \/ file' = file /\ This = "key" /\ fresh.key = file["key"]
         \/ file' = file /\ pc' = "undo"
      /\ \/ NextFile("publish", "commit") /\ faults' = faults
         \/ Proceed("undo") /\ faults' = faults + 1
  BY Zenon, <1>1 DEF Publish, Set, Proceed, Fault
<1>3. /\ \/ pc' = "publish" /\ Handled' = Handled \cup {This} /\ faults' = faults
         \/ pc' = "commit" /\ Files = Handled \cup {This} /\ faults' = faults
         \/ pc' = "undo" /\ Handled' = {} /\ faults' = faults + 1
  BY SMTT(30), <1>1, <1>2, Advances, Starts
<1>4. \A f \in Files : f # This => file'[f] = file[f]
  BY <1>1, <1>2, Changed
<1>5. pc' \in {"publish", "commit"} => file'[This] = Published(This)
  <2>1. [file EXCEPT ![This] = Published(This)][This] = Published(This)
    BY Zenon, <1>1, Changed
  <2> QED
    BY Zenon, <1>2, <1>3, <2>1 DEF Published
<1>6. \A f \in Files : journal.existed[f] <=> Saved(f)
  BY Zenon, <1>1 DEF PInv, Undoable
<1>7. \A f \in Files : Published(f)' = Published(f)
  BY Zenon, <1>1 DEF Published
<1>8. Undoable'
  BY <1>1, <1>3, <1>4, <1>5, <1>6, <1>7 DEF PInv, Undoable, Saved, IsPrepared
<1>9. Undoing'
  BY Zenon, <1>1, <1>3 DEF Undoing
<1>10. Failures'
  BY <1>1, <1>3 DEF PInv, Failures
<1>11. \A f \in Files : At(f)' = At(f)
  BY Zenon, <1>1, <1>6 DEF At, Saved, IsPrepared
<1>12. Logical' = Logical
  BY Zenon, <1>1, <1>11, SameLogical
<1>13. Keyed'
  BY Zenon, <1>1, <1>12 DEF PInv, Keyed
<1> QED
  BY Zenon, <1>8, <1>9, <1>10, <1>12, <1>13 DEF PInv

\* commit: the new set is the one recovery would leave, from here on.
LEMMA UCommit ==
    ASSUME PInv, RInv', Commit
    PROVE  /\ PInv' /\ request' = request
           /\ Logical' = Logical \/ Store!Publish
<1>1. /\ pc = "commit" /\ IsPrepared
      /\ UNCHANGED <<file, backup, operators, request, who, fresh, incomplete>>
      /\ TypeOK /\ TypeOK' /\ ~incomplete /\ faults' \in Nat
  <2>1. faults' \in Nat
    BY DEF PInv, Failures, Commit, Fault
  <2> QED
    BY Zenon, <2>1 DEF PInv, RInv, Stages, Failures, Commit, Same, asked
<1>2. /\ journal' \in {journal, Committed}
      /\ pc' = "idle" \/ pc' = "clean"
  BY Zenon, Starts DEF Commit
<1>3. CASE journal' = journal
  <2>1. Logical' = Logical
    BY Zenon, <1>1, <1>3 DEF Logical, Files
  <2>2. Undoable' /\ Undoing' /\ Failures' /\ Keyed'
    BY Zenon, <1>1, <1>2, <1>3 DEF PInv, Undoable, Undoing, Failures, Keyed, IsPrepared, Saved
  <2> QED
    BY Zenon, <1>1, <2>1, <2>2 DEF PInv
<1>4. CASE journal' = Committed
  <2>1. ~IsPrepared'
    BY Zenon, <1>4, JournalType DEF IsPrepared
  <2>2. Undoable' /\ Undoing' /\ Failures' /\ Keyed'
    BY Zenon, <1>1, <1>2, <2>1 DEF PInv, Undoable, Undoing, Failures, Keyed
  <2>3. \A f \in Files : At(f)' = Published(f)
    BY Zenon, <1>1, <2>1 DEF At, PInv, Undoable
  <2>4. Logical' = [f \in Files |-> Published(f)]
    <3>1. Logical' = [f \in Files |-> At(f)']
      BY Zenon, <1>1 DEF TypeOK, Journals, Logical, At, IsPrepared, Saved, Files
    <3> QED
      BY Zenon, <2>3, <3>1
  <2>5. Files = {"key", "crt", "pin", "spki", "marker"}
    BY Zenon, <1>1, ThisFile DEF TypeOK
  <2>6. Logical' = Store!Whole(fresh.gen, fresh.key)
    BY Zenon, <2>4, <2>5 DEF Published, Store!Whole, Store!Files
  <2>7. /\ fresh.gen \in 1 .. MaxIssued /\ fresh.key \in 0 .. MaxIssued
        /\ fresh.key = Logical["key"] \/ Logical["key"] = Absent \/ request = "Rekey"
    BY Zenon, <1>1 DEF PInv, Keyed, TypeOK, Numbers
  <2>8. Store!Publish
    BY Zenon, <1>1, <2>6, <2>7 DEF Store!Publish
  <2> QED
    BY Zenon, <1>1, <2>2, <2>8 DEF PInv
<1> QED
  BY Zenon, <1>2, <1>3, <1>4

\* The backups of a committed publication are removed.
LEMMA UClean ==
    ASSUME PInv, RInv', Clean
    PROVE  PInv' /\ Logical' = Logical
<1>1. /\ pc = "clean" /\ i \in 1 .. 5 /\ IsCommitted /\ ~IsPrepared /\ ~incomplete
      /\ UNCHANGED <<file, journal, operators, request, who, fresh, incomplete>>
      /\ TypeOK /\ TypeOK' /\ faults' \in Nat
  <2>1. faults' \in Nat
    BY DEF PInv, Failures, Clean, Fault
  <2> QED
    BY Zenon, <2>1 DEF PInv, RInv, TypeOK, Stages, Failures, Clean, Same, asked, IsCommitted, IsPrepared
<1>2. pc' \in {"clean", "done", "idle"}
  BY Zenon, <1>1, Advances, Starts DEF Clean
<1>3. ~IsPrepared' /\ IsCommitted'
  BY Zenon, <1>1 DEF IsPrepared, IsCommitted
<1>4. Undoable' /\ Undoing' /\ Failures' /\ Keyed'
  BY Zenon, <1>1, <1>2, <1>3 DEF PInv, Undoable, Undoing, Failures, Keyed
<1>5. \A f \in Files : At(f)' = At(f)
  BY Zenon, <1>1, <1>3 DEF At
<1> QED
  BY Zenon, <1>1, <1>4, <1>5, SameLogical DEF PInv

\* A roll-back step can fail only for the installer, which takes note.
LEMMA NoFault ==
    ASSUME PInv, Journalled, pc \in {"undo", "undo2", "drop"}, Fault
    PROVE  who # "macos" /\ faults' \in Nat
<1>1. faults \in Nat /\ faults' = faults + 1 /\ faults < MaxFaults
      /\ (who = "macos" => faults >= 1) /\ who \in Publishers
  BY Zenon DEF PInv, RInv, TypeOK, Failures, Fault
<1> QED
  BY <1>1 DEF Journalled

\* roll_back looks at one file.
LEMMA UUndo ==
    ASSUME PInv, RInv', Undo
    PROVE  PInv' /\ Logical' = Logical
<1>1. /\ pc = "undo" /\ i \in 1 .. 5 /\ This \in Files /\ IsPrepared
      /\ Handled \subseteq Files /\ This \notin Handled
      /\ UNCHANGED <<backup, journal, operators, request, who, fresh, incomplete, faults>>
      /\ TypeOK /\ TypeOK'
  BY Zenon, ThisFile DEF PInv, RInv, TypeOK, Stages, Undo, asked
<1>2. \A f \in Files : ~journal.existed[f] => ~Saved(f)
  BY Zenon, <1>1 DEF PInv, Undoable
<1>3. CASE Saved(This)
  <2>1. file' = [file EXCEPT ![This] = Absent] /\ pc' = "undo2" /\ Handled' = Handled
    BY Zenon, <1>3 DEF Undo, Set, Saved, Handled
  <2>2. \A f \in Files : f # This => file'[f] = file[f]
    BY <1>1, <2>1, Changed
  <2>3. Undoable' /\ Undoing' /\ Failures' /\ Keyed'
    BY Zenon, <1>1, <1>2, <2>1 DEF PInv, Undoable, Undoing, Failures, Keyed, Saved, IsPrepared
  <2>4. \A f \in Files : At(f)' = At(f)
    BY Zenon, <1>1, <1>3, <2>2 DEF At, Saved, IsPrepared
  <2> QED
    BY Zenon, <1>1, <2>3, <2>4, SameLogical DEF PInv
<1>4. CASE ~Saved(This)
  <2>1. /\ file' = file
        /\ \/ pc' = "undo" /\ Handled' = Handled \cup {This}
           \/ pc' = "drop" /\ Handled' = {} /\ Files = Handled \cup {This}
    BY Zenon, <1>1, <1>4, Advances DEF Undo, Saved
  <2>2. Undoable' /\ Failures' /\ Keyed'
    BY Zenon, <1>1, <1>2, <2>1 DEF PInv, Undoable, Failures, Keyed, Saved, IsPrepared
  <2>3. Undoing'
    BY Zenon, <1>1, <1>4, <2>1 DEF PInv, Undoing, Saved, IsPrepared
  <2>4. \A f \in Files : At(f)' = At(f)
    BY Zenon, <1>1, <2>1 DEF At, Saved, IsPrepared
  <2> QED
    BY Zenon, <1>1, <2>2, <2>3, <2>4, SameLogical DEF PInv
<1> QED
  BY Zenon, <1>3, <1>4

\* roll_back puts one file back.
LEMMA UUndoRename ==
    ASSUME PInv, RInv', Journalled, UndoRename
    PROVE  PInv' /\ Logical' = Logical
<1>1. /\ pc = "undo2" /\ i \in 1 .. 5 /\ This \in Files /\ IsPrepared /\ Saved(This)
      /\ Handled \subseteq Files /\ This \notin Handled
      /\ UNCHANGED <<journal, operators, request, who, fresh>>
      /\ TypeOK /\ TypeOK'
  BY Zenon, ThisFile DEF PInv, RInv, TypeOK, Stages, UndoRename, asked
<1>2. (\A f \in Files : ~journal.existed[f] => ~Saved(f)) /\ journal.existed[This]
  BY Zenon, <1>1 DEF PInv, Undoable
<1>3. /\ \/ pc' = "undo" /\ Handled' = Handled \cup {This}
         \/ pc' = "drop" /\ Handled' = {} /\ Files = Handled \cup {This}
  BY Zenon, <1>1, Advances DEF UndoRename
<1>4. \/ UNCHANGED <<faults, incomplete>>
      \/ who # "macos" /\ faults' \in Nat /\ incomplete' = TRUE
  BY Zenon, <1>1, NoFault DEF UndoRename
<1>5. Failures'
  BY <1>1, <1>3, <1>4 DEF PInv, Failures
<1>6. CASE Set(This, backup[This]) /\ backup' = [backup EXCEPT ![This] = Absent]
  <2>1. /\ Logical' = Logical /\ backup'[This] = Absent
        /\ \A g \in Files : g # This => backup'[g] = backup[g]
    BY Zenon, <1>1, <1>2, <1>6, PutsBack DEF Set
  <2>2. Undoable' /\ Keyed'
    BY Zenon, <1>1, <1>2, <1>3, <2>1 DEF PInv, Undoable, Keyed, Saved, IsPrepared
  <2>3. Undoing'
    BY Zenon, <1>1, <1>3, <1>4, <2>1 DEF PInv, Undoing, Saved
  <2> QED
    BY Zenon, <1>5, <2>1, <2>2, <2>3 DEF PInv
<1>7. CASE incomplete' = TRUE /\ UNCHANGED <<file, backup>>
  <2>1. Logical' = Logical
    BY Zenon, <1>1, <1>7 DEF Logical, Files
  <2>2. Undoable' /\ Keyed'
    BY Zenon, <1>1, <1>2, <1>3, <1>7 DEF PInv, Undoable, Keyed, Saved, IsPrepared
  <2>3. Undoing'
    BY Zenon, <1>3, <1>7 DEF Undoing
  <2> QED
    BY Zenon, <1>5, <2>1, <2>2, <2>3 DEF PInv
<1> QED
  BY Zenon, <1>6, <1>7 DEF UndoRename

\* roll_back removes what the publication created.
LEMMA UDrop ==
    ASSUME PInv, RInv', Journalled, Drop
    PROVE  PInv' /\ Logical' = Logical
<1>1. /\ pc = "drop" /\ i \in 1 .. 5 /\ This \in Files /\ IsPrepared
      /\ Handled \subseteq Files /\ This \notin Handled
      /\ UNCHANGED <<backup, journal, operators, request, who, fresh>>
      /\ TypeOK /\ TypeOK'
  BY Zenon, ThisFile DEF PInv, RInv, TypeOK, Stages, Drop, asked
<1>2. \A f \in Files : ~journal.existed[f] => ~Saved(f)
  BY Zenon, <1>1 DEF PInv, Undoable
<1>3. /\ \/ pc' = "drop" /\ Handled' = Handled \cup {This}
         \/ pc' = "undone?" /\ Files = Handled \cup {This}
  BY Zenon, <1>1, Advances DEF Drop
<1>4. \/ UNCHANGED <<faults, incomplete>>
         /\ file' = IF journal.existed[This] THEN file ELSE [file EXCEPT ![This] = Absent]
      \/ who # "macos" /\ faults' \in Nat /\ incomplete' = TRUE /\ file' = file
  BY Zenon, <1>1, NoFault DEF Drop
<1>5. Failures'
  BY SMTT(30), <1>1, <1>3, <1>4 DEF PInv, Failures
<1>6. /\ \A f \in Files : f # This \/ journal.existed[f] => file'[f] = file[f]
      /\ incomplete' = TRUE \/ (~journal.existed[This] => file'[This] = Absent)
  BY SMTT(60), <1>1, <1>4, Changed
<1>7. \A f \in Files : At(f)' = At(f)
  BY Zenon, <1>1, <1>2, <1>6 DEF At, Saved, IsPrepared
<1>8. Logical' = Logical
  BY Zenon, <1>1, <1>7, SameLogical
<1>9. Undoable' /\ Keyed'
  BY Zenon, <1>1, <1>2, <1>3 DEF PInv, Undoable, Keyed, Saved, IsPrepared
<1>10. Undoing'
  <2>1. CASE incomplete' = TRUE
    BY Zenon, <1>1, <1>3, <2>1 DEF Undoing, IsPrepared
  <2>2. CASE incomplete' = incomplete /\ (~journal.existed[This] => file'[This] = Absent)
    BY Zenon, <1>1, <1>3, <1>6, <2>2 DEF PInv, Undoing, PutBack, Saved, Present, IsPrepared
  <2> QED
    BY Zenon, <1>4, <1>6, <2>1, <2>2
<1> QED
  BY Zenon, <1>5, <1>8, <1>9, <1>10 DEF PInv

\* roll_back is done: the journal may go, unless the installer could not undo something.
LEMMA UUndone ==
    ASSUME PInv, RInv', Undone
    PROVE  PInv' /\ Logical' = Logical
<1>1. /\ pc = "undone?" /\ UNCHANGED <<file, backup, journal, who, request, faults>>
      /\ ~incomplete' /\ pc' = IF KeepsJournal THEN "idle" ELSE "undone"
  BY Starts DEF Undone, disk, asked
<1>2. who \in {"installer", "macos"}
  BY Zenon, PublishersAssumption DEF PInv, RInv, TypeOK, Undoable, Requests
<1>3. IsPrepared /\ (pc' = "undone" => \A f \in Files : PutBack(f))
  BY Zenon, <1>1, <1>2 DEF PInv, Undoing, Failures, KeepsJournal
<1>4. Undoable' /\ Failures' /\ Keyed'
  BY Zenon, <1>1 DEF PInv, Undoable, Failures, Keyed, IsPrepared, Saved
<1>5. Undoing'
  BY Zenon, <1>1, <1>3 DEF Undoing, PutBack, Saved, Present, IsPrepared
<1>6. Logical' = Logical
  BY Zenon, <1>1 DEF Logical, Files
<1> QED
  BY Zenon, <1>4, <1>5, <1>6 DEF PInv

\* The process dies.
LEMMA UCrash ==
    ASSUME PInv, RInv', Crash
    PROVE  PInv' /\ Logical' = Logical
  BY Zenon, Starts, UStops DEF Crash, disk, asked, PInv, Failures

\* Initial states map to initial states of CertStore.
LEMMA PInit ==
    ASSUME CertInit, Journalled
    PROVE  PInv /\ Store!Init
<1>1. RInv /\ pc = "idle" /\ journal = Absent /\ faults = 0 /\ incomplete = FALSE
      /\ who \in Publishers /\ request = "Ensure"
  BY Zenon, RInit DEF CertInit
<1>2. Undoable /\ Undoing /\ Failures /\ Keyed
  BY Zenon, <1>1 DEF Journalled, Undoable, Undoing, Failures, Keyed, IsPrepared
<1>3. Files = {"key", "crt", "pin", "spki", "marker"}
  BY Zenon, <1>1, ThisFile DEF RInv, TypeOK
<1>4. PICK present \in {{}, {"key", "crt"}, {"key", "crt", "pin", "spki"}, Files} :
        file = [f \in Files |-> IF f \notin present THEN Absent
                                ELSE IF f \in {"key", "spki"} THEN 0 ELSE <<0, 0>>]
  BY Zenon DEF CertInit
<1>5. Logical = [f \in Files |-> IF f \in present THEN Store!Whole(0, 0)[f] ELSE Absent]
  BY Zenon, <1>1, <1>3, <1>4 DEF Logical, Store!Whole, Store!Files
<1>6. Logical \in Store!Initial
  BY Zenon, <1>3, <1>4, <1>5 DEF Store!Initial, Store!Files
<1> QED
  BY Zenon, <1>1, <1>2, <1>6 DEF PInv, Store!Init

\* A step is the operator's request, a publication as a whole, or nothing.
LEMMA PNext ==
    ASSUME PInv, Journalled, [CertNext]_certVars
    PROVE  PInv' /\ [Store!Next]_<<Logical, request>>
<1>1. RInv'
  BY Zenon, RNext DEF PInv
<1>2. CASE Start
  <2>1. PInv' /\ Logical' = Logical
    BY Zenon, <1>1, <1>2, UStart
  <2>2. request' \in {"Ensure", "Renew", "Rekey", "AdoptLegacy"}
    BY Zenon, <1>1 DEF RInv, TypeOK
  <2> QED
    BY Zenon, <2>1, <2>2 DEF Store!Next, Store!Ask
<1>3. CASE Commit
  BY Zenon, <1>1, <1>3, UCommit DEF Store!Next
<1>4. CASE UNCHANGED certVars
  <2>1. Undoable' /\ Undoing' /\ Failures'
    BY <1>4 DEF certVars, disk, asked, PInv, Undoable, Undoing, Failures, IsPrepared, IsCommitted,
       Present, Saved, PutBack, Published, Handled
  <2>2. Logical' = Logical /\ request' = request
    BY Zenon, <1>4 DEF certVars, disk, asked, Logical, Files
  <2>3. Keyed'
    BY Zenon, <1>4, <2>2 DEF certVars, PInv, Keyed
  <2> QED
    BY Zenon, <1>1, <2>1, <2>2, <2>3 DEF PInv
<1>5. CASE \/ Recover \/ Restore \/ ClearJournal \/ Decide \/ Begin \/ Backup \/ Publish \/ Clean
           \/ Undo \/ UndoRename \/ Drop \/ Undone \/ Crash
  <2>1. PInv' /\ Logical' = Logical
    BY Zenon, <1>1, <1>5, URecover, URestore, UClearJournal, UDecide, UBegin, UBackup, UPublish, UClean,
       UUndo, UUndoRename, UDrop, UUndone, UCrash
  <2>2. request' = request
    BY Zenon, <1>5 DEF Recover, Restore, ClearJournal, Decide, Begin, Backup, Publish, Clean,
       Undo, UndoRename, Drop, Undone, Crash, Same, asked
  <2> QED
    BY Zenon, <2>1, <2>2
<1> QED
  BY Zenon, <1>2, <1>3, <1>4, <1>5 DEF CertNext

\* TransactionJournal, begin, commit, roll_back, recover_interrupted: under the installer,
\* whatever fails and whenever it dies, and under the macOS host while at most one file
\* operation fails, the certificate, its key, the pins and the marker change as one value.
THEOREM AlwaysAtomic ==
    ASSUME Journalled
    PROVE  CertSpec => PublishesAtomically
<1>1. CertInit => PInv /\ Store!Init
  BY Zenon, PInit
<1>2. PInv /\ [CertNext]_certVars => PInv' /\ [Store!Next]_<<Logical, request>>
  BY Zenon, PNext
<1> QED
  BY <1>1, <1>2, PTL DEF CertSpec, PublishesAtomically, Store!Spec

-----------------------------------------------------------------------------
(* Time-zone redirection: the invariant. *)

Leases == [original : Zones, target : Zones, phase : Phases]

\* The steps of reconcile with a copy of the lease: while the zone may still be
\* ours to restore, and once it is known not to be.
Owing == {"look", "restore", "apply", "check"}
Settling == {"settle", "settled", "remove", "removeArmed", "hold", "conflict", "rearm"}
Elsewhere == {"off", "read", "Err"}
RecoverySteps == {"off", "read"} \cup Owing \cup Settling \cup Outcomes

\* The broker's steps in reconcile, and those of begin_mapped before and after
\* the change.
Recoveries == {"entry", "startup", "failed", "finish", "drop"}
BeforeChange == {"arm", "spawn", "spawning", "disarm", "applying", "apply"}
WithLease == {"arm", "spawn", "spawning", "applying", "apply", "verify", "applied"}

\* A lease from which the zone of the machine is put back.
Restores(lease) ==
    /\ lease \in Leases
    /\ lease.original = before /\ lease.target = zone /\ before # zone
    /\ lease.phase \in ActivePhases

ZoneTypes ==
    /\ zone \in Zones
    /\ zoneJournal \in Leases \cup {None}
    /\ boots \in Nat
    /\ dog \in [Watchdogs -> {"none", "starting", "waiting", "restoring"}]
    /\ parent \in [Watchdogs -> Nat]
    /\ at \in [Processes -> RecoverySteps]
    /\ own \in [Processes -> Leases \cup {None}]

CanRestore == Redirected => Restores(zoneJournal)

\* A process in reconcile holds a lease that restores the zone, or is past it.
Held(p) ==
    /\ at[p] \in Owing \cup Settling => own[p] \in Leases
    /\ at[p] \in Owing /\ Redirected => Restores(own[p])
    /\ at[p] \in Settling \cup (Outcomes \ {"Err"}) => ~Redirected

\* The broker arms a new lease only when nothing is redirected.
BrokerInv ==
    /\ broker \in Recoveries <=> at["broker"] # "off"
    /\ broker \in BeforeChange => ~Redirected
    /\ broker = "idle" /\ safe => ~Redirected
    /\ broker = "drop" => ~safe
    /\ broker \in WithLease => Mine \in Leases /\ Mine.original # Mine.target
    /\ broker = "apply" => zoneJournal = Mine /\ Mine.phase = "Applying"
    /\ broker \in {"verify", "applied"} /\ Redirected => Restores(Mine)

\* The operator, and a watchdog, recover alone.
OperatorInv ==
    at["operator"] # "off" => /\ broker \in {"down", "idle", "active"}
                              /\ \A w \in Watchdogs : dog[w] \in {"none", "waiting"}

DogInv(w) ==
    /\ at[w] # "off" => dog[w] = "restoring"
    /\ broker # "down" => dog[w] # "restoring"
    /\ broker # "down" /\ dog[w] # "none" => parent[w] = boots
    /\ dog[w] = "starting" => /\ ~Redirected
                              /\ broker \in {"down", "spawning"}
                              /\ \A v \in Watchdogs : dog[v] = "starting" => v = w

ZoneInv ==
    /\ ZoneTypes
    /\ CanRestore
    /\ \A p \in Processes : Held(p)
    /\ BrokerInv
    /\ OperatorInv
    /\ \A w \in Watchdogs : DogInv(w)

\* What a step of one process leaves alone.
OnlyMoves(p) == \A q \in Processes \ {p} : at'[q] = at[q] /\ own'[q] = own[q]
Unredirects == before' = None \/ (zone' = zone /\ before' = before)

-----------------------------------------------------------------------------
(* Steps of the processes. *)

\* The processes are the broker, the operator and the watchdogs, all different.
LEMMA ZoneProcesses ==
    /\ "broker" \in Processes /\ "operator" \in Processes /\ "broker" # "operator"
    /\ \A w \in Watchdogs : w \in Processes /\ w # "broker" /\ w # "operator"
    /\ \A p \in Processes : p = "broker" \/ p = "operator" \/ p \in Watchdogs
BY Zenon, ProcessAssumption DEF Processes

\* Moving to a step.
LEMMA Moves ==
    ASSUME at \in [Processes -> RecoverySteps], NEW p \in Processes, NEW s \in RecoverySteps,
           at' = [at EXCEPT ![p] = s]
    PROVE  at' \in [Processes -> RecoverySteps] /\ at'[p] = s
           /\ \A q \in Processes \ {p} : at'[q] = at[q]
BY Zenon

\* Taking a lease, or forgetting it.
LEMMA Takes ==
    ASSUME own \in [Processes -> Leases \cup {None}], NEW p \in Processes,
           NEW l \in Leases \cup {None}, own' = [own EXCEPT ![p] = l]
    PROVE  own' \in [Processes -> Leases \cup {None}] /\ own'[p] = l
           /\ \A q \in Processes \ {p} : own'[q] = own[q]
BY Zenon

\* A lease keeps its zones through an event.
LEMMA LeaseEvents ==
    ASSUME NEW l \in Leases, NEW e \in DOMAIN To
    PROVE  /\ After(l, e) \in Leases /\ After(l, e).phase = To[e]
           /\ After(l, e).original = l.original /\ After(l, e).target = l.target
<1>1. To[e] \in Phases
  BY SMTT(30) DEF To, Phases
<1>2. PICK x : x = To[e]
  BY Zenon
<1> QED
  BY SMTT(30), <1>1, <1>2 DEF After, Leases

\* Who is in reconcile, and who is not then.
LEMMA Recovering ==
    ASSUME ZoneInv, NEW p \in Processes, at[p] # "off"
    PROVE  /\ broker \in {"down", "idle", "active"} \cup Recoveries
           /\ p # "broker" => broker \notin Recoveries
<1>1. CASE p = "broker"
  BY Zenon, <1>1 DEF ZoneInv, BrokerInv
<1>2. CASE p = "operator"
  BY SMTT(30), <1>2 DEF ZoneInv, OperatorInv, Recoveries
<1>3. CASE p \in Watchdogs
  <2>1. broker = "down"
    BY Zenon, <1>3 DEF ZoneInv, DogInv
  <2> QED
    BY Zenon, <2>1 DEF Recoveries
<1> QED
  BY Zenon, <1>1, <1>2, <1>3, ZoneProcesses

\* The other processes keep their copies.
LEMMA OthersHold ==
    ASSUME ZoneInv, NEW p \in Processes, OnlyMoves(p), Unredirects
    PROVE  \A q \in Processes \ {p} : Held(q)'
<1> SUFFICES ASSUME NEW q \in Processes \ {p} PROVE Held(q)'
  BY Zenon
<1>1. at'[q] = at[q] /\ own'[q] = own[q]
  BY Zenon DEF OnlyMoves
<1>2. Held(q)
  BY Zenon DEF ZoneInv
<1>3. ~Redirected' \/ (zone' = zone /\ before' = before)
  BY Zenon DEF Unredirects, Redirected
<1>4. Redirected' => Redirected
  BY Zenon, <1>3 DEF Redirected
<1>5. Redirected' => (Restores(own[q]) => Restores(own[q])')
  BY Zenon, <1>1, <1>3 DEF Restores
<1>6. at'[q] \in Owing \cup Settling => own'[q] \in Leases
  BY Zenon, <1>1, <1>2 DEF Held
<1>7. at'[q] \in Owing /\ Redirected' => Restores(own[q])'
  BY Zenon, <1>1, <1>2, <1>4, <1>5 DEF Held
<1>8. at'[q] \in Settling \cup (Outcomes \ {"Err"}) => ~Redirected'
  BY Zenon, <1>1, <1>2, <1>4 DEF Held
<1> QED
  BY Zenon, <1>6, <1>7, <1>8 DEF Held

\* A step of reconcile: what is left to show of it is the journal and its own copy.
LEMMA ReconcileShape ==
    ASSUME ZoneInv, NEW p \in Processes, at[p] # "off", UNCHANGED <<brokers, dogs>>,
           ZoneTypes', at'[p] # "off", OnlyMoves(p), Unredirects, CanRestore', Held(p)'
    PROVE  ZoneInv'
<1>1. broker' = broker /\ safe' = safe /\ boots' = boots /\ dog' = dog /\ parent' = parent
  BY Zenon DEF brokers, dogs
<1>2. Redirected' => Redirected
  BY Zenon DEF Unredirects, Redirected
<1>3. \A q \in Processes : Held(q)'
  BY Zenon, OthersHold
<1>4. \A q \in Processes : at'[q] # "off" <=> at[q] # "off"
  BY Zenon DEF OnlyMoves
<1>5. BrokerInv'
  <2>1. at'["broker"] # "off" <=> broker' \in Recoveries
    BY Zenon, <1>1, <1>4, ZoneProcesses DEF ZoneInv, BrokerInv
  <2>2. broker \in {"down", "idle", "active"} \cup Recoveries
    BY Zenon, Recovering
  <2>3. broker' \notin BeforeChange \cup WithLease
    BY SMTT(30), <2>2, <1>1 DEF BeforeChange, WithLease, Recoveries
  <2>4. (broker' = "idle" /\ safe' => ~Redirected') /\ (broker' = "drop" => ~safe')
    BY Zenon, <1>1, <1>2 DEF ZoneInv, BrokerInv
  <2>5. broker' # "apply" /\ broker' \notin {"verify", "applied"}
    BY SMTT(30), <2>3 DEF BeforeChange, WithLease
  <2> QED
    BY Zenon, <2>1, <2>3, <2>4, <2>5 DEF BrokerInv
<1>6. OperatorInv'
  BY Zenon, <1>1, <1>4, ZoneProcesses DEF ZoneInv, OperatorInv
<1>7. ASSUME NEW w \in Watchdogs PROVE DogInv(w)'
  BY Zenon, <1>1, <1>2, <1>4, ZoneProcesses DEF ZoneInv, DogInv
<1> QED
  BY Zenon, <1>3, <1>5, <1>6, <1>7 DEF ZoneInv

\* A step of the broker that leaves the watchdogs alone: what is left to show is
\* the journal, its own copy and its own invariant.
LEMMA BrokerShape ==
    ASSUME ZoneInv, broker # "down", broker # "spawning", broker' \notin {"down", "spawning"},
           ZoneTypes', OnlyMoves("broker"), dog' = dog, parent' = parent, boots' = boots,
           Unredirects \/ broker = "apply",
           at["operator"] # "off" => broker' \in {"idle", "active"},
           CanRestore', Held("broker")', BrokerInv'
    PROVE  ZoneInv'
<1>1. \A w \in Watchdogs : dog[w] # "starting" /\ at[w] = "off" /\ at'[w] = "off"
  <2>1. ASSUME NEW w \in Watchdogs PROVE DogInv(w) /\ at'[w] = at[w]
    BY Zenon, ZoneProcesses DEF ZoneInv, OnlyMoves
  <2>2. broker \notin {"down", "spawning"}
    BY Zenon
  <2> QED
    BY Zenon, <2>1, <2>2 DEF DogInv
<1>2. at'["operator"] = at["operator"]
  BY Zenon, ZoneProcesses DEF OnlyMoves
<1>3. \A q \in Processes : Held(q)'
  <2>1. CASE Unredirects
    BY Zenon, <2>1, OthersHold, ZoneProcesses
  <2>2. CASE broker = "apply"
    <3>1. at'["operator"] = "off"
      <4>1. broker \notin {"down", "idle", "active"}
        BY Zenon, <2>2
      <4> QED
        BY Zenon, <4>1, <1>2 DEF ZoneInv, OperatorInv
    <3>2. ASSUME NEW q, at'[q] = "off" PROVE Held(q)'
      <4>1. at'[q] \notin Owing \cup Settling /\ at'[q] \notin Settling \cup (Outcomes \ {"Err"})
        BY SMTT(30), <3>2 DEF Owing, Settling, Outcomes
      <4> QED
        BY Zenon, <4>1 DEF Held
    <3>3. \A w \in Watchdogs : Held(w)'
      BY Zenon, <1>1, <3>2
    <3>4. Held("operator")'
      BY Zenon, <3>1, <3>2
    <3> QED
      BY Zenon, <3>3, <3>4, ZoneProcesses
  <2> QED
    BY Zenon, <2>1, <2>2
<1>4. OperatorInv'
  <2>1. \A w \in Watchdogs : dog'[w] = dog[w]
    BY Zenon
  <2> QED
    BY Zenon, <1>2, <2>1 DEF ZoneInv, OperatorInv
<1>5. ASSUME NEW w \in Watchdogs PROVE DogInv(w)'
  <2>1. dog'[w] = dog[w] /\ parent'[w] = parent[w] /\ dog[w] # "starting" /\ at'[w] = "off"
    BY Zenon, <1>1
  <2>2. DogInv(w)
    BY Zenon DEF ZoneInv
  <2> QED
    BY Zenon, <2>1, <2>2 DEF DogInv
<1> QED
  BY Zenon, <1>3, <1>4, <1>5 DEF ZoneInv

-----------------------------------------------------------------------------
(* The steps of reconcile. *)

\* At a step that still owes the restoration, a process needs its lease.
LEMMA HeldOwing ==
    ASSUME NEW p, at'[p] \in Owing, own'[p] \in Leases, Redirected' => Restores(own[p])'
    PROVE  Held(p)'
<1>1. at'[p] \notin Settling \cup (Outcomes \ {"Err"})
  BY Zenon DEF Owing, Settling, Outcomes
<1> QED
  BY Zenon, <1>1 DEF Held

\* At a step past it, nothing is redirected.
LEMMA HeldSettling ==
    ASSUME NEW p, at'[p] \in Settling, own'[p] \in Leases, ~Redirected'
    PROVE  Held(p)'
BY Zenon DEF Held

\* The same of an outcome other than an error.
LEMMA HeldOutcome ==
    ASSUME NEW p, at'[p] \in Outcomes \ {"Err"}, ~Redirected'
    PROVE  Held(p)'
<1>1. at'[p] \notin Owing \cup Settling
  BY Zenon DEF Owing, Settling, Outcomes
<1> QED
  BY Zenon, <1>1 DEF Held

\* An error, a fresh start and a process elsewhere promise nothing.
LEMMA HeldFree ==
    ASSUME NEW p, at'[p] \in Elsewhere
    PROVE  Held(p)'
<1>1. at'[p] \notin Owing \cup Settling /\ at'[p] \notin Settling \cup (Outcomes \ {"Err"})
  BY Zenon DEF Owing, Settling, Outcomes, Elsewhere
<1> QED
  BY Zenon, <1>1 DEF Held

\* While the zone, the journal and the ghost stay, so do the facts about them.
LEMMA SharedStays ==
    ASSUME CanRestore, UNCHANGED shared
    PROVE  /\ CanRestore' /\ Unredirects /\ (Redirected' <=> Redirected)
           /\ \A l : Restores(l)' <=> Restores(l)
           /\ zone' = zone /\ zoneJournal' = zoneJournal
<1>1. zone' = zone /\ zoneJournal' = zoneJournal /\ before' = before
  BY Zenon DEF shared
<1>2. Redirected' <=> Redirected
  BY Zenon, <1>1 DEF Redirected
<1>3. \A l : Restores(l)' <=> Restores(l)
  BY Zenon, <1>1 DEF Restores
<1>4. CanRestore'
  BY Zenon, <1>1, <1>2 DEF CanRestore, Restores
<1> QED
  BY Zenon, <1>1, <1>2, <1>3, <1>4 DEF Unredirects

\* The types after a step of reconcile.
LEMMA ReconcileTypes ==
    ASSUME ZoneTypes, UNCHANGED <<brokers, dogs>>, at' \in [Processes -> RecoverySteps],
           own' \in [Processes -> Leases \cup {None}], zone' \in Zones,
           zoneJournal' \in Leases \cup {None}
    PROVE  ZoneTypes'
<1>1. boots' = boots /\ dog' = dog /\ parent' = parent
  BY Zenon DEF brokers, dogs
<1> QED
  BY Zenon, <1>1 DEF ZoneTypes

\* The journal is read: none means that nothing is redirected.
LEMMA ReadJournalKeeps ==
    ASSUME ZoneInv, NEW p \in Processes, ReadJournal(p), UNCHANGED <<brokers, dogs>>
    PROVE  ZoneInv'
<1>1. ZoneTypes /\ CanRestore
  BY Zenon DEF ZoneInv
<1>2. at \in [Processes -> RecoverySteps] /\ own \in [Processes -> Leases \cup {None}]
      /\ zone \in Zones /\ zoneJournal \in Leases \cup {None}
  BY Zenon, <1>1 DEF ZoneTypes
<1>3. at[p] # "off" /\ UNCHANGED shared
  BY Zenon DEF ReadJournal
<1>4. /\ CanRestore' /\ Unredirects /\ (Redirected' <=> Redirected)
      /\ \A l : Restores(l)' <=> Restores(l)
      /\ zone' = zone /\ zoneJournal' = zoneJournal
  BY Zenon, <1>1, <1>3, SharedStays
<1>5. CASE zoneJournal = None
  <2>1. at' = [at EXCEPT ![p] = "Clean"] /\ own' = own
    BY Zenon, <1>5 DEF ReadJournal, MoveTo
  <2>2. "Clean" \in RecoverySteps /\ "Clean" \in Outcomes \ {"Err"}
    BY Zenon DEF RecoverySteps, Outcomes
  <2>3. at' \in [Processes -> RecoverySteps] /\ at'[p] = "Clean"
        /\ \A q \in Processes \ {p} : at'[q] = at[q]
    BY Zenon, <1>2, <2>1, <2>2, Moves
  <2>4. ~Redirected'
    BY Zenon, <1>1, <1>4, <1>5, NoneAssumption DEF CanRestore, Restores, Leases
  <2>5. Held(p)'
    BY Zenon, <2>2, <2>3, <2>4, HeldOutcome
  <2>6. OnlyMoves(p) /\ at'[p] # "off"
    BY Zenon, <2>1, <2>3 DEF OnlyMoves
  <2>7. ZoneTypes'
    BY Zenon, <1>1, <1>2, <1>4, <2>1, <2>3, ReconcileTypes
  <2> QED
    BY Zenon, <1>3, <1>4, <2>5, <2>6, <2>7, ReconcileShape
<1>6. CASE zoneJournal # None
  <2>1. at' = [at EXCEPT ![p] = "look"] /\ own' = [own EXCEPT ![p] = zoneJournal]
    BY Zenon, <1>6 DEF ReadJournal, MoveTo
  <2>2. "look" \in RecoverySteps /\ "look" \in Owing
    BY Zenon DEF RecoverySteps, Owing
  <2>3. at' \in [Processes -> RecoverySteps] /\ at'[p] = "look"
        /\ \A q \in Processes \ {p} : at'[q] = at[q]
    BY Zenon, <1>2, <2>1, <2>2, Moves
  <2>4. own' \in [Processes -> Leases \cup {None}] /\ own'[p] = zoneJournal
        /\ \A q \in Processes \ {p} : own'[q] = own[q]
    BY Zenon, <1>2, <2>1, Takes
  <2>5. own'[p] \in Leases
    BY Zenon, <1>2, <1>6, <2>4
  <2>6. Redirected' => Restores(own[p])'
    BY Zenon, <1>4, <2>4 DEF CanRestore, Restores
  <2>7. Held(p)'
    BY Zenon, <2>2, <2>3, <2>5, <2>6, HeldOwing
  <2>8. OnlyMoves(p) /\ at'[p] # "off"
    BY Zenon, <2>3, <2>4 DEF OnlyMoves
  <2>9. ZoneTypes'
    BY Zenon, <1>1, <1>2, <1>4, <2>3, <2>4, ReconcileTypes
  <2> QED
    BY Zenon, <1>3, <1>4, <2>7, <2>8, <2>9, ReconcileShape
<1> QED
  BY Zenon, <1>5, <1>6

\* What a look at the zone decides.
LEMMA Looked ==
    ASSUME NEW l \in Leases, NEW z
    PROVE  /\ StepFor(l, z) \in {"restore"} \cup Settling
           /\ Adjudicated(l, z) \in Leases
           /\ l.phase \in ActivePhases /\ l.target = z /\ l.original # z
                => StepFor(l, z) = "restore" /\ Adjudicated(l, z) = l
<1>1. StepFor(l, z) \in {"restore"} \cup Settling
  BY Zenon DEF StepFor, Settling
<1>2. Adjudicated(l, z) \in Leases
  BY SMTT(30) DEF Adjudicated, Leases, Phases
<1>3. ASSUME l.phase \in ActivePhases, l.target = z, l.original # z
      PROVE  Directive(l, z) = "RestoreOriginal"
  BY SMTT(30), <1>3 DEF Directive, ActivePhases
<1>4. l.phase \in ActivePhases /\ l.target = z /\ l.original # z
        => StepFor(l, z) = "restore" /\ Adjudicated(l, z) = l
  BY SMTT(30), <1>3 DEF StepFor, Adjudicated
<1> QED
  BY Zenon, <1>1, <1>2, <1>4

\* The zone is compared with the lease: a redirected one is to be restored.
LEMMA LookKeeps ==
    ASSUME ZoneInv, NEW p \in Processes, Look(p), UNCHANGED <<brokers, dogs>>
    PROVE  ZoneInv'
<1>1. ZoneTypes /\ CanRestore /\ Held(p)
  BY Zenon DEF ZoneInv
<1>2. at \in [Processes -> RecoverySteps] /\ own \in [Processes -> Leases \cup {None}]
      /\ zone \in Zones /\ zoneJournal \in Leases \cup {None}
  BY Zenon, <1>1 DEF ZoneTypes
<1>3. at[p] = "look" /\ at[p] # "off" /\ UNCHANGED shared
  BY Zenon DEF Look
<1>4. /\ CanRestore' /\ Unredirects /\ (Redirected' <=> Redirected)
      /\ \A l : Restores(l)' <=> Restores(l)
      /\ zone' = zone /\ zoneJournal' = zoneJournal
  BY Zenon, <1>1, <1>3, SharedStays
<1>5. PICK s : s = StepFor(own[p], zone)
  BY Zenon
<1>6. PICK l : l = Adjudicated(own[p], zone)
  BY Zenon
<1>7. at' = [at EXCEPT ![p] = s] /\ own' = [own EXCEPT ![p] = l]
  BY Zenon, <1>5, <1>6 DEF Look, MoveTo
<1>8. own[p] \in Leases /\ (Redirected => Restores(own[p]))
  BY Zenon, <1>1, <1>3 DEF Held, Owing
<1>9. s \in {"restore"} \cup Settling /\ l \in Leases
  BY Zenon, <1>5, <1>6, <1>8, Looked
<1>10. Redirected => s = "restore" /\ l = own[p]
  BY Zenon, <1>5, <1>6, <1>8, Looked DEF Restores
<1>11. s \in RecoverySteps /\ s # "off"
  BY Zenon, <1>9 DEF RecoverySteps, Owing, Settling
<1>12. at' \in [Processes -> RecoverySteps] /\ at'[p] = s
       /\ \A q \in Processes \ {p} : at'[q] = at[q]
  BY Zenon, <1>2, <1>7, <1>11, Moves
<1>13. own' \in [Processes -> Leases \cup {None}] /\ own'[p] = l
       /\ \A q \in Processes \ {p} : own'[q] = own[q]
  BY Zenon, <1>2, <1>7, <1>9, Takes
<1>14. Held(p)'
  <2>1. own'[p] \in Leases
    BY Zenon, <1>9, <1>13
  <2>2. CASE s = "restore"
    <3>1. at'[p] \in Owing
      BY Zenon, <2>2, <1>12 DEF Owing
    <3>2. Redirected' => Restores(own[p])'
      BY Zenon, <1>4, <1>8, <1>10, <1>13 DEF Restores
    <3> QED
      BY Zenon, <2>1, <3>1, <3>2, HeldOwing
  <2>3. CASE s \in Settling
    <3>1. at'[p] \in Settling
      BY Zenon, <2>3, <1>12
    <3>2. ~Redirected'
      BY Zenon, <2>3, <1>4, <1>10 DEF Settling
    <3> QED
      BY Zenon, <2>1, <3>1, <3>2, HeldSettling
  <2> QED
    BY Zenon, <1>9, <2>2, <2>3
<1>15. OnlyMoves(p) /\ at'[p] # "off"
  BY Zenon, <1>11, <1>12, <1>13 DEF OnlyMoves
<1>16. ZoneTypes'
  BY Zenon, <1>1, <1>2, <1>4, <1>12, <1>13, ReconcileTypes
<1> QED
  BY Zenon, <1>3, <1>4, <1>14, <1>15, <1>16, ReconcileShape

\* What a step writes: the lease with its zones.
LEMMA WrittenLease ==
    ASSUME NEW p, own[p] \in Leases, Writing(p)
    PROVE  /\ Written(p) \in Leases
           /\ Written(p).original = own[p].original /\ Written(p).target = own[p].target
           /\ at[p] = "restore" => Written(p).phase = "Restoring"
           /\ at[p] = "restore" \/ at[p] \in Settling
<1>1. at[p] = "restore" \/ at[p] \in Settling
  BY SMTT(30) DEF Writing, Then, Settling
<1>2. CASE at[p] \in DOMAIN Event
  <2>1. PICK e : e = Event[at[p]]
    BY Zenon
  <2>2. e \in DOMAIN To /\ (at[p] = "restore" => To[e] = "Restoring")
    BY SMTT(30), <1>2, <2>1 DEF Event, To
  <2>3. Written(p) = After(own[p], e)
    BY Zenon, <1>2, <2>1 DEF Written
  <2>4. /\ After(own[p], e) \in Leases /\ After(own[p], e).phase = To[e]
        /\ After(own[p], e).original = own[p].original /\ After(own[p], e).target = own[p].target
    BY Zenon, <2>2, LeaseEvents
  <2> QED
    BY Zenon, <1>1, <2>2, <2>3, <2>4
<1>3. CASE at[p] \notin DOMAIN Event
  <2>1. Written(p) = own[p]
    BY Zenon, <1>3 DEF Written
  <2>2. at[p] # "restore"
    BY SMTT(30), <1>3 DEF Event
  <2> QED
    BY Zenon, <1>1, <2>1, <2>2
<1> QED
  BY Zenon, <1>2, <1>3

\* A write keeps the journal a lease that restores the zone.
LEMMA WriteKeepsJournal ==
    ASSUME ZoneInv, NEW p \in Processes, Writing(p), zoneJournal' = Written(p),
           zone' = zone, before' = before
    PROVE  /\ CanRestore' /\ Unredirects /\ (Redirected' <=> Redirected)
           /\ Written(p) \in Leases
           /\ Redirected => at[p] = "restore" /\ Restores(Written(p))
           /\ \A l : Restores(l)' <=> Restores(l)
<1>1. own[p] \in Leases /\ Held(p)
  <2>1. at[p] \in Owing \cup Settling
    BY SMTT(30) DEF Writing, Then, Owing, Settling
  <2> QED
    BY Zenon, <2>1 DEF ZoneInv, Held
<1>2. /\ Written(p) \in Leases
      /\ Written(p).original = own[p].original /\ Written(p).target = own[p].target
      /\ at[p] = "restore" => Written(p).phase = "Restoring"
      /\ at[p] = "restore" \/ at[p] \in Settling
  BY Zenon, <1>1, WrittenLease
<1>3. Redirected' <=> Redirected
  BY Zenon DEF Redirected
<1>4. \A l : Restores(l)' <=> Restores(l)
  BY Zenon DEF Restores
<1>5. ASSUME Redirected PROVE at[p] = "restore" /\ Restores(Written(p))
  <2>1. at[p] = "restore"
    BY Zenon, <1>1, <1>2, <1>5 DEF Held
  <2>2. Restores(own[p])
    BY Zenon, <1>1, <1>5, <2>1 DEF Held, Owing
  <2>3. Written(p).phase \in ActivePhases
    BY Zenon, <1>2, <2>1 DEF ActivePhases
  <2> QED
    BY Zenon, <1>2, <2>1, <2>2, <2>3 DEF Restores
<1>6. CanRestore'
  BY Zenon, <1>3, <1>4, <1>5 DEF CanRestore, Restores
<1> QED
  BY Zenon, <1>2, <1>3, <1>4, <1>5, <1>6 DEF Unredirects

\* The journal is written.
LEMMA WriteJournalKeeps ==
    ASSUME ZoneInv, NEW p \in Processes, WriteJournal(p), UNCHANGED <<brokers, dogs>>
    PROVE  ZoneInv'
<1>1. ZoneTypes /\ CanRestore /\ Held(p)
  BY Zenon DEF ZoneInv
<1>2. at \in [Processes -> RecoverySteps] /\ own \in [Processes -> Leases \cup {None}]
      /\ zone \in Zones /\ zoneJournal \in Leases \cup {None}
  BY Zenon, <1>1 DEF ZoneTypes
<1>3. Writing(p) /\ zoneJournal' = Written(p) /\ zone' = zone /\ before' = before
  BY Zenon DEF WriteJournal
<1>4. /\ CanRestore' /\ Unredirects /\ (Redirected' <=> Redirected)
      /\ Written(p) \in Leases
      /\ Redirected => at[p] = "restore" /\ Restores(Written(p))
      /\ \A l : Restores(l)' <=> Restores(l)
  BY Zenon, <1>3, WriteKeepsJournal
<1>5. PICK s : s = Then[at[p]]
  BY Zenon
<1>6. PICK l : l = Written(p)
  BY Zenon
<1>7. at' = [at EXCEPT ![p] = s] /\ own' = [own EXCEPT ![p] = l]
  BY Zenon, <1>5, <1>6 DEF WriteJournal, MoveTo
<1>8. /\ s \in {"apply", "restore", "settled", "remove", "Err", "HoldForOperator"}
      /\ at[p] = "restore" <=> s = "apply"
  BY SMTT(30), <1>3, <1>5 DEF Writing, Then
<1>9. s \in RecoverySteps /\ s # "off" /\ at[p] # "off"
  <2>1. s \in RecoverySteps /\ s # "off"
    BY Zenon, <1>8 DEF RecoverySteps, Owing, Settling, Outcomes
  <2>2. at[p] # "off"
    BY SMTT(30), <1>3 DEF Writing, Then
  <2> QED
    BY Zenon, <2>1, <2>2
<1>12. at' \in [Processes -> RecoverySteps] /\ at'[p] = s
       /\ \A q \in Processes \ {p} : at'[q] = at[q]
  BY Zenon, <1>2, <1>7, <1>9, Moves
<1>13. own' \in [Processes -> Leases \cup {None}] /\ own'[p] = l
       /\ \A q \in Processes \ {p} : own'[q] = own[q]
  BY Zenon, <1>2, <1>4, <1>6, <1>7, Takes
<1>14. Held(p)'
  <2>1. own'[p] \in Leases
    BY Zenon, <1>4, <1>6, <1>13
  <2>2. Redirected' => Restores(own[p])' /\ s = "apply"
    BY Zenon, <1>4, <1>6, <1>8, <1>13 DEF Restores
  <2>3. CASE s \in {"apply", "restore"}
    <3>1. at'[p] \in Owing
      BY Zenon, <2>3, <1>12 DEF Owing
    <3> QED
      BY Zenon, <2>1, <2>2, <3>1, HeldOwing
  <2>4. CASE s \in {"settled", "remove"}
    <3>1. at'[p] \in Settling /\ ~Redirected'
      BY Zenon, <2>2, <2>4, <1>12 DEF Settling
    <3> QED
      BY Zenon, <2>1, <3>1, HeldSettling
  <2>5. CASE s = "HoldForOperator"
    <3>1. at'[p] \in Outcomes \ {"Err"} /\ ~Redirected'
      BY Zenon, <2>2, <2>5, <1>12 DEF Outcomes
    <3> QED
      BY Zenon, <3>1, HeldOutcome
  <2>6. CASE s = "Err"
    <3>1. at'[p] \in Elsewhere
      BY Zenon, <2>6, <1>12 DEF Elsewhere
    <3> QED
      BY Zenon, <3>1, HeldFree
  <2> QED
    BY Zenon, <1>8, <2>3, <2>4, <2>5, <2>6
<1>15. OnlyMoves(p) /\ at'[p] # "off"
  BY Zenon, <1>9, <1>12, <1>13 DEF OnlyMoves
<1>16. zoneJournal' \in Leases \cup {None} /\ zone' \in Zones
  BY Zenon, <1>2, <1>3, <1>4
<1>17. ZoneTypes'
  BY Zenon, <1>1, <1>12, <1>13, <1>16, ReconcileTypes
<1> QED
  BY Zenon, <1>4, <1>9, <1>14, <1>15, <1>17, ReconcileShape

\* A failed step leaves an error, and the journal as it was or as it was written.
LEMMA RecoveryFailsKeeps ==
    ASSUME ZoneInv, NEW p \in Processes, RecoveryFails(p), UNCHANGED <<brokers, dogs>>
    PROVE  ZoneInv'
<1>1. ZoneTypes /\ CanRestore /\ Held(p)
  BY Zenon DEF ZoneInv
<1>2. at \in [Processes -> RecoverySteps] /\ own \in [Processes -> Leases \cup {None}]
      /\ zone \in Zones /\ zoneJournal \in Leases \cup {None}
  BY Zenon, <1>1 DEF ZoneTypes
<1>3. zone' = zone /\ before' = before /\ own' = own /\ at' = [at EXCEPT ![p] = "Err"]
  BY Zenon DEF RecoveryFails, MoveTo
<1>4. CanRestore' /\ Unredirects /\ zoneJournal' \in Leases \cup {None}
  <2>1. CASE zoneJournal' = zoneJournal
    <3>1. UNCHANGED shared
      BY Zenon, <1>3, <2>1 DEF shared
    <3> QED
      BY Zenon, <1>1, <1>2, <2>1, <3>1, SharedStays
  <2>2. CASE Writing(p) /\ zoneJournal' = Written(p)
    BY Zenon, <1>3, <2>2, WriteKeepsJournal
  <2> QED
    BY Zenon, <2>1, <2>2 DEF RecoveryFails
<1>5. at[p] # "off"
  BY SMTT(30) DEF RecoveryFails, Writing, Then
<1>6. "Err" \in RecoverySteps
  BY Zenon DEF RecoverySteps, Outcomes
<1>7. at' \in [Processes -> RecoverySteps] /\ at'[p] = "Err"
      /\ \A q \in Processes \ {p} : at'[q] = at[q]
  BY Zenon, <1>2, <1>3, <1>6, Moves
<1>8. Held(p)'
  <2>1. at'[p] \in Elsewhere
    BY Zenon, <1>7 DEF Elsewhere
  <2> QED
    BY Zenon, <2>1, HeldFree
<1>9. OnlyMoves(p) /\ at'[p] # "off"
  BY Zenon, <1>3, <1>7 DEF OnlyMoves
<1>10. ZoneTypes'
  BY Zenon, <1>1, <1>2, <1>3, <1>4, <1>7, ReconcileTypes
<1> QED
  BY Zenon, <1>4, <1>5, <1>8, <1>9, <1>10, ReconcileShape

\* The original is put back, or the call fails and the copy still names it.
LEMMA RestoreZoneKeeps ==
    ASSUME ZoneInv, NEW p \in Processes, RestoreZone(p), UNCHANGED <<brokers, dogs>>
    PROVE  ZoneInv'
<1>1. ZoneTypes /\ CanRestore /\ Held(p)
  BY Zenon DEF ZoneInv
<1>2. at \in [Processes -> RecoverySteps] /\ own \in [Processes -> Leases \cup {None}]
      /\ zone \in Zones /\ zoneJournal \in Leases \cup {None}
  BY Zenon, <1>1 DEF ZoneTypes
<1>3. at[p] = "apply" /\ zoneJournal' = zoneJournal /\ own' = own
      /\ at' = [at EXCEPT ![p] = "check"]
  BY Zenon DEF RestoreZone, MoveTo
<1>4. own[p] \in Leases /\ (Redirected => Restores(own[p]))
  BY Zenon, <1>1, <1>3 DEF Held, Owing
<1>5. \/ zone' = own[p].original /\ before' = None
      \/ zone' = zone /\ before' = before
  BY Zenon DEF RestoreZone, SetZone
<1>6. own[p].original \in Zones
  BY Zenon, <1>4 DEF Leases
<1>7. Unredirects /\ zone' \in Zones
  BY Zenon, <1>2, <1>5, <1>6 DEF Unredirects
<1>8. Redirected' => Redirected /\ zone' = zone /\ before' = before
  BY Zenon, <1>5 DEF Redirected
<1>9. CanRestore'
  BY Zenon, <1>1, <1>3, <1>8 DEF CanRestore, Restores
<1>10. "check" \in RecoverySteps
  BY Zenon DEF RecoverySteps, Owing
<1>11. at' \in [Processes -> RecoverySteps] /\ at'[p] = "check"
       /\ \A q \in Processes \ {p} : at'[q] = at[q]
  BY Zenon, <1>2, <1>3, <1>10, Moves
<1>12. Held(p)'
  <2>1. at'[p] \in Owing /\ own'[p] \in Leases
    BY Zenon, <1>3, <1>4, <1>11 DEF Owing
  <2>2. Redirected' => Restores(own[p])'
    BY Zenon, <1>3, <1>4, <1>8 DEF Restores
  <2> QED
    BY Zenon, <2>1, <2>2, HeldOwing
<1>13. OnlyMoves(p) /\ at'[p] # "off" /\ at[p] # "off"
  BY Zenon, <1>3, <1>11 DEF OnlyMoves
<1>14. zoneJournal' \in Leases \cup {None} /\ own' \in [Processes -> Leases \cup {None}]
  BY Zenon, <1>2, <1>3
<1>15. ZoneTypes'
  BY Zenon, <1>1, <1>7, <1>11, <1>14, ReconcileTypes
<1> QED
  BY Zenon, <1>7, <1>9, <1>12, <1>13, <1>15, ReconcileShape

\* The zone is read back: it is still redirected only with the target, an error.
LEMMA CheckKeeps ==
    ASSUME ZoneInv, NEW p \in Processes, Check(p), UNCHANGED <<brokers, dogs>>
    PROVE  ZoneInv'
<1>1. ZoneTypes /\ CanRestore /\ Held(p)
  BY Zenon DEF ZoneInv
<1>2. at \in [Processes -> RecoverySteps] /\ own \in [Processes -> Leases \cup {None}]
      /\ zone \in Zones /\ zoneJournal \in Leases \cup {None}
  BY Zenon, <1>1 DEF ZoneTypes
<1>3. at[p] = "check" /\ own' = own /\ UNCHANGED shared
  BY Zenon DEF Check
<1>4. /\ CanRestore' /\ Unredirects /\ (Redirected' <=> Redirected)
      /\ \A l : Restores(l)' <=> Restores(l)
      /\ zone' = zone /\ zoneJournal' = zoneJournal
  BY Zenon, <1>1, <1>3, SharedStays
<1>5. own[p] \in Leases /\ (Redirected => Restores(own[p]))
  BY Zenon, <1>1, <1>3 DEF Held, Owing
<1>6. PICK s : s = IF zone = own[p].original THEN "settled"
                   ELSE IF zone = own[p].target THEN "Err" ELSE "conflict"
  BY Zenon
<1>7. at' = [at EXCEPT ![p] = s]
  BY Zenon, <1>6 DEF Check, MoveTo
<1>8. s \in {"settled", "Err", "conflict"} /\ (Redirected => s = "Err")
  BY Zenon, <1>5, <1>6 DEF Restores
<1>9. s \in RecoverySteps /\ s # "off"
  BY Zenon, <1>8 DEF RecoverySteps, Settling, Outcomes
<1>10. at' \in [Processes -> RecoverySteps] /\ at'[p] = s
       /\ \A q \in Processes \ {p} : at'[q] = at[q]
  BY Zenon, <1>2, <1>7, <1>9, Moves
<1>11. Held(p)'
  <2>1. CASE s = "Err"
    <3>1. at'[p] \in Elsewhere
      BY Zenon, <2>1, <1>10 DEF Elsewhere
    <3> QED
      BY Zenon, <3>1, HeldFree
  <2>2. CASE s # "Err"
    <3>1. at'[p] \in Settling /\ own'[p] \in Leases /\ ~Redirected'
      BY Zenon, <2>2, <1>3, <1>4, <1>5, <1>8, <1>10 DEF Settling
    <3> QED
      BY Zenon, <3>1, HeldSettling
  <2> QED
    BY Zenon, <2>1, <2>2
<1>12. OnlyMoves(p) /\ at'[p] # "off" /\ at[p] # "off"
  BY Zenon, <1>3, <1>9, <1>10 DEF OnlyMoves
<1>13. ZoneTypes'
  BY Zenon, <1>1, <1>2, <1>3, <1>4, <1>10, ReconcileTypes
<1> QED
  BY Zenon, <1>4, <1>11, <1>12, <1>13, ReconcileShape

\* The journal is removed only when nothing is redirected.
LEMMA RemoveJournalKeeps ==
    ASSUME ZoneInv, NEW p \in Processes, RemoveJournal(p), UNCHANGED <<brokers, dogs>>
    PROVE  ZoneInv'
<1>1. ZoneTypes /\ CanRestore /\ Held(p)
  BY Zenon DEF ZoneInv
<1>2. at \in [Processes -> RecoverySteps] /\ own \in [Processes -> Leases \cup {None}]
      /\ zone \in Zones /\ zoneJournal \in Leases \cup {None}
  BY Zenon, <1>1 DEF ZoneTypes
<1>3. at[p] \in {"remove", "removeArmed"} /\ zoneJournal' = None
      /\ zone' = zone /\ before' = before /\ own' = own
  BY Zenon DEF RemoveJournal
<1>4. ~Redirected'
  BY Zenon, <1>1, <1>3 DEF Held, Settling, Redirected
<1>5. CanRestore' /\ Unredirects
  BY Zenon, <1>3, <1>4 DEF CanRestore, Unredirects
<1>6. PICK s : s = IF at[p] = "remove" THEN "Restored" ELSE "RemovedArmed"
  BY Zenon
<1>7. at' = [at EXCEPT ![p] = s]
  BY Zenon, <1>6 DEF RemoveJournal, MoveTo
<1>8. s \in RecoverySteps /\ s # "off" /\ s \in Outcomes \ {"Err"}
  <2>1. s \in {"Restored", "RemovedArmed"}
    BY Zenon, <1>6
  <2> QED
    BY Zenon, <2>1 DEF RecoverySteps, Outcomes
<1>9. at' \in [Processes -> RecoverySteps] /\ at'[p] = s
      /\ \A q \in Processes \ {p} : at'[q] = at[q]
  BY Zenon, <1>2, <1>7, <1>8, Moves
<1>10. Held(p)'
  BY Zenon, <1>4, <1>8, <1>9, HeldOutcome
<1>11. OnlyMoves(p) /\ at'[p] # "off" /\ at[p] # "off"
  BY Zenon, <1>3, <1>8, <1>9 DEF OnlyMoves
<1>12. zoneJournal' \in Leases \cup {None} /\ zone' \in Zones
       /\ own' \in [Processes -> Leases \cup {None}]
  BY Zenon, <1>2, <1>3
<1>13. ZoneTypes'
  BY Zenon, <1>1, <1>9, <1>12, ReconcileTypes
<1> QED
  BY Zenon, <1>5, <1>10, <1>11, <1>13, ReconcileShape

\* Every step of reconcile, of any process.
LEMMA ReconcileKeeps ==
    ASSUME ZoneInv, NEW p \in Processes, Reconcile(p)
    PROVE  ZoneInv'
<1>1. UNCHANGED <<brokers, dogs>>
  BY Zenon DEF Reconcile
<1> QED
  BY Zenon, <1>1, ReadJournalKeeps, LookKeeps, WriteJournalKeeps, RestoreZoneKeeps, CheckKeeps,
     RemoveJournalKeeps, RecoveryFailsKeeps DEF Reconcile

-----------------------------------------------------------------------------
(* The steps of the broker. *)

\* The types after a step of the broker.
LEMMA BrokerTypes ==
    ASSUME ZoneTypes, dog' = dog, parent' = parent, boots' = boots,
           at' \in [Processes -> RecoverySteps], own' \in [Processes -> Leases \cup {None}],
           zone' \in Zones, zoneJournal' \in Leases \cup {None}
    PROVE  ZoneTypes'
BY Zenon DEF ZoneTypes

\* Outside reconcile the broker and the operator do not meet.
LEMMA OperatorOff ==
    ASSUME ZoneInv, broker \notin {"down", "idle", "active"}
    PROVE  at["operator"] = "off"
BY Zenon DEF ZoneInv, OperatorInv

\* The broker starts a recovery.
LEMMA BrokerRecovers ==
    ASSUME ZoneInv, NEW step \in Recoveries, Reconciling(step), broker \notin {"down", "spawning"},
           dog' = dog, parent' = parent, boots' = boots, at["operator"] = "off",
           zone' \in Zones, zoneJournal' \in Leases \cup {None}, CanRestore',
           Unredirects \/ broker = "apply", step = "drop" => ~safe'
    PROVE  ZoneInv'
<1>1. ZoneTypes /\ at \in [Processes -> RecoverySteps] /\ own \in [Processes -> Leases \cup {None}]
  BY Zenon DEF ZoneInv, ZoneTypes
<1>2. broker' = step /\ at' = [at EXCEPT !["broker"] = "read"] /\ own' = own
  BY Zenon DEF Reconciling
<1>3. "broker" \in Processes /\ "read" \in RecoverySteps
  BY Zenon, ZoneProcesses DEF RecoverySteps
<1>4. at' \in [Processes -> RecoverySteps] /\ at'["broker"] = "read"
      /\ \A q \in Processes \ {"broker"} : at'[q] = at[q]
  BY Zenon, <1>1, <1>2, <1>3, Moves
<1>5. OnlyMoves("broker")
  BY Zenon, <1>2, <1>4 DEF OnlyMoves
<1>6. own' \in [Processes -> Leases \cup {None}]
  BY Zenon, <1>1, <1>2
<1>7. ZoneTypes'
  BY Zenon, <1>1, <1>4, <1>6, BrokerTypes
<1>8. Held("broker")'
  <2>1. at'["broker"] \in Elsewhere
    BY Zenon, <1>4 DEF Elsewhere
  <2> QED
    BY Zenon, <2>1, HeldFree
<1>9. broker' \in Recoveries /\ broker' \notin {"down", "spawning"}
  BY Zenon, <1>2 DEF Recoveries
<1>10. BrokerInv'
  <2>1. broker' \notin BeforeChange /\ broker' \notin WithLease /\ broker' # "idle"
        /\ broker' # "apply" /\ broker' \notin {"verify", "applied"}
    BY Zenon, <1>9 DEF BeforeChange, WithLease, Recoveries
  <2>2. at'["broker"] # "off"
    BY Zenon, <1>4
  <2>3. broker' = "drop" => ~safe'
    BY Zenon, <1>2
  <2> QED
    BY Zenon, <1>9, <2>1, <2>2, <2>3 DEF BrokerInv
<1>11. broker # "down" /\ broker # "spawning" /\ (at["operator"] # "off" => broker' \in {"idle", "active"})
  BY Zenon
<1> QED
  BY Zenon, <1>5, <1>7, <1>8, <1>9, <1>10, <1>11, BrokerShape

\* The broker ends what it was doing.
LEMMA BrokerIdles ==
    ASSUME ZoneInv, Step("idle"), broker \notin {"down", "spawning"},
           dog' = dog, parent' = parent, zone' = zone, before' = before,
           zoneJournal' \in Leases \cup {None}, CanRestore', safe' => ~Redirected
    PROVE  ZoneInv'
<1>1. ZoneTypes /\ at \in [Processes -> RecoverySteps] /\ own \in [Processes -> Leases \cup {None}]
      /\ zone \in Zones
  BY Zenon DEF ZoneInv, ZoneTypes
<1>2. broker' = "idle" /\ at' = [at EXCEPT !["broker"] = "off"]
      /\ own' = [own EXCEPT !["broker"] = None] /\ boots' = boots
  BY Zenon DEF Step, MoveTo, Forget
<1>3. "broker" \in Processes /\ "off" \in RecoverySteps /\ None \in Leases \cup {None}
  BY Zenon, ZoneProcesses DEF RecoverySteps
<1>4. at' \in [Processes -> RecoverySteps] /\ at'["broker"] = "off"
      /\ \A q \in Processes \ {"broker"} : at'[q] = at[q]
  BY Zenon, <1>1, <1>2, <1>3, Moves
<1>5. own' \in [Processes -> Leases \cup {None}] /\ own'["broker"] = None
      /\ \A q \in Processes \ {"broker"} : own'[q] = own[q]
  BY Zenon, <1>1, <1>2, <1>3, Takes
<1>6. OnlyMoves("broker")
  BY Zenon, <1>4, <1>5 DEF OnlyMoves
<1>7. zone' \in Zones
  BY Zenon, <1>1
<1>8. ZoneTypes'
  BY Zenon, <1>1, <1>2, <1>4, <1>5, <1>7, BrokerTypes
<1>9. Held("broker")'
  <2>1. at'["broker"] \in Elsewhere
    BY Zenon, <1>4 DEF Elsewhere
  <2> QED
    BY Zenon, <2>1, HeldFree
<1>10. BrokerInv'
  <2>1. broker' \notin BeforeChange /\ broker' \notin WithLease /\ broker' \notin Recoveries
        /\ broker' # "apply" /\ broker' \notin {"verify", "applied"} /\ broker' # "drop"
    BY Zenon, <1>2 DEF BeforeChange, WithLease, Recoveries
  <2>2. safe' => ~Redirected'
    BY Zenon DEF Redirected
  <2> QED
    BY Zenon, <1>4, <2>1, <2>2 DEF BrokerInv
<1>11. /\ broker # "down" /\ broker # "spawning" /\ broker' \notin {"down", "spawning"}
       /\ at["operator"] # "off" => broker' \in {"idle", "active"}
       /\ Unredirects
  BY Zenon, <1>2 DEF Unredirects
<1> QED
  BY Zenon, <1>2, <1>6, <1>8, <1>9, <1>10, <1>11, BrokerShape

\* The broker goes on outside reconcile.
LEMMA BrokerGoesOn ==
    ASSUME ZoneInv, broker \notin {"down", "spawning"} \cup Recoveries,
           broker' \in WithLease \cup {"active"}, broker' # "spawning",
           at' = at, own' \in [Processes -> Leases \cup {None}],
           \A q \in Processes \ {"broker"} : own'[q] = own[q],
           dog' = dog, parent' = parent, boots' = boots, at["operator"] = "off",
           zone' \in Zones, zoneJournal' \in Leases \cup {None}, CanRestore',
           Unredirects \/ broker = "apply",
           broker' \in BeforeChange => ~Redirected',
           broker' \in WithLease => Mine' \in Leases /\ Mine'.original # Mine'.target,
           broker' = "apply" => zoneJournal' = Mine' /\ Mine'.phase = "Applying",
           broker' \in {"verify", "applied"} /\ Redirected' => Restores(Mine)'
    PROVE  ZoneInv'
<1>1. ZoneTypes /\ at' \in [Processes -> RecoverySteps]
  BY Zenon DEF ZoneInv, ZoneTypes
<1>2. ZoneTypes'
  BY Zenon, <1>1, BrokerTypes
<1>3. at'["broker"] = "off"
  BY Zenon DEF ZoneInv, BrokerInv
<1>4. Held("broker")'
  <2>1. at'["broker"] \in Elsewhere
    BY Zenon, <1>3 DEF Elsewhere
  <2> QED
    BY Zenon, <2>1, HeldFree
<1>5. broker' \notin Recoveries /\ broker' # "idle" /\ broker' # "drop" /\ broker' # "down"
  BY Zenon DEF WithLease, Recoveries
<1>6. BrokerInv'
  BY Zenon, <1>3, <1>5 DEF BrokerInv
<1>7. OnlyMoves("broker")
  BY Zenon DEF OnlyMoves
<1>8. /\ broker # "down" /\ broker # "spawning" /\ broker' \notin {"down", "spawning"}
      /\ at["operator"] # "off" => broker' \in {"idle", "active"}
  BY Zenon, <1>5
<1> QED
  BY Zenon, <1>2, <1>4, <1>6, <1>7, <1>8, BrokerShape

\* The broker reconciles a second time.
LEMMA EntryDoneKeeps ==
    ASSUME ZoneInv, EntryDone
    PROVE  ZoneInv'
<1>1. /\ ZoneTypes /\ CanRestore /\ Held("broker") /\ BrokerInv
      /\ zone \in Zones /\ zoneJournal \in Leases \cup {None}
      /\ own \in [Processes -> Leases \cup {None}]
  BY Zenon, ZoneProcesses DEF ZoneInv, ZoneTypes
<1>2. /\ broker = "entry" /\ Reconciling("startup") /\ UNCHANGED shared
      /\ boots' = boots /\ dog' = dog /\ parent' = parent
  BY Zenon DEF EntryDone, RecoveryEnded, KeepOthers, dogs
<1>3. /\ CanRestore' /\ Unredirects /\ (Redirected' <=> Redirected)
      /\ zone' = zone /\ zoneJournal' = zoneJournal
  BY Zenon, <1>1, <1>2, SharedStays
<1>4. "startup" \in Recoveries /\ broker \notin {"down", "spawning"} /\ at["operator"] = "off"
  BY Zenon, <1>2, OperatorOff DEF Recoveries
<1>5. zone' \in Zones /\ zoneJournal' \in Leases \cup {None}
  BY Zenon, <1>1, <1>3
<1> QED
  BY Zenon, <1>2, <1>3, <1>4, <1>5, BrokerRecovers

\* A recovery that ended well found nothing redirected.
LEMMA EndedWell ==
    ASSUME ZoneInv, at["broker"] \in Outcomes, at["broker"] # "Err"
    PROVE  ~Redirected
BY Zenon, ZoneProcesses DEF ZoneInv, Held

\* The start-up ends: redirection is on only when nothing is left to undo.
LEMMA StartupDoneKeeps ==
    ASSUME ZoneInv, StartupDone
    PROVE  ZoneInv'
<1>1. /\ ZoneTypes /\ CanRestore /\ Held("broker") /\ BrokerInv
      /\ zone \in Zones /\ zoneJournal \in Leases \cup {None}
      /\ own \in [Processes -> Leases \cup {None}]
  BY Zenon, ZoneProcesses DEF ZoneInv, ZoneTypes
<1>2. /\ broker = "startup" /\ at["broker"] \in Outcomes /\ Step("idle") /\ UNCHANGED shared
      /\ safe' = (safe /\ at["broker"] \notin {"HoldForOperator", "Err"})
      /\ dog' = dog /\ parent' = parent
  BY Zenon DEF StartupDone, RecoveryEnded, KeepOthers, dogs, Disable
<1>3. /\ CanRestore' /\ Unredirects /\ (Redirected' <=> Redirected)
      /\ zone' = zone /\ zoneJournal' = zoneJournal
  BY Zenon, <1>1, <1>2, SharedStays
<1>4. safe' => ~Redirected
  <2>1. safe' => at["broker"] # "Err"
    BY Zenon, <1>2
  <2> QED
    BY Zenon, <1>2, <2>1, EndedWell
<1>5. broker \notin {"down", "spawning"} /\ zoneJournal' \in Leases \cup {None}
  BY Zenon, <1>1, <1>2, <1>3
<1>6. zone' = zone /\ before' = before
  BY Zenon, <1>2 DEF shared
<1> QED
  BY Zenon, <1>2, <1>3, <1>4, <1>5, <1>6, BrokerIdles

\* The same after a failed change.
LEMMA ApplyFailedKeeps ==
    ASSUME ZoneInv, ApplyFailed
    PROVE  ZoneInv'
<1>1. /\ ZoneTypes /\ CanRestore /\ Held("broker") /\ BrokerInv
      /\ zone \in Zones /\ zoneJournal \in Leases \cup {None}
      /\ own \in [Processes -> Leases \cup {None}]
  BY Zenon, ZoneProcesses DEF ZoneInv, ZoneTypes
<1>2. /\ broker = "failed" /\ at["broker"] \in Outcomes /\ Step("idle") /\ UNCHANGED shared
      /\ safe' = (safe /\ at["broker"] \notin {"HoldForOperator", "Err"})
      /\ dog' = dog /\ parent' = parent
  BY Zenon DEF ApplyFailed, RecoveryEnded, KeepOthers, dogs, Disable
<1>3. /\ CanRestore' /\ Unredirects /\ (Redirected' <=> Redirected)
      /\ zone' = zone /\ zoneJournal' = zoneJournal
  BY Zenon, <1>1, <1>2, SharedStays
<1>4. safe' => ~Redirected
  <2>1. safe' => at["broker"] # "Err"
    BY Zenon, <1>2
  <2> QED
    BY Zenon, <1>2, <2>1, EndedWell
<1>5. broker \notin {"down", "spawning"} /\ zoneJournal' \in Leases \cup {None}
  BY Zenon, <1>1, <1>2, <1>3
<1>6. zone' = zone /\ before' = before
  BY Zenon, <1>2 DEF shared
<1> QED
  BY Zenon, <1>2, <1>3, <1>4, <1>5, <1>6, BrokerIdles

\* A lease is drawn up for a zone nothing has redirected.
LEMMA BeginMappedKeeps ==
    ASSUME ~Overlap, ZoneInv, BeginMapped
    PROVE  ZoneInv'
<1>1. /\ ZoneTypes /\ CanRestore /\ Held("broker") /\ BrokerInv
      /\ zone \in Zones /\ zoneJournal \in Leases \cup {None}
      /\ own \in [Processes -> Leases \cup {None}]
  BY Zenon, ZoneProcesses DEF ZoneInv, ZoneTypes
<1>2. /\ broker = "idle" /\ safe /\ at["operator"] = "off" /\ UNCHANGED shared
      /\ broker' = "arm" /\ at' = at /\ boots' = boots /\ dog' = dog /\ parent' = parent
  BY Zenon DEF BeginMapped, BrokerAt, KeepOthers, dogs
<1>3. /\ CanRestore' /\ Unredirects /\ (Redirected' <=> Redirected)
      /\ zone' = zone /\ zoneJournal' = zoneJournal
  BY Zenon, <1>1, <1>2, SharedStays
<1>4. PICK target \in Zones \ {zone} : own' = [own EXCEPT !["broker"] = Arm(zone, target)]
  BY Zenon DEF BeginMapped
<1>5. PICK l : l = Arm(zone, target)
  BY Zenon
<1>6. l \in Leases /\ l.original # l.target
  BY SMTT(30), <1>1, <1>4, <1>5 DEF Arm, Leases, Phases
<1>7. own' \in [Processes -> Leases \cup {None}] /\ own'["broker"] = l
      /\ \A q \in Processes \ {"broker"} : own'[q] = own[q]
  <2>1. own' = [own EXCEPT !["broker"] = l] /\ l \in Leases \cup {None} /\ "broker" \in Processes
    BY Zenon, <1>4, <1>5, <1>6, ZoneProcesses
  <2> QED
    BY Zenon, <1>1, <2>1, Takes
<1>8. ~Redirected'
  BY Zenon, <1>1, <1>2, <1>3 DEF BrokerInv
<1>9. /\ broker \notin {"down", "spawning"} \cup Recoveries
      /\ broker' \in WithLease \cup {"active"} /\ broker' # "spawning"
      /\ broker' # "apply" /\ broker' \notin {"verify", "applied"}
  BY Zenon, <1>2 DEF WithLease, Recoveries
<1>10. zone' \in Zones /\ zoneJournal' \in Leases \cup {None}
  BY Zenon, <1>1, <1>3
<1>11. Mine' \in Leases /\ Mine'.original # Mine'.target
  BY Zenon, <1>6, <1>7 DEF Mine
<1> QED
  BY Zenon, <1>2, <1>3, <1>7, <1>8, <1>9, <1>10, <1>11, BrokerGoesOn

\* What begin_mapped writes: a lease with the zones of its own.
LEMMA ToWriteIsLease ==
    ASSUME ZoneInv, broker \in {"arm", "applying", "applied"}
    PROVE  /\ ToWrite \in Leases
           /\ ToWrite.original = Mine.original /\ ToWrite.target = Mine.target
           /\ ToWrite.original # ToWrite.target
           /\ broker = "applying" => ToWrite.phase = "Applying"
           /\ broker # "applied" => ~Redirected
           /\ Redirected => Restores(ToWrite)
<1>1. BrokerInv /\ Mine \in Leases /\ Mine.original # Mine.target
  BY Zenon DEF ZoneInv, BrokerInv, WithLease
<1>2. CASE broker = "arm"
  <2>1. ToWrite = Mine
    BY Zenon, <1>2 DEF ToWrite
  <2>2. ~Redirected
    BY Zenon, <1>1, <1>2 DEF BrokerInv, BeforeChange
  <2> QED
    BY Zenon, <1>1, <1>2, <2>1, <2>2
<1>3. CASE broker = "applying"
  <2>1. ToWrite = After(Mine, "BeginApply") /\ "BeginApply" \in DOMAIN To /\ To["BeginApply"] = "Applying"
    BY Zenon, <1>3 DEF ToWrite, To
  <2>2. ~Redirected
    BY Zenon, <1>1, <1>3 DEF BrokerInv, BeforeChange
  <2>3. /\ ToWrite \in Leases /\ ToWrite.phase = "Applying"
        /\ ToWrite.original = Mine.original /\ ToWrite.target = Mine.target
    BY Zenon, <1>1, <2>1, LeaseEvents
  <2> QED
    BY Zenon, <1>1, <1>3, <2>2, <2>3
<1>4. CASE broker = "applied"
  <2>1. ToWrite = After(Mine, "ApplySucceeded") /\ "ApplySucceeded" \in DOMAIN To
        /\ To["ApplySucceeded"] = "Applied"
    BY Zenon, <1>4 DEF ToWrite, To
  <2>2. /\ ToWrite \in Leases /\ ToWrite.phase = "Applied"
        /\ ToWrite.original = Mine.original /\ ToWrite.target = Mine.target
    BY Zenon, <1>1, <2>1, LeaseEvents
  <2>3. ToWrite.phase \in ActivePhases
    BY Zenon, <2>2 DEF ActivePhases
  <2>4. Redirected => Restores(Mine)
    BY Zenon, <1>1, <1>4 DEF BrokerInv
  <2>5. Redirected => Restores(ToWrite)
    BY Zenon, <2>2, <2>3, <2>4 DEF Restores
  <2> QED
    BY Zenon, <1>1, <1>4, <2>2, <2>5
<1> QED
  BY Zenon, <1>2, <1>3, <1>4

\* begin_mapped writes its lease.
LEMMA BeginWritesKeeps ==
    ASSUME ZoneInv, BeginWrites
    PROVE  ZoneInv'
<1>1. /\ ZoneTypes /\ CanRestore /\ Held("broker") /\ BrokerInv
      /\ zone \in Zones /\ zoneJournal \in Leases \cup {None}
      /\ own \in [Processes -> Leases \cup {None}] /\ at \in [Processes -> RecoverySteps]
  BY Zenon, ZoneProcesses DEF ZoneInv, ZoneTypes
<1>2. PICK l : l = ToWrite
  BY Zenon
<1>3. /\ broker \in {"arm", "applying", "applied"} /\ zoneJournal' = l
      /\ zone' = zone /\ before' = before
      /\ at' = at /\ boots' = boots /\ dog' = dog /\ parent' = parent
      /\ own' = [own EXCEPT !["broker"] = l]
  BY Zenon, <1>2 DEF BeginWrites, BrokerAt, KeepOthers, dogs
<1>4. /\ ToWrite \in Leases
      /\ ToWrite.original = Mine.original /\ ToWrite.target = Mine.target
      /\ ToWrite.original # ToWrite.target
      /\ broker = "applying" => ToWrite.phase = "Applying"
      /\ broker # "applied" => ~Redirected
      /\ Redirected => Restores(ToWrite)
  BY Zenon, <1>3, ToWriteIsLease
<1>5. /\ broker = "arm" => broker' = "spawn"
      /\ broker = "applying" => broker' = "apply"
      /\ broker = "applied" => broker' = "active"
  BY SMTT(30), <1>3 DEF BeginWrites
<1>6. own' \in [Processes -> Leases \cup {None}] /\ own'["broker"] = l
      /\ \A q \in Processes \ {"broker"} : own'[q] = own[q]
  <2>1. l \in Leases \cup {None} /\ "broker" \in Processes
    BY Zenon, <1>2, <1>4, ZoneProcesses
  <2> QED
    BY Zenon, <1>1, <1>3, <2>1, Takes
<1>7. (Redirected' <=> Redirected) /\ Unredirects
  BY Zenon, <1>3 DEF Redirected, Unredirects
<1>8. CanRestore'
  BY Zenon, <1>2, <1>3, <1>4, <1>7 DEF CanRestore, Restores
<1>9. broker' \in BeforeChange => ~Redirected'
  BY Zenon, <1>3, <1>4, <1>5, <1>7 DEF BeforeChange
<1>10. Mine' \in Leases /\ Mine'.original # Mine'.target
  BY Zenon, <1>2, <1>4, <1>6 DEF Mine
<1>11. broker' = "apply" => zoneJournal' = Mine' /\ Mine'.phase = "Applying"
  BY Zenon, <1>2, <1>3, <1>4, <1>5, <1>6 DEF Mine
<1>12. /\ broker \notin {"down", "spawning"} \cup Recoveries
       /\ broker' \in WithLease \cup {"active"} /\ broker' # "spawning"
       /\ broker' \notin {"verify", "applied"}
  BY Zenon, <1>3, <1>5 DEF WithLease, Recoveries
<1>13. zone' \in Zones /\ zoneJournal' \in Leases \cup {None}
  BY Zenon, <1>1, <1>2, <1>3, <1>4
<1>14. at["operator"] = "off"
  BY Zenon, <1>3, OperatorOff
<1> QED
  BY Zenon, <1>3, <1>6, <1>7, <1>8, <1>9, <1>10, <1>11, <1>12, <1>13, <1>14, BrokerGoesOn

\* A write of begin_mapped fails, published or not.
LEMMA BeginWriteFailsKeeps ==
    ASSUME ZoneInv, BeginWriteFails
    PROVE  ZoneInv'
<1>1. /\ ZoneTypes /\ CanRestore /\ Held("broker") /\ BrokerInv
      /\ zone \in Zones /\ zoneJournal \in Leases \cup {None}
      /\ own \in [Processes -> Leases \cup {None}] /\ at \in [Processes -> RecoverySteps]
  BY Zenon, ZoneProcesses DEF ZoneInv, ZoneTypes
<1>2. /\ broker \in {"arm", "applying", "applied"} /\ zoneJournal' \in {zoneJournal, ToWrite}
      /\ zone' = zone /\ before' = before /\ boots' = boots /\ dog' = dog /\ parent' = parent
  BY Zenon DEF BeginWriteFails, BrokerAt, KeepOthers, dogs
<1>3. /\ ToWrite \in Leases
      /\ ToWrite.original = Mine.original /\ ToWrite.target = Mine.target
      /\ ToWrite.original # ToWrite.target
      /\ broker = "applying" => ToWrite.phase = "Applying"
      /\ broker # "applied" => ~Redirected
      /\ Redirected => Restores(ToWrite)
  BY Zenon, <1>2, ToWriteIsLease
<1>4. (Redirected' <=> Redirected) /\ Unredirects
  BY Zenon, <1>2 DEF Redirected, Unredirects
<1>5. CanRestore' /\ zoneJournal' \in Leases \cup {None} /\ zone' \in Zones
  <2>1. CASE zoneJournal' = zoneJournal
    BY Zenon, <1>1, <1>2, <1>4, <2>1 DEF CanRestore, Restores
  <2>2. CASE zoneJournal' = ToWrite
    BY Zenon, <1>1, <1>2, <1>3, <1>4, <2>2 DEF CanRestore, Restores
  <2> QED
    BY Zenon, <1>2, <2>1, <2>2
<1>6. broker \notin {"down", "spawning"} /\ at["operator"] = "off"
  BY Zenon, <1>2, OperatorOff
<1>7. CASE broker = "applied"
  <2>1. Reconciling("finish") /\ "finish" \in Recoveries /\ "finish" # "drop"
    BY Zenon, <1>7 DEF BeginWriteFails, Recoveries
  <2> QED
    BY Zenon, <1>2, <1>4, <1>5, <1>6, <2>1, BrokerRecovers
<1>8. CASE broker # "applied"
  <2>1. Step("idle") /\ ~Redirected
    BY Zenon, <1>3, <1>8 DEF BeginWriteFails
  <2> QED
    BY Zenon, <1>2, <1>5, <1>6, <2>1, BrokerIdles
<1> QED
  BY Zenon, <1>7, <1>8

\* The armed journal is removed, or stays when that fails.
LEMMA DisarmKeeps ==
    ASSUME ZoneInv, Disarm
    PROVE  ZoneInv'
<1>1. /\ ZoneTypes /\ CanRestore /\ Held("broker") /\ BrokerInv
      /\ zone \in Zones /\ zoneJournal \in Leases \cup {None}
      /\ own \in [Processes -> Leases \cup {None}] /\ at \in [Processes -> RecoverySteps]
  BY Zenon, ZoneProcesses DEF ZoneInv, ZoneTypes
<1>2. /\ broker = "disarm" /\ Step("idle") /\ (zoneJournal' = None \/ zoneJournal' = zoneJournal)
      /\ zone' = zone /\ before' = before /\ dog' = dog /\ parent' = parent
  BY Zenon DEF Disarm, BrokerAt, KeepOthers, dogs
<1>3. ~Redirected /\ ~Redirected'
  BY Zenon, <1>1, <1>2 DEF BrokerInv, BeforeChange, Redirected
<1>4. CanRestore' /\ zoneJournal' \in Leases \cup {None} /\ broker \notin {"down", "spawning"}
  BY Zenon, <1>1, <1>2, <1>3 DEF CanRestore
<1> QED
  BY Zenon, <1>2, <1>3, <1>4, BrokerIdles

\* The change: the journal on disk names what it replaces.
LEMMA RedirectKeepsJournal ==
    ASSUME ZoneInv, broker = "apply", Redirect, zoneJournal' = zoneJournal, Mine' = Mine
    PROVE  CanRestore' /\ zone' \in Zones /\ Restores(Mine)'
<1>1. BrokerInv /\ ~Redirected /\ Mine \in Leases /\ Mine.original # Mine.target
      /\ zoneJournal = Mine /\ Mine.phase = "Applying"
  BY Zenon DEF ZoneInv, BrokerInv, BeforeChange, WithLease
<1>2. zone' = Mine.target /\ before' = Mine.original
  BY Zenon, <1>1 DEF Redirect, SetZone
<1>3. Mine.target \in Zones /\ Mine.phase \in ActivePhases
  BY Zenon, <1>1 DEF Leases, ActivePhases
<1>4. CanRestore'
  BY Zenon, <1>1, <1>2, <1>3 DEF CanRestore, Restores
<1>5. Restores(Mine)'
  BY Zenon, <1>1, <1>2, <1>3 DEF Restores
<1> QED
  BY Zenon, <1>2, <1>3, <1>4, <1>5

\* A process that is off and stays off does not move.
LEMMA StaysOff ==
    ASSUME at \in [Processes -> RecoverySteps], at["broker"] = "off",
           at' = [at EXCEPT !["broker"] = "off"]
    PROVE  at' = at
BY SMTT(30)

\* The zone is changed; a call that fails may have changed it too.
LEMMA ApplyZoneKeeps ==
    ASSUME ZoneInv, ApplyZone
    PROVE  ZoneInv'
<1>1. /\ ZoneTypes /\ CanRestore /\ Held("broker") /\ BrokerInv
      /\ zone \in Zones /\ zoneJournal \in Leases \cup {None}
      /\ own \in [Processes -> Leases \cup {None}] /\ at \in [Processes -> RecoverySteps]
  BY Zenon, ZoneProcesses DEF ZoneInv, ZoneTypes
<1>2. /\ broker = "apply" /\ at["broker"] = "off" /\ zoneJournal' = zoneJournal
      /\ boots' = boots /\ dog' = dog /\ parent' = parent
  BY Zenon DEF ApplyZone, BrokerAt, KeepOthers, dogs, Step
<1>3. Mine \in Leases /\ Mine.original # Mine.target /\ ~Redirected
  BY Zenon, <1>1, <1>2 DEF BrokerInv, WithLease, BeforeChange
<1>4. at["operator"] = "off" /\ broker \notin {"down", "spawning"} /\ zoneJournal' \in Leases \cup {None}
  BY Zenon, <1>1, <1>2, OperatorOff
<1>5. CASE Redirect /\ Step("verify")
  <2>1. broker' = "verify" /\ at' = [at EXCEPT !["broker"] = "off"] /\ own' = own
    BY Zenon, <1>5 DEF Step, MoveTo
  <2>2. at' = at
    BY Zenon, <1>1, <1>2, <2>1, StaysOff
  <2>3. Mine' = Mine
    BY Zenon, <2>1 DEF Mine
  <2>4. CanRestore' /\ zone' \in Zones /\ Restores(Mine)'
    BY Zenon, <1>2, <1>5, <2>3, RedirectKeepsJournal
  <2>5. /\ broker \notin {"down", "spawning"} \cup Recoveries
        /\ broker' \in WithLease \cup {"active"} /\ broker' # "spawning"
        /\ broker' \notin BeforeChange /\ broker' # "apply"
    BY Zenon, <1>2, <2>1 DEF WithLease, Recoveries, BeforeChange
  <2>6. /\ own' \in [Processes -> Leases \cup {None}]
        /\ \A q \in Processes \ {"broker"} : own'[q] = own[q]
        /\ Mine' \in Leases /\ Mine'.original # Mine'.target
    BY Zenon, <1>1, <1>3, <2>1, <2>3
  <2> QED
    BY Zenon, <1>2, <1>4, <2>2, <2>4, <2>5, <2>6, BrokerGoesOn
<1>6. CASE (Redirect \/ UNCHANGED <<zone, before>>) /\ Reconciling("failed")
  <2>1. Mine' = Mine /\ "failed" \in Recoveries /\ "failed" # "drop"
    BY Zenon, <1>6 DEF Mine, Reconciling, Recoveries
  <2>2. CanRestore' /\ zone' \in Zones
    <3>1. CASE Redirect
      BY Zenon, <1>2, <3>1, <2>1, RedirectKeepsJournal
    <3>2. CASE UNCHANGED <<zone, before>>
      BY Zenon, <1>1, <1>3, <3>2 DEF CanRestore, Redirected
    <3> QED
      BY Zenon, <1>6, <3>1, <3>2
  <2> QED
    BY Zenon, <1>2, <1>4, <1>6, <2>1, <2>2, BrokerRecovers
<1> QED
  BY Zenon, <1>5, <1>6 DEF ApplyZone

\* The zone is read back.
LEMMA VerifyKeeps ==
    ASSUME ZoneInv, Verify
    PROVE  ZoneInv'
<1>1. /\ ZoneTypes /\ CanRestore /\ Held("broker") /\ BrokerInv
      /\ zone \in Zones /\ zoneJournal \in Leases \cup {None}
      /\ own \in [Processes -> Leases \cup {None}] /\ at \in [Processes -> RecoverySteps]
  BY Zenon, ZoneProcesses DEF ZoneInv, ZoneTypes
<1>2. /\ broker = "verify" /\ at["broker"] = "off" /\ UNCHANGED shared
      /\ boots' = boots /\ dog' = dog /\ parent' = parent
  BY Zenon DEF Verify, BrokerAt, KeepOthers, dogs, Step
<1>3. /\ CanRestore' /\ Unredirects /\ (Redirected' <=> Redirected)
      /\ \A l : Restores(l)' <=> Restores(l)
      /\ zone' = zone /\ zoneJournal' = zoneJournal
  BY Zenon, <1>1, <1>2, SharedStays
<1>4. /\ at["operator"] = "off" /\ broker \notin {"down", "spawning"}
      /\ zone' \in Zones /\ zoneJournal' \in Leases \cup {None}
  BY Zenon, <1>1, <1>2, <1>3, OperatorOff
<1>5. CASE Step("applied")
  <2>1. broker' = "applied" /\ at' = [at EXCEPT !["broker"] = "off"] /\ own' = own
    BY Zenon, <1>5 DEF Step, MoveTo
  <2>2. at' = at
    BY Zenon, <1>1, <1>2, <2>1, StaysOff
  <2>3. Mine' = Mine /\ Mine \in Leases /\ Mine.original # Mine.target
    BY Zenon, <1>1, <1>2, <2>1 DEF Mine, BrokerInv, WithLease
  <2>4. Redirected' => Restores(Mine)'
    <3>1. Redirected => Restores(Mine)
      BY Zenon, <1>1, <1>2 DEF BrokerInv
    <3> QED
      BY Zenon, <1>3, <2>3, <3>1 DEF Restores
  <2>5. /\ broker \notin {"down", "spawning"} \cup Recoveries
        /\ broker' \in WithLease \cup {"active"} /\ broker' # "spawning"
        /\ broker' \notin BeforeChange /\ broker' # "apply"
    BY Zenon, <1>2, <2>1 DEF WithLease, Recoveries, BeforeChange
  <2>6. /\ own' \in [Processes -> Leases \cup {None}]
        /\ \A q \in Processes \ {"broker"} : own'[q] = own[q]
        /\ Mine' \in Leases /\ Mine'.original # Mine'.target
    BY Zenon, <1>1, <2>1, <2>3
  <2> QED
    BY Zenon, <1>2, <1>3, <1>4, <2>2, <2>4, <2>5, <2>6, BrokerGoesOn
<1>6. CASE Reconciling("finish")
  <2>1. "finish" \in Recoveries /\ "finish" # "drop"
    BY Zenon DEF Recoveries
  <2> QED
    BY Zenon, <1>2, <1>3, <1>4, <1>6, <2>1, BrokerRecovers
<1> QED
  BY Zenon, <1>5, <1>6 DEF Verify

\* The session ends.
LEMMA EndSessionKeeps ==
    ASSUME ~Overlap, ZoneInv, EndSession
    PROVE  ZoneInv'
<1>1. /\ ZoneTypes /\ CanRestore /\ Held("broker") /\ BrokerInv
      /\ zone \in Zones /\ zoneJournal \in Leases \cup {None}
      /\ own \in [Processes -> Leases \cup {None}] /\ at \in [Processes -> RecoverySteps]
  BY Zenon, ZoneProcesses DEF ZoneInv, ZoneTypes
<1>2. /\ broker = "active" /\ at["operator"] = "off" /\ UNCHANGED shared /\ Reconciling("finish")
      /\ boots' = boots /\ dog' = dog /\ parent' = parent
  BY Zenon DEF EndSession, BrokerAt, KeepOthers, dogs
<1>3. /\ CanRestore' /\ Unredirects /\ (Redirected' <=> Redirected)
      /\ \A l : Restores(l)' <=> Restores(l)
      /\ zone' = zone /\ zoneJournal' = zoneJournal
  BY Zenon, <1>1, <1>2, SharedStays
<1>4. /\ "finish" \in Recoveries /\ "finish" # "drop" /\ broker \notin {"down", "spawning"}
      /\ zone' \in Zones /\ zoneJournal' \in Leases \cup {None}
  BY Zenon, <1>1, <1>2, <1>3 DEF Recoveries
<1> QED
  BY Zenon, <1>2, <1>3, <1>4, BrokerRecovers

\* The lease is finished: the next one waits for the original, or for ever.
LEMMA FinishedKeeps ==
    ASSUME ZoneInv, Finished
    PROVE  ZoneInv'
<1>1. /\ ZoneTypes /\ CanRestore /\ Held("broker") /\ BrokerInv
      /\ zone \in Zones /\ zoneJournal \in Leases \cup {None}
      /\ own \in [Processes -> Leases \cup {None}] /\ at \in [Processes -> RecoverySteps]
  BY Zenon, ZoneProcesses DEF ZoneInv, ZoneTypes
<1>2. /\ broker = "finish" /\ at["broker"] \in Outcomes /\ UNCHANGED shared
      /\ safe' = (safe /\ at["broker"] \notin Outcomes \ {"Restored"})
      /\ dog' = dog /\ parent' = parent
  BY Zenon DEF Finished, RecoveryEnded, KeepOthers, dogs, Disable
<1>3. /\ CanRestore' /\ Unredirects /\ (Redirected' <=> Redirected)
      /\ \A l : Restores(l)' <=> Restores(l)
      /\ zone' = zone /\ zoneJournal' = zoneJournal
  BY Zenon, <1>1, <1>2, SharedStays
<1>4. /\ at["operator"] = "off" /\ broker \notin {"down", "spawning"}
      /\ zone' \in Zones /\ zoneJournal' \in Leases \cup {None}
  BY Zenon, <1>1, <1>2, <1>3, OperatorOff
<1>5. CASE at["broker"] = "Restored"
  <2>1. Step("idle") /\ ~Redirected
    BY Zenon, <1>2, <1>5, EndedWell DEF Finished
  <2>2. zone' = zone /\ before' = before
    BY Zenon, <1>2 DEF shared
  <2> QED
    BY Zenon, <1>2, <1>3, <1>4, <2>1, <2>2, BrokerIdles
<1>6. CASE at["broker"] # "Restored"
  <2>1. Reconciling("drop") /\ boots' = boots /\ "drop" \in Recoveries
    BY Zenon, <1>6 DEF Finished, Recoveries
  <2>2. ~safe'
    BY Zenon, <1>2, <1>6
  <2> QED
    BY Zenon, <1>2, <1>3, <1>4, <2>1, <2>2, BrokerRecovers
<1> QED
  BY Zenon, <1>5, <1>6

\* The drop of the lease has tried once more; redirection stays disabled.
LEMMA DroppedKeeps ==
    ASSUME ZoneInv, Dropped
    PROVE  ZoneInv'
<1>1. /\ ZoneTypes /\ CanRestore /\ Held("broker") /\ BrokerInv
      /\ zone \in Zones /\ zoneJournal \in Leases \cup {None}
      /\ own \in [Processes -> Leases \cup {None}] /\ at \in [Processes -> RecoverySteps]
  BY Zenon, ZoneProcesses DEF ZoneInv, ZoneTypes
<1>2. /\ broker = "drop" /\ Step("idle") /\ UNCHANGED shared /\ safe' = safe
      /\ dog' = dog /\ parent' = parent
  BY Zenon DEF Dropped, RecoveryEnded, KeepOthers, dogs
<1>3. /\ CanRestore' /\ Unredirects /\ (Redirected' <=> Redirected)
      /\ \A l : Restores(l)' <=> Restores(l)
      /\ zone' = zone /\ zoneJournal' = zoneJournal
  BY Zenon, <1>1, <1>2, SharedStays
<1>4. broker \notin {"down", "spawning"} /\ zoneJournal' \in Leases \cup {None} /\ ~safe'
  BY Zenon, <1>1, <1>2, <1>3 DEF BrokerInv
<1>5. zone' = zone /\ before' = before
  BY Zenon, <1>2 DEF shared
<1> QED
  BY Zenon, <1>2, <1>3, <1>4, <1>5, BrokerIdles

\* The broker starts when no recovery runs.
LEMMA BootKeeps ==
    ASSUME ~Overlap, ZoneInv, Boot
    PROVE  ZoneInv'
<1>1. /\ ZoneTypes /\ CanRestore /\ Held("broker") /\ BrokerInv
      /\ zone \in Zones /\ zoneJournal \in Leases \cup {None}
      /\ own \in [Processes -> Leases \cup {None}] /\ at \in [Processes -> RecoverySteps]
  BY Zenon, ZoneProcesses DEF ZoneInv, ZoneTypes
<1>2. /\ broker = "down" /\ at["operator"] = "off" /\ (\A w \in Watchdogs : dog[w] = "none")
      /\ boots' = boots + 1 /\ UNCHANGED shared /\ dog' = dog /\ parent' = parent
      /\ broker' = "entry" /\ at' = [at EXCEPT !["broker"] = "read"] /\ own' = own
  BY Zenon DEF Boot, KeepOthers, dogs, Reconciling
<1>3. /\ CanRestore' /\ Unredirects /\ (Redirected' <=> Redirected)
      /\ \A l : Restores(l)' <=> Restores(l)
      /\ zone' = zone /\ zoneJournal' = zoneJournal
  BY Zenon, <1>1, <1>2, SharedStays
<1>4. at' \in [Processes -> RecoverySteps] /\ at'["broker"] = "read"
      /\ \A q \in Processes \ {"broker"} : at'[q] = at[q]
  <2>1. "broker" \in Processes /\ "read" \in RecoverySteps
    BY Zenon, ZoneProcesses DEF RecoverySteps
  <2> QED
    BY Zenon, <1>1, <1>2, <2>1, Moves
<1>5. ZoneTypes'
  <2>1. boots' \in Nat
    BY SMTT(30), <1>1, <1>2 DEF ZoneTypes
  <2> QED
    BY Zenon, <1>1, <1>2, <1>3, <1>4, <2>1 DEF ZoneTypes
<1>6. \A q \in Processes : Held(q)'
  <2>1. OnlyMoves("broker") /\ "broker" \in Processes
    BY Zenon, <1>2, <1>4, ZoneProcesses DEF OnlyMoves
  <2>2. \A q \in Processes \ {"broker"} : Held(q)'
    BY Zenon, <1>3, <2>1, OthersHold
  <2>3. at'["broker"] \in Elsewhere
    BY Zenon, <1>4 DEF Elsewhere
  <2>4. Held("broker")'
    BY Zenon, <2>3, HeldFree
  <2> QED
    BY Zenon, <2>2, <2>4
<1>7. BrokerInv'
  <2>1. broker' \notin BeforeChange /\ broker' \notin WithLease /\ broker' # "idle" /\ broker' # "drop"
        /\ broker' # "apply" /\ broker' \notin {"verify", "applied"} /\ broker' \in Recoveries
    BY Zenon, <1>2 DEF BeforeChange, WithLease, Recoveries
  <2> QED
    BY Zenon, <1>4, <2>1 DEF BrokerInv
<1>8. OperatorInv'
  BY Zenon, <1>2, <1>4, ZoneProcesses DEF OperatorInv
<1>9. ASSUME NEW w \in Watchdogs PROVE DogInv(w)'
  <2>1. dog'[w] = "none" /\ at'[w] = at[w] /\ DogInv(w) /\ dog[w] = "none"
    BY Zenon, <1>2, <1>4, ZoneProcesses DEF ZoneInv
  <2> QED
    BY Zenon, <2>1 DEF DogInv
<1> QED
  BY Zenon, <1>3, <1>5, <1>6, <1>7, <1>8, <1>9 DEF ZoneInv

\* The broker crashes, at any step.
LEMMA BrokerCrashKeeps ==
    ASSUME ZoneInv, BrokerCrash
    PROVE  ZoneInv'
<1>1. /\ ZoneTypes /\ CanRestore /\ Held("broker") /\ BrokerInv
      /\ zone \in Zones /\ zoneJournal \in Leases \cup {None}
      /\ own \in [Processes -> Leases \cup {None}] /\ at \in [Processes -> RecoverySteps]
  BY Zenon, ZoneProcesses DEF ZoneInv, ZoneTypes
<1>2. /\ broker' = "down" /\ UNCHANGED shared /\ boots' = boots /\ dog' = dog /\ parent' = parent
      /\ at' = [at EXCEPT !["broker"] = "off"] /\ own' = [own EXCEPT !["broker"] = None]
  BY Zenon DEF BrokerCrash, KeepOthers, dogs, MoveTo, Forget
<1>3. /\ CanRestore' /\ Unredirects /\ (Redirected' <=> Redirected)
      /\ \A l : Restores(l)' <=> Restores(l)
      /\ zone' = zone /\ zoneJournal' = zoneJournal
  BY Zenon, <1>1, <1>2, SharedStays
<1>4. "broker" \in Processes /\ "off" \in RecoverySteps /\ None \in Leases \cup {None}
  BY Zenon, ZoneProcesses DEF RecoverySteps
<1>5. at' \in [Processes -> RecoverySteps] /\ at'["broker"] = "off"
      /\ \A q \in Processes \ {"broker"} : at'[q] = at[q]
  BY Zenon, <1>1, <1>2, <1>4, Moves
<1>6. own' \in [Processes -> Leases \cup {None}] /\ own'["broker"] = None
      /\ \A q \in Processes \ {"broker"} : own'[q] = own[q]
  BY Zenon, <1>1, <1>2, <1>4, Takes
<1>7. ZoneTypes'
  BY Zenon, <1>1, <1>2, <1>3, <1>5, <1>6 DEF ZoneTypes
<1>8. \A q \in Processes : Held(q)'
  <2>1. OnlyMoves("broker")
    BY Zenon, <1>5, <1>6 DEF OnlyMoves
  <2>2. \A q \in Processes \ {"broker"} : Held(q)'
    BY Zenon, <1>3, <1>4, <2>1, OthersHold
  <2>3. at'["broker"] \in Elsewhere
    BY Zenon, <1>5 DEF Elsewhere
  <2>4. Held("broker")'
    BY Zenon, <2>3, HeldFree
  <2> QED
    BY Zenon, <2>2, <2>4
<1>9. BrokerInv'
  <2>1. broker' \notin BeforeChange /\ broker' \notin WithLease /\ broker' # "idle" /\ broker' # "drop"
        /\ broker' # "apply" /\ broker' \notin {"verify", "applied"} /\ broker' \notin Recoveries
    BY Zenon, <1>2 DEF BeforeChange, WithLease, Recoveries
  <2> QED
    BY Zenon, <1>5, <2>1 DEF BrokerInv
<1>10. OperatorInv'
  BY Zenon, <1>2, <1>5, ZoneProcesses DEF ZoneInv, OperatorInv
<1>11. ASSUME NEW w \in Watchdogs PROVE DogInv(w)'
  <2>1. at'[w] = at[w] /\ DogInv(w)
    BY Zenon, <1>5, ZoneProcesses DEF ZoneInv
  <2> QED
    BY Zenon, <1>2, <1>3, <2>1 DEF DogInv
<1> QED
  BY Zenon, <1>3, <1>7, <1>8, <1>9, <1>10, <1>11 DEF ZoneInv

\* Nothing but the broker and the watchdogs moves while the lease is being armed.
LEMMA NobodyMoves ==
    ASSUME ZoneInv, at' = at, own' = own, UNCHANGED shared
    PROVE  /\ CanRestore' /\ (Redirected' <=> Redirected)
           /\ \A q \in Processes : Held(q)'
           /\ \A l : Restores(l)' <=> Restores(l)
           /\ Mine' = Mine /\ zone' = zone /\ zoneJournal' = zoneJournal
<1>1. /\ ZoneTypes /\ CanRestore /\ BrokerInv
      /\ zone \in Zones /\ zoneJournal \in Leases \cup {None}
      /\ own \in [Processes -> Leases \cup {None}] /\ at \in [Processes -> RecoverySteps]
  BY Zenon DEF ZoneInv, ZoneTypes
<1>2. /\ CanRestore' /\ Unredirects /\ (Redirected' <=> Redirected)
      /\ \A l : Restores(l)' <=> Restores(l)
      /\ zone' = zone /\ zoneJournal' = zoneJournal
  BY Zenon, <1>1, SharedStays
<1>3. \A q \in Processes : Held(q)'
  BY Zenon, <1>2 DEF ZoneInv, Held
<1> QED
  BY Zenon, <1>2, <1>3 DEF Mine

\* A watchdog is started for the armed lease: the only one that starts.
LEMMA SpawnWatchdogKeeps ==
    ASSUME ZoneInv, SpawnWatchdog
    PROVE  ZoneInv'
<1>1. /\ ZoneTypes /\ CanRestore /\ BrokerInv
      /\ zone \in Zones /\ zoneJournal \in Leases \cup {None}
      /\ own \in [Processes -> Leases \cup {None}] /\ at \in [Processes -> RecoverySteps]
  BY Zenon DEF ZoneInv, ZoneTypes
<1>2. /\ broker = "spawn" /\ broker' = "spawning" /\ at["broker"] = "off" /\ UNCHANGED shared
      /\ boots' = boots /\ at' = at /\ own' = own /\ safe' = safe
  BY Zenon DEF SpawnWatchdog, BrokerAt
<1>3. PICK w \in Watchdogs : /\ dog[w] = "none"
                             /\ dog' = [dog EXCEPT ![w] = "starting"]
                             /\ parent' = [parent EXCEPT ![w] = boots]
  BY Zenon DEF SpawnWatchdog
<1>4. /\ CanRestore' /\ (Redirected' <=> Redirected) /\ (\A q \in Processes : Held(q)')
      /\ Mine' = Mine /\ zone' = zone /\ zoneJournal' = zoneJournal
  BY Zenon, <1>2, NobodyMoves
<1>5. ~Redirected /\ Mine \in Leases /\ Mine.original # Mine.target
  BY Zenon, <1>1, <1>2 DEF BrokerInv, BeforeChange, WithLease
<1>6. /\ dog' \in [Watchdogs -> {"none", "starting", "waiting", "restoring"}]
      /\ dog'[w] = "starting" /\ \A v \in Watchdogs \ {w} : dog'[v] = dog[v]
  BY Zenon, <1>1, <1>3 DEF ZoneTypes
<1>7. /\ parent' \in [Watchdogs -> Nat]
      /\ parent'[w] = boots /\ \A v \in Watchdogs \ {w} : parent'[v] = parent[v]
  BY Zenon, <1>1, <1>3 DEF ZoneTypes
<1>8. ZoneTypes'
  BY Zenon, <1>1, <1>2, <1>4, <1>6, <1>7 DEF ZoneTypes
<1>9. BrokerInv'
  <2>1. broker' \notin Recoveries /\ broker' # "idle" /\ broker' # "drop"
        /\ broker' # "apply" /\ broker' \notin {"verify", "applied"}
    BY Zenon, <1>2 DEF Recoveries
  <2> QED
    BY Zenon, <1>2, <1>4, <1>5, <2>1 DEF BrokerInv
<1>10. OperatorInv'
  <2>1. at'["operator"] = "off"
    BY Zenon, <1>2, OperatorOff
  <2> QED
    BY Zenon, <2>1 DEF OperatorInv
<1>11. ASSUME NEW v \in Watchdogs PROVE DogInv(v) /\ dog[v] # "starting" /\ at[v] = "off"
  <2>1. DogInv(v) /\ broker # "down" /\ broker \notin {"down", "spawning"}
    BY Zenon, <1>2 DEF ZoneInv
  <2> QED
    BY Zenon, <2>1 DEF DogInv
<1>12. ASSUME NEW v \in Watchdogs PROVE DogInv(v)'
  <2>1. at'[v] = "off" /\ ~Redirected'
    BY Zenon, <1>2, <1>4, <1>5, <1>11
  <2>2. \A u \in Watchdogs : dog'[u] = "starting" => u = w
    BY Zenon, <1>6, <1>11
  <2>3. dog'[v] # "restoring" /\ (dog'[v] # "none" => parent'[v] = boots')
    <3>1. CASE v = w
      BY Zenon, <3>1, <1>2, <1>6, <1>7
    <3>2. CASE v # w
      BY Zenon, <3>2, <1>2, <1>6, <1>7, <1>11 DEF DogInv
    <3> QED
      BY Zenon, <3>1, <3>2
  <2>4. broker' \in {"down", "spawning"}
    BY Zenon, <1>2
  <2>5. dog'[v] = "starting" => \A u \in Watchdogs : dog'[u] = "starting" => u = v
    BY Zenon, <2>2
  <2> QED
    BY Zenon, <2>1, <2>3, <2>4, <2>5 DEF DogInv
<1> QED
  BY Zenon, <1>4, <1>8, <1>9, <1>10, <1>12 DEF ZoneInv

\* It does not come up: it is gone before the journal is removed.
LEMMA SpawnFailsKeeps ==
    ASSUME ZoneInv, SpawnFails
    PROVE  ZoneInv'
<1>1. /\ ZoneTypes /\ CanRestore /\ BrokerInv
      /\ zone \in Zones /\ zoneJournal \in Leases \cup {None}
      /\ own \in [Processes -> Leases \cup {None}] /\ at \in [Processes -> RecoverySteps]
  BY Zenon DEF ZoneInv, ZoneTypes
<1>2. /\ broker \in {"spawn", "spawning"} /\ at["broker"] = "off" /\ broker' = "disarm"
      /\ at' = [at EXCEPT !["broker"] = "off"] /\ own' = own /\ boots' = boots
      /\ UNCHANGED shared /\ parent' = parent
  BY Zenon DEF SpawnFails, BrokerAt, Step, MoveTo
<1>3. at' = at
  BY Zenon, <1>1, <1>2, StaysOff
<1>4. /\ CanRestore' /\ (Redirected' <=> Redirected) /\ (\A q \in Processes : Held(q)')
      /\ Mine' = Mine /\ zone' = zone /\ zoneJournal' = zoneJournal
  BY Zenon, <1>2, <1>3, NobodyMoves
<1>5. dog' = [w \in Watchdogs |-> IF dog[w] = "starting" /\ parent[w] = boots THEN "none" ELSE dog[w]]
  BY Zenon DEF SpawnFails
<1>6. \A w \in Watchdogs : dog'[w] = "none" \/ (dog'[w] = dog[w] /\ dog[w] # "starting")
  <2>1. ASSUME NEW w \in Watchdogs, dog[w] = "starting" PROVE parent[w] = boots
    <3>1. DogInv(w) /\ broker # "down" /\ dog[w] # "none"
      BY Zenon, <1>2, <2>1 DEF ZoneInv
    <3> QED
      BY Zenon, <3>1 DEF DogInv
  <2> QED
    BY Zenon, <1>5, <2>1
<1>7. ZoneTypes'
  <2>1. \A w \in Watchdogs : dog'[w] \in {"none", "starting", "waiting", "restoring"}
    BY Zenon, <1>1, <1>6 DEF ZoneTypes
  <2>2. PICK f : f = dog'
    BY Zenon
  <2>3. f = [w \in Watchdogs |-> f[w]]
    BY Zenon, <1>5, <2>2
  <2>4. f \in [Watchdogs -> {"none", "starting", "waiting", "restoring"}]
    BY Zenon, <2>1, <2>2, <2>3
  <2> QED
    BY Zenon, <1>1, <1>2, <1>3, <1>4, <2>2, <2>4 DEF ZoneTypes
<1>8. BrokerInv'
  <2>1. broker' \notin Recoveries /\ broker' # "idle" /\ broker' # "drop"
        /\ broker' # "apply" /\ broker' \notin {"verify", "applied"} /\ broker' \notin WithLease
    BY Zenon, <1>2 DEF Recoveries, WithLease
  <2>2. ~Redirected'
    BY Zenon, <1>1, <1>2, <1>4 DEF BrokerInv, BeforeChange
  <2>3. at'["broker"] = "off"
    BY Zenon, <1>2, <1>3
  <2> QED
    BY Zenon, <2>1, <2>2, <2>3 DEF BrokerInv
<1>9. OperatorInv'
  <2>1. at'["operator"] = "off"
    BY Zenon, <1>2, <1>3, OperatorOff
  <2> QED
    BY Zenon, <2>1 DEF OperatorInv
<1>10. ASSUME NEW w \in Watchdogs PROVE DogInv(w)'
  <2>1. DogInv(w) /\ broker # "down" /\ at'[w] = at[w] /\ parent'[w] = parent[w] /\ boots' = boots
    BY Zenon, <1>2, <1>3 DEF ZoneInv
  <2>2. dog'[w] = "none" \/ (dog'[w] = dog[w] /\ dog[w] # "starting")
    BY Zenon, <1>6
  <2>3. at'[w] = "off" /\ dog'[w] # "starting" /\ dog'[w] # "restoring"
    BY Zenon, <2>1, <2>2 DEF DogInv
  <2>4. dog'[w] # "none" => parent'[w] = boots'
    BY Zenon, <2>1, <2>2 DEF DogInv
  <2> QED
    BY Zenon, <2>3, <2>4 DEF DogInv
<1> QED
  BY Zenon, <1>4, <1>7, <1>8, <1>9, <1>10 DEF ZoneInv

-----------------------------------------------------------------------------
(* The watchdogs, the operator and everybody else. *)

\* A step of a watchdog that leaves the broker alone.
LEMMA DogShape ==
    ASSUME ZoneInv, NEW w \in Watchdogs, UNCHANGED brokers, zone' = zone, before' = before,
           parent' = parent, ZoneTypes', OnlyMoves(w),
           \A v \in Watchdogs \ {w} : dog'[v] = dog[v],
           zoneJournal' = zoneJournal \/ (~Redirected /\ broker = "down"),
           dog[w] # "none", dog'[w] # "starting", at'[w] # "off" => dog'[w] = "restoring",
           dog'[w] = "restoring" => broker = "down",
           at["operator"] # "off" => dog'[w] \in {"none", "waiting"}, Held(w)'
    PROVE  ZoneInv'
<1>1. /\ CanRestore /\ BrokerInv /\ OperatorInv
      /\ broker' = broker /\ safe' = safe /\ boots' = boots
  BY Zenon DEF ZoneInv, brokers
<1>2. (Redirected' <=> Redirected) /\ Unredirects /\ \A l : Restores(l)' <=> Restores(l)
  BY Zenon DEF Redirected, Unredirects, Restores
<1>3. CanRestore'
  BY Zenon, <1>1, <1>2 DEF CanRestore, Restores
<1>4. \A q \in Processes : Held(q)'
  <2>1. w \in Processes
    BY Zenon, ZoneProcesses
  <2>2. \A q \in Processes \ {w} : Held(q)'
    BY Zenon, <1>2, <2>1, OthersHold
  <2> QED
    BY Zenon, <2>2
<1>5. at'["broker"] = at["broker"] /\ Mine' = Mine /\ at'["operator"] = at["operator"]
  BY Zenon, ZoneProcesses DEF OnlyMoves, Mine
<1>6. BrokerInv'
  <2>1. broker' = "apply" => zoneJournal' = zoneJournal
    BY Zenon, <1>1
  <2>2. Restores(Mine)' <=> Restores(Mine)
    BY Zenon, <1>5 DEF Restores
  <2> QED
    BY Zenon, <1>1, <1>2, <1>5, <2>1, <2>2 DEF BrokerInv
<1>7. OperatorInv'
  <2>1. ASSUME at["operator"] # "off", NEW v \in Watchdogs PROVE dog'[v] \in {"none", "waiting"}
    <3>1. CASE v = w
      BY Zenon, <2>1, <3>1
    <3>2. CASE v # w
      BY Zenon, <1>1, <2>1, <3>2 DEF OperatorInv
    <3> QED
      BY Zenon, <3>1, <3>2
  <2> QED
    BY Zenon, <1>1, <1>5, <2>1 DEF OperatorInv
<1>8. ASSUME NEW v \in Watchdogs PROVE DogInv(v)'
  <2>1. DogInv(v) /\ DogInv(w) /\ parent'[v] = parent[v]
    BY Zenon DEF ZoneInv
  <2>2. CASE v = w
    <3>1. broker # "down" => parent[w] = boots
      BY Zenon, <2>1 DEF DogInv
    <3> QED
      BY Zenon, <2>2, <1>1, <3>1 DEF DogInv
  <2>3. CASE v # w
    <3>1. dog'[v] = dog[v] /\ at'[v] = at[v]
      BY Zenon, <2>3, ZoneProcesses DEF OnlyMoves
    <3>2. \A u \in Watchdogs : dog'[u] = "starting" => dog[u] = "starting"
      BY Zenon
    <3> QED
      BY Zenon, <1>1, <1>2, <2>1, <3>1, <3>2 DEF DogInv
  <2> QED
    BY Zenon, <2>2, <2>3
<1> QED
  BY Zenon, <1>3, <1>4, <1>6, <1>7, <1>8 DEF ZoneInv

\* The watchdog is ready, and the broker that waits for it goes on.
LEMMA WatchdogReadyKeeps ==
    ASSUME ZoneInv, NEW w \in Watchdogs, WatchdogReady(w)
    PROVE  ZoneInv'
<1>1. /\ ZoneTypes /\ CanRestore /\ BrokerInv /\ DogInv(w) /\ w \in Processes
      /\ zone \in Zones /\ zoneJournal \in Leases \cup {None}
      /\ own \in [Processes -> Leases \cup {None}] /\ at \in [Processes -> RecoverySteps]
  BY Zenon, ZoneProcesses DEF ZoneInv, ZoneTypes
<1>2. /\ dog[w] = "starting" /\ broker # "down" /\ broker' = "applying"
      /\ dog' = [dog EXCEPT ![w] = "waiting"] /\ UNCHANGED shared
      /\ boots' = boots /\ at' = at /\ own' = own /\ parent' = parent
  BY Zenon DEF WatchdogReady, ParentExited, Watch
<1>3. broker = "spawning"
  BY Zenon, <1>1, <1>2 DEF DogInv
<1>4. /\ CanRestore' /\ (Redirected' <=> Redirected) /\ (\A q \in Processes : Held(q)')
      /\ Mine' = Mine /\ zone' = zone /\ zoneJournal' = zoneJournal
  BY Zenon, <1>2, NobodyMoves
<1>5. /\ dog' \in [Watchdogs -> {"none", "starting", "waiting", "restoring"}]
      /\ dog'[w] = "waiting" /\ \A v \in Watchdogs \ {w} : dog'[v] = dog[v]
  BY Zenon, <1>1, <1>2 DEF ZoneTypes
<1>6. ZoneTypes'
  BY Zenon, <1>1, <1>2, <1>4, <1>5 DEF ZoneTypes
<1>7. BrokerInv'
  <2>1. broker' \notin Recoveries /\ broker' # "idle" /\ broker' # "drop"
        /\ broker' # "apply" /\ broker' \notin {"verify", "applied"} /\ broker \notin Recoveries
    BY Zenon, <1>2, <1>3 DEF Recoveries
  <2>2. ~Redirected' /\ Mine' \in Leases /\ Mine'.original # Mine'.target
    BY Zenon, <1>1, <1>3, <1>4 DEF BrokerInv, BeforeChange, WithLease
  <2>3. at'["broker"] = "off"
    BY Zenon, <1>1, <1>2, <2>1 DEF BrokerInv
  <2> QED
    BY Zenon, <2>1, <2>2, <2>3 DEF BrokerInv
<1>8. OperatorInv'
  <2>1. at'["operator"] = "off"
    BY Zenon, <1>2, <1>3, OperatorOff
  <2> QED
    BY Zenon, <2>1 DEF OperatorInv
<1>9. ASSUME NEW v \in Watchdogs PROVE DogInv(v)'
  <2>1. DogInv(v) /\ at'[v] = at[v] /\ parent'[v] = parent[v] /\ boots' = boots /\ broker # "down"
    BY Zenon, <1>2 DEF ZoneInv
  <2>2. at'[v] = "off"
    BY Zenon, <2>1 DEF DogInv
  <2>3. dog'[v] # "starting" /\ dog'[v] # "restoring"
    BY Zenon, <1>1, <1>2, <1>5, <2>1 DEF DogInv
  <2>4. dog'[v] # "none" => parent'[v] = boots'
    <3>1. CASE v = w
      BY Zenon, <3>1, <1>2, <2>1 DEF DogInv
    <3>2. CASE v # w
      BY Zenon, <3>2, <1>5, <2>1 DEF DogInv
    <3> QED
      BY Zenon, <3>1, <3>2
  <2> QED
    BY Zenon, <2>2, <2>3, <2>4 DEF DogInv
<1> QED
  BY Zenon, <1>4, <1>6, <1>7, <1>8, <1>9 DEF ZoneInv

\* A watchdog whose parent is gone while the broker is up does not exist.
LEMMA ParentIsDown ==
    ASSUME ZoneInv, NEW w \in Watchdogs, dog[w] # "none", ParentExited(w)
    PROVE  broker = "down"
<1>1. DogInv(w)
  BY Zenon DEF ZoneInv
<1> QED
  BY Zenon, <1>1 DEF DogInv, ParentExited

\* It starts too late and removes a journal under which nothing was changed.
LEMMA WatchdogTooLateKeeps ==
    ASSUME ZoneInv, NEW w \in Watchdogs, WatchdogTooLate(w)
    PROVE  ZoneInv'
<1>1. /\ ZoneTypes /\ CanRestore /\ BrokerInv /\ DogInv(w) /\ w \in Processes
      /\ zone \in Zones /\ zoneJournal \in Leases \cup {None}
      /\ own \in [Processes -> Leases \cup {None}] /\ at \in [Processes -> RecoverySteps]
  BY Zenon, ZoneProcesses DEF ZoneInv, ZoneTypes
<1>2. /\ dog[w] = "starting" /\ ParentExited(w) /\ zoneJournal' = None
      /\ dog' = [dog EXCEPT ![w] = "none"] /\ UNCHANGED brokers
      /\ zone' = zone /\ before' = before /\ at' = at /\ own' = own /\ parent' = parent
  BY Zenon DEF WatchdogTooLate, Watch, KeepBroker
<1>3. ~Redirected /\ broker = "down" /\ at[w] = "off" /\ dog[w] # "none"
  BY Zenon, <1>1, <1>2, ParentIsDown DEF DogInv
<1>4. /\ dog' \in [Watchdogs -> {"none", "starting", "waiting", "restoring"}]
      /\ dog'[w] = "none" /\ \A v \in Watchdogs \ {w} : dog'[v] = dog[v]
  BY Zenon, <1>1, <1>2 DEF ZoneTypes
<1>5. ZoneTypes'
  BY Zenon, <1>1, <1>2, <1>4 DEF ZoneTypes, brokers
<1>6. OnlyMoves(w) /\ at'[w] = "off"
  BY Zenon, <1>2, <1>3 DEF OnlyMoves
<1>7. at'[w] \in Elsewhere
  BY Zenon, <1>6 DEF Elsewhere
<1>8. Held(w)'
  BY Zenon, <1>7, HeldFree
<1>9. dog'[w] # "starting" /\ dog'[w] # "restoring" /\ dog'[w] \in {"none", "waiting"}
  BY Zenon, <1>4
<1> QED
  BY Zenon, <1>2, <1>3, <1>4, <1>5, <1>6, <1>8, <1>9, DogShape

\* It finds the journal gone, and goes.
LEMMA WatchdogDisarmedKeeps ==
    ASSUME ZoneInv, NEW w \in Watchdogs, WatchdogDisarmed(w)
    PROVE  ZoneInv'
<1>1. /\ ZoneTypes /\ CanRestore /\ BrokerInv /\ DogInv(w) /\ w \in Processes
      /\ zone \in Zones /\ zoneJournal \in Leases \cup {None}
      /\ own \in [Processes -> Leases \cup {None}] /\ at \in [Processes -> RecoverySteps]
  BY Zenon, ZoneProcesses DEF ZoneInv, ZoneTypes
<1>2. /\ dog[w] = "waiting" /\ dog' = [dog EXCEPT ![w] = "none"] /\ UNCHANGED brokers
      /\ zone' = zone /\ before' = before /\ zoneJournal' = zoneJournal
      /\ at' = at /\ own' = own /\ parent' = parent
  BY Zenon DEF WatchdogDisarmed, Watch, KeepBroker, shared
<1>3. at[w] = "off" /\ dog[w] # "none"
  BY Zenon, <1>1, <1>2 DEF DogInv
<1>4. /\ dog' \in [Watchdogs -> {"none", "starting", "waiting", "restoring"}]
      /\ dog'[w] = "none" /\ \A v \in Watchdogs \ {w} : dog'[v] = dog[v]
  BY Zenon, <1>1, <1>2 DEF ZoneTypes
<1>5. ZoneTypes'
  BY Zenon, <1>1, <1>2, <1>4 DEF ZoneTypes, brokers
<1>6. OnlyMoves(w) /\ at'[w] = "off"
  BY Zenon, <1>2, <1>3 DEF OnlyMoves
<1>7. at'[w] \in Elsewhere
  BY Zenon, <1>6 DEF Elsewhere
<1>8. Held(w)'
  BY Zenon, <1>7, HeldFree
<1>9. dog'[w] # "starting" /\ dog'[w] # "restoring" /\ dog'[w] \in {"none", "waiting"}
  BY Zenon, <1>4
<1> QED
  BY Zenon, <1>2, <1>3, <1>4, <1>5, <1>6, <1>8, <1>9, DogShape

\* Its parent is gone: it recovers, with the broker down and the operator away.
LEMMA WatchdogWakesKeeps ==
    ASSUME ~Overlap, ZoneInv, NEW w \in Watchdogs, WatchdogWakes(w)
    PROVE  ZoneInv'
<1>1. /\ ZoneTypes /\ CanRestore /\ BrokerInv /\ DogInv(w) /\ w \in Processes
      /\ zone \in Zones /\ zoneJournal \in Leases \cup {None}
      /\ own \in [Processes -> Leases \cup {None}] /\ at \in [Processes -> RecoverySteps]
  BY Zenon, ZoneProcesses DEF ZoneInv, ZoneTypes
<1>2. /\ dog[w] = "waiting" /\ ParentExited(w) /\ at["operator"] = "off"
      /\ dog' = [dog EXCEPT ![w] = "restoring"] /\ UNCHANGED brokers
      /\ zone' = zone /\ before' = before /\ zoneJournal' = zoneJournal
      /\ at' = [at EXCEPT ![w] = "read"] /\ own' = own /\ parent' = parent
  BY Zenon DEF WatchdogWakes, Watch, KeepBroker, shared, MoveTo
<1>3. broker = "down" /\ dog[w] # "none"
  BY Zenon, <1>2, ParentIsDown
<1>4. /\ dog' \in [Watchdogs -> {"none", "starting", "waiting", "restoring"}]
      /\ dog'[w] = "restoring" /\ \A v \in Watchdogs \ {w} : dog'[v] = dog[v]
  BY Zenon, <1>1, <1>2 DEF ZoneTypes
<1>5. at' \in [Processes -> RecoverySteps] /\ at'[w] = "read"
      /\ \A q \in Processes \ {w} : at'[q] = at[q]
  <2>1. "read" \in RecoverySteps
    BY Zenon DEF RecoverySteps
  <2> QED
    BY Zenon, <1>1, <1>2, <2>1, Moves
<1>6. ZoneTypes'
  BY Zenon, <1>1, <1>2, <1>4, <1>5 DEF ZoneTypes, brokers
<1>7. OnlyMoves(w)
  BY Zenon, <1>2, <1>5 DEF OnlyMoves
<1>8. at'[w] \in Elsewhere
  BY Zenon, <1>5 DEF Elsewhere
<1>9. Held(w)'
  BY Zenon, <1>8, HeldFree
<1>10. dog'[w] # "starting" /\ dog'[w] = "restoring"
  BY Zenon, <1>4
<1> QED
  BY Zenon, <1>2, <1>3, <1>4, <1>6, <1>7, <1>9, <1>10, DogShape

\* Its attempt ends: another, or it goes.
LEMMA WatchdogDoneKeeps ==
    ASSUME ZoneInv, NEW w \in Watchdogs, WatchdogDone(w)
    PROVE  ZoneInv'
<1>1. /\ ZoneTypes /\ CanRestore /\ BrokerInv /\ DogInv(w) /\ w \in Processes
      /\ zone \in Zones /\ zoneJournal \in Leases \cup {None}
      /\ own \in [Processes -> Leases \cup {None}] /\ at \in [Processes -> RecoverySteps]
  BY Zenon, ZoneProcesses DEF ZoneInv, ZoneTypes
<1>2. /\ dog[w] = "restoring" /\ UNCHANGED brokers
      /\ zone' = zone /\ before' = before /\ zoneJournal' = zoneJournal
      /\ own' = [own EXCEPT ![w] = None] /\ parent' = parent
  BY Zenon DEF WatchdogDone, KeepBroker, shared, Forget
<1>3. broker = "down" /\ dog[w] # "none"
  BY Zenon, <1>1, <1>2 DEF DogInv
<1>4. at["operator"] = "off"
  <2>1. dog[w] \notin {"none", "waiting"}
    BY Zenon, <1>2
  <2> QED
    BY Zenon, <2>1 DEF ZoneInv, OperatorInv
<1>5. PICK s : s = at'[w]
  BY Zenon
<1>6. /\ at' \in [Processes -> RecoverySteps] /\ s \in {"read", "off"}
      /\ \A q \in Processes \ {w} : at'[q] = at[q]
      /\ dog' \in [Watchdogs -> {"none", "starting", "waiting", "restoring"}]
      /\ \A v \in Watchdogs \ {w} : dog'[v] = dog[v]
      /\ s = "read" => dog'[w] = "restoring"
      /\ s = "off" => dog'[w] = "none"
  <2>1. "read" \in RecoverySteps /\ "off" \in RecoverySteps
    BY Zenon DEF RecoverySteps
  <2>2. CASE Retries(w)
    <3>1. at' = [at EXCEPT ![w] = "read"] /\ dog' = dog
      BY Zenon, <2>2 DEF WatchdogDone, MoveTo
    <3>2. at' \in [Processes -> RecoverySteps] /\ at'[w] = "read"
          /\ \A q \in Processes \ {w} : at'[q] = at[q]
      BY Zenon, <1>1, <2>1, <3>1, Moves
    <3> QED
      BY Zenon, <1>1, <1>2, <1>5, <3>1, <3>2 DEF ZoneTypes
  <2>3. CASE ~Retries(w)
    <3>1. at' = [at EXCEPT ![w] = "off"] /\ dog' = [dog EXCEPT ![w] = "none"]
      BY Zenon, <2>3 DEF WatchdogDone, MoveTo, Watch
    <3>2. at' \in [Processes -> RecoverySteps] /\ at'[w] = "off"
          /\ \A q \in Processes \ {w} : at'[q] = at[q]
      BY Zenon, <1>1, <2>1, <3>1, Moves
    <3>3. /\ dog' \in [Watchdogs -> {"none", "starting", "waiting", "restoring"}]
          /\ dog'[w] = "none" /\ \A v \in Watchdogs \ {w} : dog'[v] = dog[v]
      BY Zenon, <1>1, <3>1 DEF ZoneTypes
    <3> QED
      BY Zenon, <1>5, <3>2, <3>3
  <2> QED
    BY Zenon, <2>2, <2>3
<1>7. own' \in [Processes -> Leases \cup {None}] /\ own'[w] = None
      /\ \A q \in Processes \ {w} : own'[q] = own[q]
  <2>1. None \in Leases \cup {None}
    BY Zenon
  <2> QED
    BY Zenon, <1>1, <1>2, <2>1, Takes
<1>8. ZoneTypes'
  BY Zenon, <1>1, <1>2, <1>6, <1>7 DEF ZoneTypes, brokers
<1>9. OnlyMoves(w)
  BY Zenon, <1>6, <1>7 DEF OnlyMoves
<1>10. at'[w] \in Elsewhere
  BY Zenon, <1>5, <1>6 DEF Elsewhere
<1>11. Held(w)'
  BY Zenon, <1>10, HeldFree
<1>12. dog'[w] # "starting" /\ (at'[w] # "off" => dog'[w] = "restoring")
  BY Zenon, <1>5, <1>6
<1> QED
  BY Zenon, <1>2, <1>3, <1>4, <1>6, <1>8, <1>9, <1>11, <1>12, DogShape

\* A step of the operator.
LEMMA OperatorShape ==
    ASSUME ZoneInv, ZoneTypes', OnlyMoves("operator"), UNCHANGED shared, UNCHANGED brokers,
           UNCHANGED dogs, Held("operator")', OperatorInv'
    PROVE  ZoneInv'
<1>1. /\ ZoneTypes /\ CanRestore /\ BrokerInv
      /\ zone \in Zones /\ zoneJournal \in Leases \cup {None}
      /\ own \in [Processes -> Leases \cup {None}] /\ at \in [Processes -> RecoverySteps]
  BY Zenon DEF ZoneInv, ZoneTypes
<1>2. /\ CanRestore' /\ Unredirects /\ (Redirected' <=> Redirected)
      /\ \A l : Restores(l)' <=> Restores(l)
      /\ zone' = zone /\ zoneJournal' = zoneJournal
  BY Zenon, <1>1, SharedStays
<1>3. /\ broker' = broker /\ safe' = safe /\ boots' = boots /\ dog' = dog /\ parent' = parent
      /\ at'["broker"] = at["broker"] /\ Mine' = Mine
  BY Zenon, ZoneProcesses DEF brokers, dogs, OnlyMoves, Mine
<1>4. \A q \in Processes : Held(q)'
  <2>1. "operator" \in Processes
    BY Zenon, ZoneProcesses
  <2>2. \A q \in Processes \ {"operator"} : Held(q)'
    BY Zenon, <1>2, <2>1, OthersHold
  <2> QED
    BY Zenon, <2>2
<1>5. BrokerInv'
  <2>1. Restores(Mine)' <=> Restores(Mine)
    BY Zenon, <1>2, <1>3 DEF Restores
  <2> QED
    BY Zenon, <1>1, <1>2, <1>3, <2>1 DEF BrokerInv
<1>6. ASSUME NEW w \in Watchdogs PROVE DogInv(w)'
  <2>1. at'[w] = at[w] /\ DogInv(w)
    BY Zenon, ZoneProcesses DEF ZoneInv, OnlyMoves
  <2> QED
    BY Zenon, <1>2, <1>3, <2>1 DEF DogInv
<1> QED
  BY Zenon, <1>2, <1>4, <1>5, <1>6 DEF ZoneInv

\* The operator reconciles, or overrides a conflict; neither while a recovery runs.
LEMMA RestoreCommandKeeps ==
    ASSUME ~Overlap, ZoneInv, RestoreCommand
    PROVE  ZoneInv'
<1>1. /\ ZoneTypes /\ CanRestore /\ BrokerInv /\ OperatorInv /\ "operator" \in Processes
      /\ zone \in Zones /\ zoneJournal \in Leases \cup {None}
      /\ own \in [Processes -> Leases \cup {None}] /\ at \in [Processes -> RecoverySteps]
  BY Zenon, ZoneProcesses DEF ZoneInv, ZoneTypes
<1>2. /\ broker \in {"down", "idle", "active"} /\ (\A w \in Watchdogs : dog[w] \in {"none", "waiting"})
      /\ UNCHANGED shared /\ UNCHANGED brokers /\ UNCHANGED dogs
  BY Zenon DEF RestoreCommand
<1>3. OperatorInv'
  <2>1. broker' = broker /\ dog' = dog
    BY Zenon, <1>2 DEF brokers, dogs
  <2> QED
    BY Zenon, <1>2, <2>1 DEF OperatorInv
<1>4. /\ CanRestore' /\ Unredirects /\ (Redirected' <=> Redirected)
      /\ zone' = zone /\ zoneJournal' = zoneJournal
  BY Zenon, <1>1, <1>2, SharedStays
<1>5. CASE zoneJournal # None /\ zoneJournal.phase = "Conflicted"
  <2>1. PICK l : l = Rearmed(zoneJournal)
    BY Zenon
  <2>2. own' = [own EXCEPT !["operator"] = l] /\ at' = [at EXCEPT !["operator"] = "rearm"]
    BY Zenon, <1>5, <2>1 DEF RestoreCommand, MoveTo
  <2>3. l \in Leases
    <3>1. zoneJournal \in Leases
      BY Zenon, <1>1, <1>5
    <3> QED
      BY SMTT(30), <2>1, <3>1 DEF Rearmed, Arm, After, To, Leases, Phases
  <2>4. "rearm" \in RecoverySteps /\ "rearm" \in Settling
    BY Zenon DEF RecoverySteps, Settling
  <2>5. at' \in [Processes -> RecoverySteps] /\ at'["operator"] = "rearm"
        /\ \A q \in Processes \ {"operator"} : at'[q] = at[q]
    BY Zenon, <1>1, <2>2, <2>4, Moves
  <2>6. own' \in [Processes -> Leases \cup {None}] /\ own'["operator"] = l
        /\ \A q \in Processes \ {"operator"} : own'[q] = own[q]
    BY Zenon, <1>1, <2>2, <2>3, Takes
  <2>7. ~Redirected'
    BY Zenon, <1>1, <1>4, <1>5 DEF CanRestore, Restores, ActivePhases
  <2>8. at'["operator"] \in Settling /\ own'["operator"] \in Leases
    BY Zenon, <2>3, <2>4, <2>5, <2>6
  <2>9. Held("operator")'
    BY Zenon, <2>7, <2>8, HeldSettling
  <2>10. OnlyMoves("operator")
    BY Zenon, <2>5, <2>6 DEF OnlyMoves
  <2>11. ZoneTypes'
    BY Zenon, <1>1, <1>2, <1>4, <2>5, <2>6, ReconcileTypes
  <2> QED
    BY Zenon, <1>2, <1>3, <2>9, <2>10, <2>11, OperatorShape
<1>6. CASE ~(zoneJournal # None /\ zoneJournal.phase = "Conflicted")
  <2>1. own' = own /\ at' = [at EXCEPT !["operator"] = "read"]
    BY Zenon, <1>6 DEF RestoreCommand, MoveTo
  <2>2. "read" \in RecoverySteps
    BY Zenon DEF RecoverySteps
  <2>3. at' \in [Processes -> RecoverySteps] /\ at'["operator"] = "read"
        /\ \A q \in Processes \ {"operator"} : at'[q] = at[q]
    BY Zenon, <1>1, <2>1, <2>2, Moves
  <2>4. at'["operator"] \in Elsewhere
    BY Zenon, <2>3 DEF Elsewhere
  <2>5. Held("operator")'
    BY Zenon, <2>4, HeldFree
  <2>6. OnlyMoves("operator")
    BY Zenon, <2>1, <2>3 DEF OnlyMoves
  <2>7. ZoneTypes'
    BY Zenon, <1>1, <1>2, <1>4, <2>1, <2>3, ReconcileTypes
  <2> QED
    BY Zenon, <1>2, <1>3, <2>5, <2>6, <2>7, OperatorShape
<1> QED
  BY Zenon, <1>5, <1>6

\* The command ends.
LEMMA CommandDoneKeeps ==
    ASSUME ZoneInv, CommandDone
    PROVE  ZoneInv'
<1>1. /\ ZoneTypes /\ CanRestore /\ BrokerInv /\ OperatorInv /\ "operator" \in Processes
      /\ zone \in Zones /\ zoneJournal \in Leases \cup {None}
      /\ own \in [Processes -> Leases \cup {None}] /\ at \in [Processes -> RecoverySteps]
  BY Zenon, ZoneProcesses DEF ZoneInv, ZoneTypes
<1>2. /\ UNCHANGED shared /\ UNCHANGED brokers /\ UNCHANGED dogs
      /\ at' = [at EXCEPT !["operator"] = "off"] /\ own' = [own EXCEPT !["operator"] = None]
  BY Zenon DEF CommandDone, KeepBroker, MoveTo, Forget
<1>3. /\ CanRestore' /\ Unredirects /\ (Redirected' <=> Redirected)
      /\ zone' = zone /\ zoneJournal' = zoneJournal
  BY Zenon, <1>1, <1>2, SharedStays
<1>4. "off" \in RecoverySteps /\ None \in Leases \cup {None}
  BY Zenon DEF RecoverySteps
<1>5. at' \in [Processes -> RecoverySteps] /\ at'["operator"] = "off"
      /\ \A q \in Processes \ {"operator"} : at'[q] = at[q]
  BY Zenon, <1>1, <1>2, <1>4, Moves
<1>6. own' \in [Processes -> Leases \cup {None}] /\ own'["operator"] = None
      /\ \A q \in Processes \ {"operator"} : own'[q] = own[q]
  BY Zenon, <1>1, <1>2, <1>4, Takes
<1>7. at'["operator"] \in Elsewhere
  BY Zenon, <1>5 DEF Elsewhere
<1>8. Held("operator")'
  BY Zenon, <1>7, HeldFree
<1>9. OnlyMoves("operator") /\ OperatorInv'
  BY Zenon, <1>5, <1>6 DEF OnlyMoves, OperatorInv
<1>10. ZoneTypes'
  BY Zenon, <1>1, <1>2, <1>3, <1>5, <1>6, ReconcileTypes
<1> QED
  BY Zenon, <1>2, <1>8, <1>9, <1>10, OperatorShape

\* Somebody else's zone is nobody's to restore.
LEMMA ChangeZoneKeeps ==
    ASSUME ZoneInv, ChangeZone
    PROVE  ZoneInv'
<1>1. /\ ZoneTypes /\ CanRestore /\ BrokerInv /\ OperatorInv /\ "operator" \in Processes
      /\ zone \in Zones /\ zoneJournal \in Leases \cup {None}
      /\ own \in [Processes -> Leases \cup {None}] /\ at \in [Processes -> RecoverySteps]
  BY Zenon, ZoneProcesses DEF ZoneInv, ZoneTypes
<1>2. /\ zone' \in Zones /\ before' = None /\ zoneJournal' = zoneJournal
      /\ UNCHANGED brokers /\ UNCHANGED dogs /\ at' = at /\ own' = own
  BY Zenon DEF ChangeZone, SetZone
<1>3. /\ broker' = broker /\ safe' = safe /\ boots' = boots /\ dog' = dog /\ parent' = parent
      /\ Mine' = Mine /\ ~Redirected'
  BY Zenon, <1>2 DEF brokers, dogs, Mine, Redirected
<1>4. ZoneTypes'
  BY Zenon, <1>1, <1>2, <1>3 DEF ZoneTypes
<1>5. CanRestore'
  BY Zenon, <1>3 DEF CanRestore
<1>6. \A q \in Processes : Held(q)'
  BY Zenon, <1>2, <1>3 DEF ZoneInv, Held
<1>7. BrokerInv' /\ OperatorInv'
  BY Zenon, <1>1, <1>2, <1>3 DEF BrokerInv, OperatorInv
<1>8. ASSUME NEW w \in Watchdogs PROVE DogInv(w)'
  BY Zenon, <1>2, <1>3 DEF ZoneInv, DogInv
<1> QED
  BY Zenon, <1>4, <1>5, <1>6, <1>7, <1>8 DEF ZoneInv

-----------------------------------------------------------------------------
(* The theorem. *)

\* A machine nobody has redirected.
LEMMA ZoneStarts == ZoneInit => ZoneInv
<1> SUFFICES ASSUME ZoneInit PROVE ZoneInv
  BY Zenon
<1>1. ~Redirected /\ broker = "down" /\ boots = 0
  BY Zenon DEF ZoneInit, Redirected
<1>2. (\A p \in Processes : at[p] = "off") /\ \A w \in Watchdogs : dog[w] = "none"
  BY Zenon DEF ZoneInit
<1>3. ZoneTypes
  <2>1. boots \in Nat /\ 0 \in Nat
    BY <1>1
  <2>2. "off" \in RecoverySteps
    BY Zenon DEF RecoverySteps
  <2> QED
    BY Zenon, <2>1, <2>2 DEF ZoneInit, ZoneTypes
<1>4. ASSUME NEW p \in Processes PROVE Held(p)
  <2>1. at[p] \notin Owing \cup Settling
    BY Zenon, <1>2 DEF Owing, Settling
  <2> QED
    BY Zenon, <1>1, <2>1 DEF Held
<1>5. BrokerInv
  <2>1. broker \notin Recoveries /\ broker \notin WithLease /\ broker # "apply" /\ broker # "drop"
        /\ broker # "idle" /\ broker \notin {"verify", "applied"}
    BY Zenon, <1>1 DEF Recoveries, WithLease
  <2> QED
    BY Zenon, <1>1, <1>2, <2>1, ZoneProcesses DEF BrokerInv
<1>6. OperatorInv
  BY Zenon, <1>2, ZoneProcesses DEF OperatorInv
<1>7. ASSUME NEW w \in Watchdogs PROVE DogInv(w)
  BY Zenon, <1>1, <1>2, ZoneProcesses DEF DogInv
<1> QED
  BY Zenon, <1>1, <1>3, <1>4, <1>5, <1>6, <1>7 DEF ZoneInv, CanRestore

\* A step of anybody, or of nobody.
LEMMA ZoneKeeps ==
    ASSUME ~Overlap, ZoneInv, [ZoneNext]_zoneVars
    PROVE  ZoneInv'
<1>1. CASE Broker
  BY Zenon, <1>1, BootKeeps, EntryDoneKeeps, StartupDoneKeeps, BeginMappedKeeps, BeginWritesKeeps,
     BeginWriteFailsKeeps, SpawnWatchdogKeeps, SpawnFailsKeeps, DisarmKeeps, ApplyZoneKeeps,
     ApplyFailedKeeps, VerifyKeeps, EndSessionKeeps, FinishedKeeps, DroppedKeeps DEF Broker
<1>2. ASSUME NEW w \in Watchdogs, Watchdog(w) PROVE ZoneInv'
  BY Zenon, <1>2, WatchdogReadyKeeps, WatchdogTooLateKeeps, WatchdogDisarmedKeeps,
     WatchdogWakesKeeps, WatchdogDoneKeeps DEF Watchdog
<1>3. ASSUME NEW p \in Processes, Reconcile(p) PROVE ZoneInv'
  BY Zenon, <1>3, ReconcileKeeps
<1>4. CASE BrokerCrash \/ RestoreCommand \/ CommandDone \/ ChangeZone
  BY Zenon, <1>4, BrokerCrashKeeps, RestoreCommandKeeps, CommandDoneKeeps, ChangeZoneKeeps
<1>5. CASE UNCHANGED zoneVars
  <2>1. UNCHANGED shared /\ UNCHANGED brokers /\ UNCHANGED dogs /\ at' = at /\ own' = own
    BY Zenon, <1>5 DEF zoneVars
  <2>2. ZoneTypes' /\ OperatorInv' /\ OnlyMoves("operator")
    BY Zenon, <2>1 DEF ZoneInv, ZoneTypes, OperatorInv, OnlyMoves, shared, brokers, dogs
  <2>3. Held("operator")'
    BY Zenon, <2>1, NobodyMoves, ZoneProcesses
  <2> QED
    BY Zenon, <2>1, <2>2, <2>3, OperatorShape
<1> QED
  BY Zenon, <1>1, <1>2, <1>3, <1>4, <1>5 DEF ZoneNext

\* Whatever crashes, fails or is changed between any two steps, and however many
\* watchdogs restore at once, a zone this program set is journalled with the one
\* to put back, as long as a restarted broker and the operator wait for a
\* recovery that runs (Overlap).
THEOREM RedirectCorrect ==
    ASSUME ~Overlap
    PROVE  ZoneSpec => []RedirectIsJournalled
<1>1. ZoneInv /\ [ZoneNext]_zoneVars => ZoneInv'
  BY Zenon, ZoneKeeps
<1>2. ZoneInv => RedirectIsJournalled
  BY Zenon, NoneAssumption DEF ZoneInv, CanRestore, Restores, RedirectIsJournalled, Leases
<1> QED
  BY <1>1, <1>2, ZoneStarts, PTL DEF ZoneSpec
=============================================================================
