-------------------------- MODULE TimezoneRedirect --------------------------
(***************************************************************************)
(* Windows time-zone redirection (hosts/windows/src/timezone.rs): a broker   *)
(* that changes the machine's zone for a session under a recovery journal,   *)
(* one watchdog process per redirection, and the operator's restore command. *)
(* The zone and the journal file are shared by all of them with no lock.     *)
(* A step is one durable effect or one observation, so a crash, another      *)
(* process or a change by somebody else can come between any two.            *)
(***************************************************************************)
EXTENDS Naturals, RestoreLease

CONSTANTS Zones, Watchdogs, None,
          MaxBoots, MaxRedirects,    \* broker starts, redirections
          MaxZoneChanges,            \* changes by others
          MaxZoneFaults,             \* failed reads, writes and calls
          MaxCommands,               \* restore commands of the operator
          Overlap                    \* may a restarted broker or the operator meet a
                                     \* recovery that still runs

\* The watchdogs are processes of their own, and a missing journal is no lease.
ASSUME ProcessAssumption == {"broker", "operator"} \cap Watchdogs = {}
ASSUME NoneAssumption == None \notin [original : Zones, target : Zones, phase : Phases]

Attempts == 3   \* of a watchdog

VARIABLES zone, zoneJournal,         \* what survives a crash
          before,                    \* ghost: the zone a redirection replaced, until it is undone
          broker, safe, boots,       \* the broker's step, redirection_safe, incarnation
          dog, parent, tries,        \* each watchdog's step, its parent's incarnation, attempts
          at, own,                   \* each process in reconcile: its step, its copy of the lease
          redirects, zoneChanges, zoneFaults, commands

shared == <<zone, zoneJournal, before>>
brokers == <<broker, safe, boots>>
dogs == <<dog, parent, tries>>
counts == <<redirects, zoneChanges, zoneFaults, commands>>
zoneVars == <<shared, brokers, dogs, at, own, counts>>

Processes == {"broker", "operator"} \cup Watchdogs
Redirected == before # None

\* SetDynamicTimeZoneInformation, called to redirect or to restore.
SetZone(z, original) == zone' = z /\ before' = original

-----------------------------------------------------------------------------
(* reconcile and restore_journal, run by the broker, a watchdog or the        *)
(* operator.  They end in a RecoveryOutcome.                                   *)

Outcomes == {"Clean", "RemovedArmed", "Restored", "HoldForOperator", "Err"}
MoveTo(p, step) == at' = [at EXCEPT ![p] = step]
Forget(p) == own' = [own EXCEPT ![p] = None]

\* The next step under each directive.
StepFor(lease, current) ==
    IF Directive(lease, current) = "RemoveUnmutatedJournal" THEN "removeArmed"
    ELSE IF Directive(lease, current) = "RestoreOriginal" THEN "restore"
    ELSE IF Directive(lease, current) = "HoldForOperator" THEN "hold"
    ELSE IF lease.phase = "Restored" THEN "remove" ELSE "settle"

ReadJournal(p) ==
    /\ at[p] = "read"
    /\ IF zoneJournal = None THEN MoveTo(p, "Clean") /\ UNCHANGED own
       ELSE MoveTo(p, "look") /\ own' = [own EXCEPT ![p] = zoneJournal]
    /\ UNCHANGED shared

Look(p) ==
    /\ at[p] = "look"
    /\ MoveTo(p, StepFor(own[p], zone))
    /\ own' = [own EXCEPT ![p] = Adjudicated(own[p], zone)]
    /\ UNCHANGED shared

\* What each writing step makes of the lease, and where it goes on.
Event == [settle |-> "BeginRestore", restore |-> "BeginRestore", settled |-> "RestoreSucceeded",
          conflict |-> "OwnershipConflict"]
Then == [settle |-> "settled", restore |-> "apply", settled |-> "remove", conflict |-> "Err",
         hold |-> "HoldForOperator", rearm |-> "restore"]
Writing(p) == at[p] \in DOMAIN Then
Written(p) ==
    IF at[p] \in DOMAIN Event THEN After(own[p], Event[at[p]]) ELSE own[p]

WriteJournal(p) ==
    /\ Writing(p)
    /\ zoneJournal' = Written(p)
    /\ own' = [own EXCEPT ![p] = Written(p)]
    /\ MoveTo(p, Then[at[p]])
    /\ UNCHANGED <<zone, before>>

\* The outcome of the call is only remembered for its message: Check decides.
RestoreZone(p) ==
    /\ at[p] = "apply"
    /\ MoveTo(p, "check")
    /\ \/ SetZone(own[p].original, None) /\ UNCHANGED zoneFaults
       \/ zoneFaults < MaxZoneFaults /\ zoneFaults' = zoneFaults + 1 /\ UNCHANGED <<zone, before>>
    /\ UNCHANGED <<zoneJournal, own>>

Check(p) ==
    /\ at[p] = "check"
    /\ MoveTo(p, IF zone = own[p].original THEN "settled"
                 ELSE IF zone = own[p].target THEN "Err" ELSE "conflict")
    /\ UNCHANGED <<shared, own>>

RemoveJournal(p) ==
    /\ at[p] \in {"remove", "removeArmed"}
    /\ zoneJournal' = None
    /\ MoveTo(p, IF at[p] = "remove" THEN "Restored" ELSE "RemovedArmed")
    /\ UNCHANGED <<zone, before, own>>

\* A read, a write or a removal fails; a write may fail after it was published.
RecoveryFails(p) ==
    /\ at[p] \in {"read", "look", "check", "remove", "removeArmed"} \/ Writing(p)
    /\ zoneFaults < MaxZoneFaults
    /\ zoneFaults' = zoneFaults + 1
    /\ MoveTo(p, "Err")
    /\ zoneJournal' = zoneJournal \/ (Writing(p) /\ zoneJournal' = Written(p))
    /\ UNCHANGED <<zone, before, own>>

Reconcile(p) ==
    /\ \/ /\ ReadJournal(p) \/ Look(p) \/ WriteJournal(p) \/ Check(p) \/ RemoveJournal(p)
          /\ UNCHANGED zoneFaults
       \/ RestoreZone(p)
       \/ RecoveryFails(p)
    /\ UNCHANGED <<brokers, dogs, redirects, zoneChanges, commands>>

-----------------------------------------------------------------------------
(* The broker. *)

Mine == own["broker"]
BrokerAt(steps) == broker \in steps /\ at["broker"] = "off"
RecoveryEnded(step) == broker = step /\ at["broker"] \in Outcomes
KeepOthers == UNCHANGED <<dogs, zoneChanges, commands>>

\* Go on to a step, or into reconcile with a step to come back to.
Step(step) ==
    /\ broker' = step /\ MoveTo("broker", "off")
    /\ IF step = "idle" THEN Forget("broker") ELSE UNCHANGED own
    /\ UNCHANGED boots
Reconciling(step) == broker' = step /\ at' = [at EXCEPT !["broker"] = "read"] /\ UNCHANGED own

\* TimezoneController::disable
Disable(outcome, bad) == safe' = (safe /\ outcome \notin bad)

\* service_main reconciles before it reads its arguments, the controller again.
\* Without Overlap the delay of the service's restart outlasts the watchdogs.
Boot ==
    /\ broker = "down" /\ boots < MaxBoots
    /\ Overlap \/ (at["operator"] = "off" /\ \A w \in Watchdogs : dog[w] = "none")
    /\ boots' = boots + 1 /\ safe' = TRUE
    /\ Reconciling("entry")
    /\ UNCHANGED <<shared, redirects, zoneFaults>> /\ KeepOthers

EntryDone ==
    /\ RecoveryEnded("entry")
    /\ Reconciling("startup")
    /\ UNCHANGED <<shared, safe, boots, redirects, zoneFaults>> /\ KeepOthers

StartupDone ==
    /\ RecoveryEnded("startup")
    /\ Disable(at["broker"], {"HoldForOperator", "Err"})
    /\ Step("idle")
    /\ UNCHANGED <<shared, redirects, zoneFaults>> /\ KeepOthers

\* begin_mapped reads the zone it replaces; an equal target is left alone.
BeginMapped ==
    /\ BrokerAt({"idle"}) /\ safe /\ redirects < MaxRedirects
    /\ Overlap \/ at["operator"] = "off"
    /\ redirects' = redirects + 1
    /\ broker' = "arm"
    /\ \E target \in Zones \ {zone} :
          own' = [own EXCEPT !["broker"] = Arm(zone, target)]
    /\ UNCHANGED <<shared, safe, boots, at, zoneFaults>> /\ KeepOthers

\* The lease each step of begin_mapped writes.
ToWrite ==
    IF broker = "applying" THEN After(Mine, "BeginApply")
    ELSE IF broker = "applied" THEN After(Mine, "ApplySucceeded") ELSE Mine

BeginWrites ==
    /\ BrokerAt({"arm", "applying", "applied"})
    /\ zoneJournal' = ToWrite
    /\ own' = [own EXCEPT !["broker"] = ToWrite]
    /\ broker' = CASE broker = "arm" -> "spawn" [] broker = "applying" -> "apply"
                   [] broker = "applied" -> "active"
    /\ UNCHANGED <<zone, before, safe, boots, at, redirects, zoneFaults>> /\ KeepOthers

\* A write before the change is a safe failure; after it the lease is finished.
BeginWriteFails ==
    /\ BrokerAt({"arm", "applying", "applied"})
    /\ zoneFaults < MaxZoneFaults /\ zoneFaults' = zoneFaults + 1
    /\ zoneJournal' \in {zoneJournal, ToWrite}
    /\ IF broker = "applied" THEN Reconciling("finish") ELSE Step("idle")
    /\ UNCHANGED <<zone, before, safe, boots, redirects>> /\ KeepOthers

\* The broker waits for the watchdog's readiness.
SpawnWatchdog ==
    /\ BrokerAt({"spawn"})
    /\ \E w \in Watchdogs :
          /\ dog[w] = "none"
          /\ dog' = [dog EXCEPT ![w] = "starting"]
          /\ parent' = [parent EXCEPT ![w] = boots]
    /\ broker' = "spawning"
    /\ UNCHANGED <<shared, safe, boots, tries, at, own, counts>>

\* It does not start, exits or is late: it is terminated and the journal removed.
SpawnFails ==
    /\ BrokerAt({"spawn", "spawning"})
    /\ zoneFaults < MaxZoneFaults /\ zoneFaults' = zoneFaults + 1
    /\ dog' = [w \in Watchdogs |-> IF dog[w] = "starting" /\ parent[w] = boots THEN "none" ELSE dog[w]]
    /\ Step("disarm")
    /\ UNCHANGED <<shared, safe, parent, tries, redirects, zoneChanges, commands>>

Disarm ==
    /\ BrokerAt({"disarm"})
    /\ Step("idle")
    /\ \/ zoneJournal' = None /\ UNCHANGED zoneFaults
       \/ zoneFaults < MaxZoneFaults /\ zoneFaults' = zoneFaults + 1 /\ UNCHANGED zoneJournal
    /\ UNCHANGED <<zone, before, safe, redirects>> /\ KeepOthers

Redirect == SetZone(Mine.target, IF Redirected THEN before ELSE Mine.original)

\* The change itself; a failed call may have changed the zone.
ApplyZone ==
    /\ BrokerAt({"apply"})
    /\ \/ /\ Redirect /\ Step("verify") /\ UNCHANGED zoneFaults
       \/ /\ zoneFaults < MaxZoneFaults /\ zoneFaults' = zoneFaults + 1
          /\ Redirect \/ UNCHANGED <<zone, before>>
          /\ Reconciling("failed") /\ UNCHANGED boots
    /\ UNCHANGED <<zoneJournal, safe, redirects>> /\ KeepOthers

ApplyFailed ==
    /\ RecoveryEnded("failed")
    /\ Disable(at["broker"], {"HoldForOperator", "Err"})
    /\ Step("idle")
    /\ UNCHANGED <<shared, redirects, zoneFaults>> /\ KeepOthers

\* The zone is read back; a difference or a failed read finishes the lease.
Verify ==
    /\ BrokerAt({"verify"})
    /\ \/ zone = Mine.target /\ Step("applied") /\ UNCHANGED zoneFaults
       \/ zone # Mine.target /\ Reconciling("finish") /\ UNCHANGED <<boots, zoneFaults>>
       \/ /\ zoneFaults < MaxZoneFaults /\ zoneFaults' = zoneFaults + 1
          /\ Reconciling("finish") /\ UNCHANGED boots
    /\ UNCHANGED <<shared, safe, redirects>> /\ KeepOthers

\* The session ends: TimezoneLease::finish.
EndSession ==
    /\ BrokerAt({"active"})
    /\ Overlap \/ at["operator"] = "off"
    /\ Reconciling("finish")
    /\ UNCHANGED <<shared, safe, boots, redirects, zoneFaults>> /\ KeepOthers

\* Unless the original was put back redirection is disabled and, as the lease is
\* still active, its drop tries once more.
Finished ==
    /\ RecoveryEnded("finish")
    /\ Disable(at["broker"], Outcomes \ {"Restored"})
    /\ IF at["broker"] = "Restored" THEN Step("idle") ELSE Reconciling("drop") /\ UNCHANGED boots
    /\ UNCHANGED <<shared, redirects, zoneFaults>> /\ KeepOthers

Dropped ==
    /\ RecoveryEnded("drop")
    /\ Step("idle")
    /\ UNCHANGED <<shared, safe, redirects, zoneFaults>> /\ KeepOthers

BrokerCrash ==
    /\ broker # "down"
    /\ broker' = "down"
    /\ MoveTo("broker", "off") /\ Forget("broker")
    /\ UNCHANGED <<shared, safe, boots, redirects, zoneFaults>> /\ KeepOthers

Broker ==
    \/ Boot \/ EntryDone \/ StartupDone \/ BeginMapped \/ BeginWrites \/ BeginWriteFails
    \/ SpawnWatchdog \/ SpawnFails \/ Disarm \/ ApplyZone \/ ApplyFailed \/ Verify
    \/ EndSession \/ Finished \/ Dropped

-----------------------------------------------------------------------------
(* The watchdogs, the operator and everybody else. *)

ParentExited(w) == broker = "down" \/ boots # parent[w]
Watch(w, step) == dog' = [dog EXCEPT ![w] = step]
KeepBroker == UNCHANGED <<brokers, counts>>

\* wait_for_watchdog_parent: ready, and the broker goes on ...
WatchdogReady(w) ==
    /\ dog[w] = "starting" /\ ~ParentExited(w)
    /\ Watch(w, "waiting")
    /\ broker' = "applying"
    /\ UNCHANGED <<shared, safe, boots, parent, tries, at, own, counts>>

\* ... or the parent is gone, and the journal it armed is removed.
WatchdogTooLate(w) ==
    /\ dog[w] = "starting" /\ ParentExited(w)
    /\ Watch(w, "none")
    /\ zoneJournal' = None
    /\ UNCHANGED <<zone, before, parent, tries, at, own>> /\ KeepBroker

WatchdogDisarmed(w) ==
    /\ dog[w] = "waiting" /\ zoneJournal = None
    /\ Watch(w, "none")
    /\ UNCHANGED <<shared, parent, tries, at, own>> /\ KeepBroker

\* run_restore_watchdog
WatchdogWakes(w) ==
    /\ dog[w] = "waiting" /\ ParentExited(w)
    /\ Overlap \/ at["operator"] = "off"
    /\ Watch(w, "restoring")
    /\ tries' = [tries EXCEPT ![w] = 1]
    /\ MoveTo(w, "read")
    /\ UNCHANGED <<shared, parent, own>> /\ KeepBroker

\* Mutant: one attempt only.
RetriesNever(w) == FALSE

Retries(w) == at[w] = "Err" /\ tries[w] < Attempts

WatchdogDone(w) ==
    /\ dog[w] = "restoring" /\ at[w] \in Outcomes
    /\ IF Retries(w)
       THEN tries' = [tries EXCEPT ![w] = @ + 1] /\ MoveTo(w, "read") /\ UNCHANGED dog
       ELSE Watch(w, "none") /\ MoveTo(w, "off") /\ UNCHANGED tries
    /\ Forget(w)
    /\ UNCHANGED <<shared, parent>> /\ KeepBroker

Watchdog(w) ==
    WatchdogReady(w) \/ WatchdogTooLate(w) \/ WatchdogDisarmed(w) \/ WatchdogWakes(w) \/ WatchdogDone(w)

\* rearm_conflicted_journal: written directly as Applying.
Rearmed(lease) == After(Arm(lease.original, lease.target), "BeginApply")

\* restore_from_journal: a conflict is overridden, anything else is reconciled.
RestoreCommand ==
    /\ at["operator"] = "off" /\ commands < MaxCommands
    /\ Overlap \/ (broker \in {"down", "idle", "active"} /\ at["broker"] = "off"
                   /\ \A w \in Watchdogs : dog[w] \in {"none", "waiting"})
    /\ commands' = commands + 1
    /\ IF zoneJournal # None /\ zoneJournal.phase = "Conflicted"
       THEN /\ own' = [own EXCEPT !["operator"] = Rearmed(zoneJournal)]
            /\ MoveTo("operator", "rearm")
       ELSE MoveTo("operator", "read") /\ UNCHANGED own
    /\ UNCHANGED <<shared, brokers, dogs, redirects, zoneChanges, zoneFaults>>

CommandDone ==
    /\ at["operator"] \in Outcomes
    /\ MoveTo("operator", "off") /\ Forget("operator")
    /\ UNCHANGED <<shared, dogs>> /\ KeepBroker

\* A user, a policy or another program sets the machine's zone.
ChangeZone ==
    /\ zoneChanges < MaxZoneChanges /\ zoneChanges' = zoneChanges + 1
    /\ \E z \in Zones \ {zone} : SetZone(z, None)
    /\ UNCHANGED <<zoneJournal, brokers, dogs, at, own, redirects, zoneFaults, commands>>

ZoneInit ==
    /\ zone \in Zones /\ zoneJournal = None /\ before = None
    /\ broker = "down" /\ safe = TRUE /\ boots = 0
    /\ dog = [w \in Watchdogs |-> "none"]
    /\ parent = [w \in Watchdogs |-> 0] /\ tries = [w \in Watchdogs |-> 0]
    /\ at = [p \in Processes |-> "off"]
    /\ own = [p \in Processes |-> None]
    /\ redirects = 0 /\ zoneChanges = 0 /\ zoneFaults = 0 /\ commands = 0

ZoneNext ==
    \/ Broker \/ BrokerCrash \/ RestoreCommand \/ CommandDone \/ ChangeZone
    \/ \E w \in Watchdogs : Watchdog(w)
    \/ \E p \in Processes : Reconcile(p)

ZoneSpec == ZoneInit /\ [][ZoneNext]_zoneVars

-----------------------------------------------------------------------------
(* Properties. *)

\* While the machine has a zone this program gave it, the journal on disk names
\* the zone to put back, in a phase from which recovery will do so: whatever
\* crashes, fails or is changed between the steps of begin_mapped, reconcile
\* and restore_journal, and with several watchdogs restoring at once.
RedirectIsJournalled ==
    Redirected => /\ zoneJournal # None
                  /\ zoneJournal.original = before
                  /\ zoneJournal.phase \in ActivePhases

\* After a crash of the broker the watchdogs alone put the original back or leave
\* a conflict for the operator, as long as fewer attempts fail than they make.
CrashIsRepaired ==
    (broker = "down" /\ Redirected) ~> (~Redirected \/ broker # "down")
=============================================================================
