-------------------------------- MODULE MCHost --------------------------------
(***************************************************************************)
(* What a host keeps about its sessions and must put back: the table of        *)
(* session lifecycles (SessionLifecycles), the certificate files and their      *)
(* journal (HostCert) and the redirected time zone and its lease                *)
(* (TimezoneRedirect), all extended here, and the outputs of a Wayland desktop  *)
(* (OutputReconfigure).                                                      *)
(*                                                                         *)
(* They belong to different programs or share no state.  A behaviour is one   *)
(* of the part it starts with; the others stay as they began.                *)
(***************************************************************************)
EXTENDS SessionLifecycles, HostCert, TimezoneRedirect

CONSTANT FirstZone

VARIABLES part,
          live, comp, txn, desired, keeper, rec, facts, snap, outputFaults, configs,
          changes, closes, over

\* One redirection, two failures, and the operator's command to restore.
Commanded == INSTANCE TimezoneRedirect WITH MaxRedirects <- 1, MaxZoneFaults <- 2, MaxCommands <- 1

\* The installer alone, whose roll-back may itself fail.
Installer == INSTANCE HostCert WITH Publishers <- {"installer"}, MaxCrashes <- 1, MaxFaults <- 2

\* Outputs of one or two sizes, resized, moved, added and removed.
Out(s, p) == [size |-> s, pos |-> p]
TwoSmall == <<Out(1, 0), Out(1, 1)>>
Outputs == INSTANCE OutputReconfigure WITH
    Layouts <- {<<Out(1, 0)>>, <<Out(2, 0)>>, TwoSmall, <<Out(1, 1), Out(1, 0)>>,
                <<Out(2, 0), Out(1, 2)>>},
    First <- TwoSmall, MaxConfigs <- 2, MaxFaults <- 2, MaxChanges <- 1, MaxCloses <- 1,
    faults <- outputFaults

outputVars == <<live, comp, txn, desired, keeper, rec, facts, snap, outputFaults, configs,
                changes, closes, over>>
hostVars == <<part, vars, certVars, zoneVars, outputVars>>

\* The zones are interchangeable, so the first is the machine's own.
HostInit ==
    /\ part \in {"lifecycles", "cert", "installer", "zone", "commanded zone", "outputs"}
    /\ Init /\ Outputs!Init
    /\ CertInit /\ (part # "cert" => who = "installer")
    /\ part \notin {"cert", "installer"} => file["key"] = Absent
    /\ ZoneInit /\ zone = FirstZone

HostNext ==
    /\ UNCHANGED part
    /\ \/ part = "lifecycles" /\ Next /\ UNCHANGED <<certVars, zoneVars, outputVars>>
       \/ part = "cert" /\ CertNext /\ UNCHANGED <<vars, zoneVars, outputVars>>
       \/ part = "installer" /\ Installer!CertNext /\ UNCHANGED <<vars, zoneVars, outputVars>>
       \/ part = "zone" /\ ZoneNext /\ UNCHANGED <<vars, certVars, outputVars>>
       \/ part = "commanded zone" /\ Commanded!ZoneNext /\ UNCHANGED <<vars, certVars, outputVars>>
       \/ part = "outputs" /\ Outputs!Next /\ UNCHANGED <<vars, certVars, zoneVars>>

\* A process that runs takes its next step; nobody owes a session, a crash, a
\* restart, a command or a change.
ZoneFairness ==
    /\ \A w \in Watchdogs :
          /\ WF_zoneVars(part = "zone" /\ Watchdog(w))
          /\ WF_zoneVars(part = "zone" /\ Reconcile(w))
          /\ WF_zoneVars(part = "commanded zone" /\ Commanded!Watchdog(w))
          /\ WF_zoneVars(part = "commanded zone" /\ Commanded!Reconcile(w))
    /\ WF_zoneVars(part = "commanded zone" /\ Commanded!Reconcile("operator"))
    /\ WF_zoneVars(part = "commanded zone" /\ Commanded!CommandDone)

\* A transaction goes through its steps, and so do the placement keeper and the
\* recovery; nobody owes a request, a monitor change or a closed session.
OutputFairness ==
    /\ WF_outputVars(part = "outputs" /\ Outputs!BindOutputs)
    /\ WF_outputVars(part = "outputs" /\ (Outputs!Verify \/ Outputs!VerifyFails))
    /\ WF_outputVars(part = "outputs" /\ Outputs!CommitOutputs)
    /\ WF_outputVars(part = "outputs" /\ Outputs!Finish)
    /\ WF_outputVars(part = "outputs" /\ Outputs!KeeperWakes)
    /\ WF_outputVars(part = "outputs" /\ Outputs!KeeperPlaces)
    /\ WF_outputVars(part = "outputs" /\ Outputs!Subscribe)
    /\ WF_outputVars(part = "outputs" /\ Outputs!CheckSignal)
    /\ WF_outputVars(part = "outputs" /\ Outputs!Recover)

HostSpec == HostInit /\ [][HostNext]_hostVars /\ ZoneFairness /\ OutputFairness

-----------------------------------------------------------------------------
(* The properties; each is stated, with the code it is about, in its module.  *)
(* ConfirmedStaysTracked is that of SessionLifecycles, PublishesAtomically and *)
(* RecoveryNeverBlocked are those of HostCert, RedirectIsJournalled and        *)
(* CrashIsRepaired those of TimezoneRedirect.                                 *)

\* OutputReconfigure: an undo that reports success restored the outputs.
RestoredMeansRestored == Outputs!RestoredMeansRestored
\* OutputReconfigure: in the end the outputs are where they were asked to be.
EventuallyPlaced == Outputs!EventuallyPlaced
===============================================================================
