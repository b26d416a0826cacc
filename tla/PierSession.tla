----------------------------- MODULE PierSession -----------------------------
(***************************************************************************)
(* The Linux Pier: its connection tasks (PierSignIn, PierOwner) over the      *)
(* shared objects (PierState), the world that loses connections and ends     *)
(* desktops, and the ordered shutdown of the process.  The tasks interleave   *)
(* freely.                                                                   *)
(*                                                                         *)
(* Left open: when connections arrive and are lost, whether a peer is         *)
(* silent, when the desktop dies, what a grant is presented with, and         *)
(* whether a bounded wait is answered or times out first.                    *)
(***************************************************************************)
EXTENDS PierOwner

-----------------------------------------------------------------------------
(* The world. *)

\* Connections that a session uses or is about to use.
InUse == {task[c].sock : c \in {d \in Conns : task[d].owns = "slot"}}
         \union UNION {Queued(c, "Resume") : c \in Conns}

LinkLost(c) ==
    /\ link[c] = "up" /\ c \in InUse
    /\ link' = [link EXCEPT ![c] = "down"]
    /\ UNCHANGED <<registryVars, desktopVars, admitted, incumbent, displaced, channelVars, task,
                   globalVars>>

Tick ==
    /\ now < MaxTime
    /\ now' = now + 1
    /\ UNCHANGED <<registryVars, desktopVars, admitted, peerVars, channelVars, task, stop>>

-----------------------------------------------------------------------------
(* Shutdown of the process, in the order of the server's tail. *)

StopTo(next) == stop' = next /\ UNCHANGED now

StopEndpoint ==
    /\ stop = "run" /\ MayStop
    /\ StopTo("closed")
    /\ link' = [c \in Conns |-> "down"]
    /\ UNCHANGED <<registryVars, desktopVars, admitted, incumbent, displaced, channelVars, task>>

\* The registry revokes its grant and tells the owner.
StopRequest ==
    /\ stop = "closed"
    /\ StopTo("signalled")
    /\ Registry!Shutdown
    /\ IF entry = NoEntry THEN UNCHANGED inbox
       ELSE SendTo(entry.owner, Command("PierShutdown", Nobody))
    /\ UNCHANGED <<desktopVars, admitted, peerVars, answer, task>>

Over(c) == task[c].pc \in {"idle", "done", "panicked"}

\* The connection tasks are joined, or aborted when that takes too long.
StopTimeout ==
    /\ stop = "signalled" /\ \E c \in Conns : ~Over(c)
    /\ StopTo("aborting")
    /\ UNCHANGED <<registryVars, desktopVars, admitted, peerVars, channelVars, task>>
Abort(c) == stop = "aborting" /\ ~Over(c) /\ Return(c) /\ UNCHANGED registryVars
StopJoined ==
    /\ stop \in {"signalled", "aborting"} /\ \A c \in Conns : Over(c)
    /\ StopTo("joined")
    /\ UNCHANGED <<registryVars, desktopVars, admitted, peerVars, channelVars, task>>

\* Mutant: the registry is not shut down again after the tasks are gone.
StopDesktopOnly ==
    /\ stop = "joined"
    /\ StopTo("taken")
    /\ IF cleanup = "none" /\ desktop # NoDesktop THEN TearDown ELSE UNCHANGED desktopVars
    /\ UNCHANGED <<registryVars, admitted, peerVars, channelVars, task>>

\* SessionRegistry::shutdown: the desktop is taken unless a cleanup runs.
StopDesktop ==
    /\ stop = "joined"
    /\ StopTo("taken")
    /\ Registry!Shutdown
    /\ IF cleanup = "none" /\ desktop # NoDesktop THEN TearDown ELSE UNCHANGED desktopVars
    /\ UNCHANGED <<admitted, peerVars, channelVars, task>>

StopComplete ==
    /\ stop = "taken" /\ cleanup = "none"
    /\ StopTo("done")
    /\ Registry!CompleteShutdown
    /\ UNCHANGED <<desktopVars, admitted, peerVars, channelVars, task>>

-----------------------------------------------------------------------------
(* The system. *)

\* What a task does by itself, including its bounded waits that time out.
TaskStep(c) ==
    \/ Handoff(c) \/ NotifyOwner(c) \/ SignInFails(c) \/ SignIn(c) \/ PrepareResume(c)
    \/ RequestTakeOver(c) \/ TakeOverGranted(c) \/ TakeOverRefused(c)
    \/ TrySlot(c) \/ IncumbentAlive(c) \/ IncumbentSilent(c) \/ CloseSilent(c)
    \/ SlotFreed(c) \/ SlotTimeout(c) \/ Register(c) \/ Admit(c) \/ AdmitTimeout(c)
    \/ AcquireDesktop(c) \/ CreateDesktop(c) \/ SetupFails(c) \/ IssueGrant(c) \/ IssueFails(c)
    \/ SendGrant(c) \/ SendGrantFails(c) \/ ServePlain(c) \/ PlainReturns(c) \/ UndoSetup(c)
    \/ EndDisplaced(c) \/ EndTerminal(c) \/ EndLost(c) \/ OwnerPanics(c)
    \/ HoldForResume(c) \/ MarkDetached(c) \/ DeadlineReached(c) \/ WaitDisplaced(c)
    \/ ReceiveTakeOver(c) \/ ReceiveTerminal(c) \/ MonitorFails(c)
    \/ ReceiveResume(c) \/ ValidateResume(c) \/ DeliverSuccessor(c) \/ DeliveryFails(c)
    \/ Rebind(c) \/ MarkAttached(c)
    \/ RecordSuperseded(c) \/ DrainForSuccessor(c) \/ RestoreForSuccessor(c) \/ ReleaseSlot(c)
    \/ HandOver(c) \/ DrainSlot(c) \/ KeepDisplay(c) \/ Terminate(c) \/ Finish(c) \/ Abort(c)

\* What happens to a served attachment.
Served(c) ==
    \/ AttachmentLost(c) \/ SetupWriterEnds(c) \/ AttachmentCloses(c) \/ AttachmentCommanded(c)
    \/ RefreshGrant(c) \/ RefreshFails(c) \/ PlainEnds(c)

Stopping == StopEndpoint \/ StopRequest \/ StopTimeout \/ StopJoined \/ StopDesktop \/ StopComplete

CleanupStep == CleanupRestoresDisplay \/ CleanupCompletes

Next ==
    \/ \E c \in Conns : Connect(c) \/ TaskStep(c) \/ Served(c) \/ LinkLost(c)
    \/ CleanupStep \/ NativeSessionEnds \/ Tick \/ Stopping

Spec == Init /\ [][Next]_vars

\* Every task and the cleanup are scheduled, and time passes.
FairSpec ==
    /\ Spec
    /\ \A c \in Conns : WF_vars(TaskStep(c))
    /\ WF_vars(CleanupStep)
    /\ WF_vars(Tick)

-----------------------------------------------------------------------------
(* Properties. *)

\* No task was aborted by the shutdown; and none panicked.
Unaborted == stop \in {"run", "closed", "signalled"}
Orderly == Unaborted /\ \A c \in Conns : ~Is(c, "panicked")

\* The entry of the resume registry always belongs to a task that still owns
\* the session the entry names: no hand-over, drain or failed setup leaves a
\* grant behind that nobody will honour.
EntryHasOwner ==
    Orderly /\ entry # NoEntry =>
        task[entry.owner].owns = "slot" /\ task[entry.owner].session = entry.session

\* A lease names the registry's desktop, of the right user and connected, and is
\* the only one, although leases are compared by user name alone (the
\* generation they also compare is always 1).
LeaseNamesDesktop ==
    \A c \in Conns : task[c].lease = "held" =>
        /\ desktop # NoDesktop => /\ desktop.id = task[c].session /\ desktop.user = task[c].user
                                  /\ desktop.client = "connected"
        /\ \A d \in Conns : task[d].lease = "held" => d = c

\* The session slot is never stranded: its permit is with a task that runs, with
\* the desktop of an owner that runs (unless the shutdown aborted it), or with
\* a running cleanup.
SlotHasHolder ==
    /\ slot \in Conns => ~Over(slot)
    /\ slot = "held" /\ Unaborted => \E c \in Conns : task[c].owns = "slot" /\ task[c].lease = "held"
    /\ slot = "cleanup" => cleanup = "running"

\* A resuming entry is always driven on: its permit is on the way to the owner,
\* queued, or in the owner's hands.  Nothing waits for a resume that was lost.
ResumingIsDriven ==
    Orderly /\ Resuming =>
        \/ \E c \in Conns : Is(c, "handoff") /\ task[c].ref.task = entry.owner
        \/ Queued(entry.owner, "Resume") # {}
        \/ task[entry.owner].pc \in {"validate", "deliver", "rebind", "remark", "drain"}

\* A displacement mark never hits a live connection: it is on a closed one, or on
\* the silent one its prover is about to close, also when a resume moves the
\* record while the old connection is under proof.
DisplacedIsGone ==
    \A c \in Conns : displaced[c] /\ incumbent.task = c =>
        \/ link[incumbent.conn] = "down"
        \/ \E d \in Conns : Is(d, "close") /\ task[d].ref = incumbent

\* No command outlives the detachment it was sent for: an attached owner, which
\* takes any command for a shutdown, finds one only when the Pier stops.
AttachedChannelEmpty ==
    \A c \in Conns : Is(c, "attached") /\ stop \in {"run", "closed"} => inbox[c] = <<>>

\* A completed shutdown leaves no grant, no desktop, no cleanup and no display
\* behind, also when connection tasks had to be aborted.
ShutdownIsClean ==
    stop = "done" => /\ entry = NoEntry /\ desktop = NoDesktop /\ cleanup = "none"
                     /\ slot = "free" /\ admitted = Nobody

\* The owner's expectation "resumable transport loss records its observation
\* time": every loss it would detach for carries one.
LossCarriesItsTime ==
    \A c \in Conns : Is(c, "ended") /\ task[c].end = "loss" => task[c].loss # NoTime

\* Every task that is not serving a Deck eventually serves one or is over: no
\* wait for an answer, a slot, an admission, a cleanup or a resume is endless.
EveryTaskSettles ==
    \A c \in Conns : ~Over(c) ~> Over(c) \/ task[c].pc \in {"attached", "plain"}
=============================================================================
