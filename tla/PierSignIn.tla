------------------------------ MODULE PierSignIn ------------------------------
(***************************************************************************)
(* The first half of a connection's task on the Linux Pier (run_ws in        *)
(* hosts/linux/src/net/server.rs): it presents a resume grant, or signs in,   *)
(* takes over or displaces a predecessor, takes the session slot, is         *)
(* admitted, acquires the desktop and is issued the first grant.  An action  *)
(* is what a task does between two awaits or two locks.                      *)
(***************************************************************************)
EXTENDS PierState

-----------------------------------------------------------------------------
(* Signing in, resuming and taking over (run_ws). *)

\* The session's availability for a resume is read before authentication.
Connect(c) ==
    /\ Is(c, "idle") /\ stop = "run"
    /\ link' = [link EXCEPT ![c] = "up"]
    /\ task' = [task EXCEPT ![c].pc = "auth", ![c].sock = c,
                   ![c].seen = entry # NoEntry /\ entry.state \in {"Detached", "Resuming"}]
    /\ UNCHANGED <<registryVars, desktopVars, admitted, incumbent, displaced, channelVars, globalVars>>

\* The permit names the owner to hand the socket to; a rejection that ended
\* the session names the owner to tell; any other rejection ends the task.
Answered(c, g, verdict) ==
    /\ Registry!ApplyVerdict(g, verdict)
    /\ \/ /\ verdict \in {"permit", "drained"}
          /\ task' = [task EXCEPT
                ![c].pc = IF verdict = "permit" THEN "handoff" ELSE "notify",
                ![c].session = entry.session, ![c].ref = Record(entry.owner, Nobody)]
          /\ UNCHANGED <<desktopVars, admitted, peerVars, channelVars, globalVars>>
       \/ /\ verdict \in {"exhausted", "rejected", "gone"}
          /\ Return(c)

\* A grant is presented; the registry answers with a permit or a rejection.
PrepareResume(c) ==
    /\ Is(c, "auth")
    /\ \E g \in grants, same, expired \in BOOLEAN, fault \in Registry!Faults :
          Answered(c, g, Registry!Verdict(g, same, expired, fault))

\* The permit's socket moves to the owner; if the owner is gone the slot drains.
Handoff(c) ==
    /\ Is(c, "handoff")
    /\ \/ /\ Listening(task[c].ref.task)
          /\ SendTo(task[c].ref.task, Command("Resume", c))
          /\ task' = [task EXCEPT ![c] = Blank("done")]
          /\ UNCHANGED <<registryVars, desktopVars, admitted, peerVars, answer, globalVars>>
       \/ /\ ~Listening(task[c].ref.task)
          /\ Registry!BeginDrain(task[c].session)
          /\ Return(c)

\* A rejection that ended the session tells its owner.
NotifyOwner(c) ==
    /\ Is(c, "notify")
    /\ SendTo(task[c].ref.task, Command("Terminal", c))
    /\ task' = [task EXCEPT ![c] = Blank("done")]
    /\ link' = [link EXCEPT ![c] = "down"]
    /\ UNCHANGED <<registryVars, desktopVars, admitted, incumbent, displaced, answer, globalVars>>

SignInFails(c) == Is(c, "auth") /\ Return(c) /\ UNCHANGED registryVars

SignIn(c) ==
    /\ Is(c, "auth")
    /\ \E u \in Users :
          task' = [task EXCEPT ![c].user = u, ![c].pc = IF task[c].seen THEN "takeover" ELSE "slot"]
    /\ UNCHANGED <<registryVars, desktopVars, admitted, peerVars, channelVars, globalVars>>

\* Mutant: also a session that is being resumed may be taken over.
MayTakeOverResuming == entry # NoEntry /\ entry.state # "Attached" /\ Listening(entry.owner)

MayTakeOver == entry # NoEntry /\ entry.state = "Detached" /\ Listening(entry.owner)
RequestTakeOver(c) ==
    /\ Is(c, "takeover")
    /\ inbox' = IF MayTakeOver
                THEN [inbox EXCEPT ![entry.owner] = Append(@, Command("TakeOver", c))] ELSE inbox
    /\ Goto(c, IF MayTakeOver THEN "answer" ELSE "slot")
    /\ UNCHANGED <<registryVars, desktopVars, admitted, peerVars, answer, globalVars>>

TakeOverGranted(c) ==
    /\ Is(c, "answer") /\ answer[c] = "handed"
    /\ Goto(c, "slot")
    /\ UNCHANGED <<registryVars, desktopVars, admitted, peerVars, channelVars, globalVars>>

\* Refused, or no answer: the owner ended, or took more than the ten seconds.
TakeOverRefused(c) == Is(c, "answer") /\ answer[c] # "handed" /\ Return(c) /\ UNCHANGED registryVars

-----------------------------------------------------------------------------
(* The session slot and the incumbent (acquire_session_slot). *)

TakeSlot(c) ==
    /\ slot = "free" /\ slot' = c
    /\ Goto(c, "register")
    /\ UNCHANGED <<registryVars, desktop, cleanup, created, admitted, peerVars, channelVars, globalVars>>

Resuming == entry # NoEntry /\ entry.state = "Resuming"
SameUser(c, d) == d \in Conns /\ task[c].user = task[d].user

\* A held slot is refused while a resume is in progress or to another user;
\* the same user's incumbent is proven alive or silent.
TrySlot(c) ==
    /\ Is(c, "slot")
    /\ \/ TakeSlot(c)
       \/ /\ slot # "free" /\ (Resuming \/ (incumbent # NoRecord /\ ~SameUser(c, incumbent.task)))
          /\ Return(c) /\ UNCHANGED registryVars
       \/ /\ slot # "free" /\ ~Resuming /\ (incumbent = NoRecord \/ SameUser(c, incumbent.task))
          /\ GotoWith(c, IF incumbent = NoRecord THEN "slotwait" ELSE "proof", incumbent)
          /\ UNCHANGED <<registryVars, desktopVars, admitted, peerVars, channelVars, globalVars>>

\* Heard, or replaced while under proof: one more try for the slot.
IncumbentAlive(c) ==
    /\ Is(c, "proof")
    /\ link[task[c].ref.conn] = "up" \/ incumbent \notin {task[c].ref, NoRecord}
    /\ \/ TakeSlot(c)
       \/ slot # "free" /\ Return(c) /\ UNCHANGED registryVars

StillIncumbent(c) == incumbent = task[c].ref

\* Closed or silent: marked displaced if the record still names it, then a
\* silent connection is closed.
IncumbentSilent(c) ==
    /\ Is(c, "proof")
    /\ \/ /\ StillIncumbent(c)
          /\ displaced' = [displaced EXCEPT ![task[c].ref.task] = TRUE]
          /\ Goto(c, IF link[task[c].ref.conn] = "up" THEN "close" ELSE "slotwait")
       \/ /\ incumbent = NoRecord
          /\ Goto(c, "slotwait")
          /\ UNCHANGED displaced
    /\ UNCHANGED <<registryVars, desktopVars, admitted, incumbent, link, channelVars, globalVars>>

CloseSilent(c) ==
    /\ Is(c, "close")
    /\ link' = [link EXCEPT ![task[c].ref.conn] = "down"]
    /\ Goto(c, "slotwait")
    /\ UNCHANGED <<registryVars, desktopVars, admitted, incumbent, displaced, channelVars, globalVars>>

SlotFreed(c) == Is(c, "slotwait") /\ TakeSlot(c)
SlotTimeout(c) == Is(c, "slotwait") /\ slot # "free" /\ Return(c) /\ UNCHANGED registryVars

Register(c) ==
    /\ Is(c, "register")
    /\ incumbent' = Record(c, c)
    /\ Goto(c, "admit")
    /\ UNCHANGED <<registryVars, desktopVars, admitted, displaced, link, channelVars, globalVars>>

MayAdmit == admitted = Nobody
Admit(c) ==
    /\ Is(c, "admit") /\ MayAdmit
    /\ admitted' = c
    /\ Goto(c, "acquire")
    /\ UNCHANGED <<registryVars, desktopVars, peerVars, channelVars, globalVars>>
AdmitTimeout(c) == Is(c, "admit") /\ admitted # Nobody /\ Return(c) /\ UNCHANGED registryVars

-----------------------------------------------------------------------------
(* The desktop and the first grant (SessionRegistry::acquire, issue_initial). *)

\* Mutants: any user's desktop is reattached; a running cleanup is ignored.
ReconnectsAnyUser(c) == desktop # NoDesktop /\ desktop.client = "disconnected"

MayDecide == cleanup = "none"
Reconnects(c) == Serves(c) /\ desktop.client = "disconnected"

\* decide_existing, with the tear-down of a dead, idle-expired or differently
\* laid out desktop before the decision is taken again.
AcquireDesktop(c) ==
    /\ Is(c, "acquire") /\ MayDecide
    /\ \/ /\ desktop = NoDesktop
          /\ Goto(c, "create")
          /\ UNCHANGED <<registryVars, desktopVars, admitted, peerVars, channelVars, globalVars>>
       \/ /\ desktop # NoDesktop /\ (desktop.launcher = "dead" \/ desktop.client = "disconnected")
          /\ TearDown
          /\ UNCHANGED <<registryVars, admitted, peerVars, channelVars, task, globalVars>>
       \/ /\ desktop # NoDesktop /\ desktop.launcher # "dead" /\ Reconnects(c)
          /\ desktop' = [desktop EXCEPT !.client = "connected"]
          /\ task' = [task EXCEPT ![c].pc = "setup", ![c].lease = "held", ![c].session = desktop.id]
          /\ UNCHANGED <<registryVars, slot, cleanup, created, admitted, peerVars, channelVars, globalVars>>
       \/ /\ desktop # NoDesktop /\ desktop.launcher # "dead" /\ ~Reconnects(c)
          /\ Return(c) /\ UNCHANGED registryVars

CreateDesktop(c) ==
    /\ Is(c, "create") /\ created < MaxDesktops
    /\ created' = created + 1
    /\ desktop' = [id |-> created + 1, user |-> task[c].user, client |-> "connected",
                   launcher |-> "running"]
    /\ task' = [task EXCEPT ![c].pc = "setup", ![c].lease = "held", ![c].session = created + 1]
    /\ UNCHANGED <<registryVars, slot, cleanup, admitted, peerVars, channelVars, globalVars>>

\* The launcher cannot open the desktop, or a later step of the setup fails.
SetupFails(c) == task[c].pc \in {"create", "setup"} /\ Return(c) /\ UNCHANGED registryVars

IssueGrant(c) ==
    /\ Is(c, "setup") /\ NativeValid(c)
    /\ Registry!IssueInitial(task[c].session, c, c)
    /\ task' = [task EXCEPT ![c].pc = "send", ![c].owns = "slot"]
    /\ UNCHANGED <<desktopVars, admitted, peerVars, channelVars, globalVars>>

\* Validation, signing or an occupied registry fails the setup: the display is
\* restored and the desktop terminated.
IssueFails(c) ==
    /\ Is(c, "setup")
    /\ Goto(c, "undo")
    /\ UNCHANGED <<registryVars, desktopVars, admitted, peerVars, channelVars, globalVars>>

SendGrant(c) ==
    /\ Is(c, "send")
    /\ Goto(c, "attached")
    /\ UNCHANGED <<registryVars, desktopVars, admitted, peerVars, channelVars, globalVars>>

SendGrantFails(c) ==
    /\ Is(c, "send")
    /\ Registry!BeginDrain(task[c].session)
    /\ Goto(c, "undo")
    /\ UNCHANGED <<desktopVars, admitted, peerVars, channelVars, globalVars>>

\* A Deck that asked for no resume is served without a grant.
ServePlain(c) ==
    /\ Is(c, "setup")
    /\ Goto(c, "plain")
    /\ UNCHANGED <<registryVars, desktopVars, admitted, peerVars, channelVars, globalVars>>

\* The display is restored first, then the desktop is kept or terminated.
RestoreDisplay(c, from, to) ==
    /\ Is(c, from)
    /\ slot' = IF slot = c THEN "free" ELSE slot
    /\ Goto(c, to)
    /\ UNCHANGED <<registryVars, desktop, cleanup, created, admitted, peerVars, channelVars, globalVars>>
PlainEnds(c) == RestoreDisplay(c, "plain", "kept") \/ RestoreDisplay(c, "plain", "terminate")
PlainReturns(c) == Is(c, "kept") /\ Return(c) /\ UNCHANGED registryVars
UndoSetup(c) == RestoreDisplay(c, "undo", "terminate")
=============================================================================
