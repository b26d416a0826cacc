------------------------------ MODULE PierOwner ------------------------------
(***************************************************************************)
(* The second half of a connection's task on the Linux Pier: the owner of a   *)
(* resumable session (run_resumable_session in hosts/linux/src/net/server.rs) *)
(* serves attachments, waits detached for a resume, a take-over or the        *)
(* deadline, and hands the desktop over or terminates it.                    *)
(***************************************************************************)
EXTENDS PierSignIn

Session(c) == task[c].session

-----------------------------------------------------------------------------
(* Attached (run_attachment). *)

EndAttachment(c, end, loss) ==
    task' = [task EXCEPT ![c].pc = "ended", ![c].end = end, ![c].loss = loss]

\* The transport is lost; the loss carries the time it was observed.  Losses are
\* only modelled while their whole window fits under MaxTime.
AttachmentLost(c) ==
    /\ Is(c, "attached") /\ link[task[c].sock] = "down" /\ now + Window <= MaxTime
    /\ EndAttachment(c, "loss", now)
    /\ UNCHANGED <<registryVars, desktopVars, admitted, peerVars, channelVars, globalVars>>

\* A control message of the attachment's setup cannot be sent: WriterEnded
\* through AttachmentEnd::terminal, which records no time.
SetupWriterEnds(c) ==
    /\ Is(c, "attached") /\ link[task[c].sock] = "down"
    /\ EndAttachment(c, "loss", NoTime)
    /\ UNCHANGED <<registryVars, desktopVars, admitted, peerVars, channelVars, globalVars>>

\* The Deck closes, the native session or the media end, or the Pier stops.
AttachmentCloses(c) ==
    /\ Is(c, "attached")
    /\ \E end \in {"closed", "native"} : EndAttachment(c, end, NoTime)
    /\ UNCHANGED <<registryVars, desktopVars, admitted, peerVars, channelVars, globalVars>>

\* Any owner command ends an attachment as a host shutdown.
AttachmentCommanded(c) ==
    /\ Is(c, "attached") /\ inbox[c] # <<>>
    /\ EndAttachment(c, "native", NoTime)
    /\ inbox' = [inbox EXCEPT ![c] = Tail(@)]
    /\ UNCHANGED <<registryVars, desktopVars, admitted, peerVars, answer, globalVars>>

\* The control lane's writer refreshes the grant ...
RefreshGrant(c) ==
    /\ Is(c, "attached") /\ Registry!MayRefresh(Session(c)) /\ ~Registry!Exhausted(entry)
    /\ Registry!RefreshGrant(Session(c), "none")
    /\ UNCHANGED <<desktopVars, admitted, peerVars, channelVars, task, globalVars>>

\* ... or cannot, or cannot deliver it: the session drains.
RefreshFails(c) ==
    /\ Is(c, "attached")
    /\ Registry!BeginDrain(Session(c))
    /\ EndAttachment(c, "native", NoTime)
    /\ UNCHANGED <<desktopVars, admitted, peerVars, channelVars, globalVars>>

-----------------------------------------------------------------------------
(* The attachment has ended. *)

\* A displaced attachment is handed over, whatever its end.
EndDisplaced(c) ==
    /\ Is(c, "ended") /\ displaced[c]
    /\ GotoMoved(c, "retire", "ExplicitDisconnect", now)
    /\ UNCHANGED <<registryVars, desktopVars, admitted, peerVars, channelVars, globalVars>>

EndTerminal(c) ==
    /\ Is(c, "ended") /\ ~displaced[c] /\ task[c].end # "loss"
    /\ GotoMoved(c, "drain",
           IF task[c].end = "closed" THEN "ExplicitDisconnect" ELSE "NativeSessionEnded", now)
    /\ UNCHANGED <<registryVars, desktopVars, admitted, peerVars, channelVars, globalVars>>

\* The owner detaches from the time of the loss; a machine that is already
\* draining holds nothing.
EndLost(c) ==
    /\ Is(c, "ended") /\ ~displaced[c] /\ task[c].end = "loss" /\ task[c].loss # NoTime
    /\ LET out == Machine!Apply(task[c].fsm, Machine!Event("UnexpectedLoss"), task[c].loss) IN
       task' = [task EXCEPT ![c].fsm = out.machine,
                   ![c].pc = IF "hold_restore_leases" \in out.do THEN "hold" ELSE "drain"]
    /\ UNCHANGED <<registryVars, desktopVars, admitted, peerVars, channelVars, globalVars>>

\* A loss without its time panics; the task unwinds and its registry entry stays.
OwnerPanics(c) ==
    /\ Is(c, "ended") /\ ~displaced[c] /\ task[c].end = "loss" /\ task[c].loss = NoTime
    /\ LeaveAs(c, "panicked") /\ answer' = Dropped(c)
    /\ UNCHANGED registryVars

HoldForResume(c) ==
    /\ Is(c, "hold")
    /\ HoldDisplay(c)
    /\ Goto(c, IF CanHold(c) THEN "mark" ELSE "drain")
    /\ UNCHANGED <<registryVars, desktop, cleanup, created, admitted, peerVars, channelVars, globalVars>>

MarkDetached(c) ==
    /\ Is(c, "mark")
    /\ Registry!MarkDetached(Session(c))
    /\ Goto(c, IF Registry!MayMark(Session(c)) THEN "waiting" ELSE "drain")
    /\ UNCHANGED <<desktopVars, admitted, peerVars, channelVars, globalVars>>

-----------------------------------------------------------------------------
(* Detached: the owner waits. *)

PastDeadline(c) == now >= task[c].fsm.deadline

DeadlineReached(c) ==
    /\ Is(c, "waiting") /\ PastDeadline(c)
    /\ LET event == Machine!DeadlineReached(task[c].fsm.generation) IN
       task' = [task EXCEPT ![c].pc = "drain", ![c].fsm = Machine!Apply(@, event, now).machine]
    /\ UNCHANGED <<registryVars, desktopVars, admitted, peerVars, channelVars, globalVars>>

\* The held display comes back to the task that hands the desktop over.
StartHandOver(c, claimant) ==
    /\ slot' = IF CanTakeHeld(c) THEN c ELSE slot
    /\ task' = [task EXCEPT ![c].pc = "retire", ![c].ref = Record(claimant, Nobody),
                   ![c].fsm = Moved(c, "ExplicitDisconnect", now)]

WaitDisplaced(c) ==
    /\ Is(c, "waiting") /\ displaced[c]
    /\ StartHandOver(c, Nobody)
    /\ UNCHANGED <<registryVars, desktop, cleanup, created, admitted, peerVars, channelVars, globalVars>>

Received(c, kind) == Is(c, "waiting") /\ inbox[c] # <<>> /\ Head(inbox[c]).kind = kind
Sender(c) == Head(inbox[c]).from
Consume(c) == inbox' = [inbox EXCEPT ![c] = Tail(@)]

ReceiveTakeOver(c) ==
    /\ Received(c, "TakeOver")
    /\ Consume(c)
    /\ \/ /\ Head(inbox[c]).user = task[c].user
          /\ StartHandOver(c, Sender(c))
          /\ UNCHANGED answer
       \/ /\ Head(inbox[c]).user # task[c].user
          /\ answer' = [answer EXCEPT ![Sender(c)] = "refused"]
          /\ UNCHANGED <<slot, task>>
    /\ UNCHANGED <<registryVars, desktop, cleanup, created, admitted, peerVars, globalVars>>

\* A rejected or a validation reported it, or the Pier stops.
ReceiveTerminal(c) ==
    /\ Received(c, "Terminal") \/ Received(c, "PierShutdown")
    /\ Consume(c)
    /\ GotoMoved(c, "drain",
           IF Received(c, "Terminal") THEN "OwnerCrashed" ELSE "ExplicitDisconnect", now)
    /\ UNCHANGED <<registryVars, desktopVars, admitted, peerVars, answer, globalVars>>

\* The two-second monitor finds the native session gone.
MonitorFails(c) ==
    /\ Is(c, "waiting") /\ ~NativeValid(c)
    /\ GotoMoved(c, "drain", "NativeSessionEnded", now)
    /\ UNCHANGED <<registryVars, desktopVars, admitted, peerVars, channelVars, globalVars>>

-----------------------------------------------------------------------------
(* Resuming: the steps of one Resume command, with the awaits between them. *)

Hangup(k) == link' = [link EXCEPT ![k] = "down"]

ReceiveResume(c) ==
    /\ Received(c, "Resume")
    /\ Consume(c)
    /\ \/ /\ ~PastDeadline(c)
          /\ task' = [task EXCEPT ![c].pc = "validate", ![c].ref = Record(Nobody, Sender(c)),
                         ![c].fsm = Moved(c, "BeginResume", now)]
          /\ UNCHANGED link
       \/ /\ PastDeadline(c)
          /\ GotoMoved(c, "drain", "ExplicitDisconnect", now)
          /\ Hangup(Sender(c))
    /\ UNCHANGED <<registryVars, desktopVars, admitted, incumbent, displaced, answer, globalVars>>

\* The native session is validated, the display taken back and the deadline
\* read again; an expired resume restores the display at once.
ValidateResume(c) ==
    /\ Is(c, "validate")
    /\ LET k == task[c].ref.conn IN
       \/ /\ ~NativeValid(c) \/ ~CanTakeHeld(c)
          /\ Goto(c, "drain") /\ Hangup(k) /\ UNCHANGED slot
       \/ /\ NativeValid(c) /\ CanTakeHeld(c) /\ PastDeadline(c)
          /\ slot' = "free"
          /\ GotoMoved(c, "drain", "ExplicitDisconnect", now) /\ Hangup(k)
       \/ /\ NativeValid(c) /\ CanTakeHeld(c) /\ ~PastDeadline(c)
          /\ slot' = c
          /\ Goto(c, "deliver") /\ UNCHANGED link
    /\ UNCHANGED <<registryVars, desktop, cleanup, created, admitted, incumbent, displaced,
                   channelVars, globalVars>>

\* The successor grant is delivered within a bounded send, or the slot drains.
DeliverSuccessor(c) ==
    /\ Is(c, "deliver")
    /\ Goto(c, "rebind")
    /\ UNCHANGED <<registryVars, desktopVars, admitted, peerVars, channelVars, globalVars>>

DeliveryFails(c) ==
    /\ Is(c, "deliver")
    /\ Registry!BeginDrain(Session(c))
    /\ GotoMoved(c, "drain", "OwnerCrashed", now)
    /\ Hangup(task[c].ref.conn)
    /\ UNCHANGED <<desktopVars, admitted, incumbent, displaced, channelVars, globalVars>>

\* Mutant: the record moves and the mark set against the old connection stays.
RebindKeepsMark(c) ==
    /\ Is(c, "rebind")
    /\ incumbent' = IF incumbent.task = c THEN Record(c, task[c].ref.conn) ELSE incumbent
    /\ task' = [task EXCEPT ![c].pc = "remark", ![c].sock = task[c].ref.conn]
    /\ UNCHANGED <<registryVars, desktopVars, admitted, displaced, link, channelVars, globalVars>>

Rebind(c) ==
    /\ Is(c, "rebind")
    /\ ReplaceConnection(c, task[c].ref.conn)
    /\ task' = [task EXCEPT ![c].pc = "remark", ![c].sock = task[c].ref.conn]
    /\ UNCHANGED <<registryVars, desktopVars, admitted, link, channelVars, globalVars>>

\* Mutant: the resumed owner forgets the registry.
MarkAttachedForgets(c) ==
    /\ Is(c, "remark")
    /\ GotoMoved(c, "attached", "ResumeAccepted", now)
    /\ UNCHANGED <<registryVars, desktopVars, admitted, peerVars, channelVars, globalVars>>

\* mark_attached, then ResumeAccepted; what the machine answers is not looked at.
MarkAttached(c) ==
    /\ Is(c, "remark")
    /\ Registry!MarkAttached(Session(c))
    /\ \/ Registry!MayMark(Session(c)) /\ GotoMoved(c, "attached", "ResumeAccepted", now)
       \/ ~Registry!MayMark(Session(c)) /\ Goto(c, "drain")
    /\ UNCHANGED <<desktopVars, admitted, peerVars, channelVars, globalVars>>

-----------------------------------------------------------------------------
(* Handing the desktop over to a successor of the same user. *)

RecordSuperseded(c) ==
    /\ Is(c, "retire")
    /\ Registry!RecordSuperseded(Session(c))
    /\ Goto(c, "retired")
    /\ UNCHANGED <<desktopVars, admitted, peerVars, channelVars, globalVars>>

DrainForSuccessor(c) ==
    /\ Is(c, "retired")
    /\ Registry!BeginDrain(Session(c))
    /\ Goto(c, "restore")
    /\ UNCHANGED <<desktopVars, admitted, peerVars, channelVars, globalVars>>

RestoreForSuccessor(c) == RestoreDisplay(c, "restore", "release")

\* Mutant: the hand-over leaves the entry behind.
ReleaseSlotKeepsEntry(c) ==
    /\ Is(c, "release")
    /\ Goto(c, "depart")
    /\ UNCHANGED <<registryVars, desktopVars, admitted, peerVars, channelVars, globalVars>>

ReleaseSlot(c) ==
    /\ Is(c, "release")
    /\ Registry!CompleteDrain(Session(c))
    /\ Goto(c, "depart")
    /\ UNCHANGED <<desktopVars, admitted, peerVars, channelVars, globalVars>>

\* The lease disconnects, the claimant is answered and the task returns.
HandOver(c) ==
    /\ Is(c, "depart")
    /\ LeaveAs(c, "done")
    /\ answer' = [d \in Conns |-> IF d = task[c].ref.task THEN "handed" ELSE Dropped(c)[d]]
    /\ UNCHANGED registryVars

-----------------------------------------------------------------------------
(* Terminating the desktop: the tail of run_resumable_session. *)

DrainSlot(c) ==
    /\ Is(c, "drain")
    /\ Registry!BeginDrain(Session(c))
    /\ Goto(c, "keep")
    /\ UNCHANGED <<desktopVars, admitted, peerVars, channelVars, globalVars>>

\* A display that is still with the task moves to the desktop's cleanup.
KeepDisplay(c) ==
    /\ Is(c, "keep")
    /\ IF slot = c THEN HoldDisplay(c) ELSE UNCHANGED slot
    /\ Goto(c, "terminate")
    /\ UNCHANGED <<registryVars, desktop, cleanup, created, admitted, peerVars, channelVars, globalVars>>

Terminate(c) ==
    /\ Is(c, "terminate")
    /\ StartTermination(c)
    /\ task' = [task EXCEPT ![c].pc = "finish", ![c].lease = "none"]
    /\ UNCHANGED <<registryVars, admitted, peerVars, channelVars, globalVars>>

\* Mutant: only a task that was issued a grant returns after the cleanup.
FinishEntry(c) ==
    /\ Is(c, "finish") /\ cleanup = "none" /\ task[c].owns = "slot"
    /\ Registry!CompleteDrain(Session(c))
    /\ Return(c)

\* After the cleanup the entry is removed (if the task had one) and it returns.
Finish(c) ==
    /\ Is(c, "finish") /\ cleanup = "none"
    /\ IF task[c].owns = "slot" THEN Registry!CompleteDrain(Session(c)) ELSE UNCHANGED registryVars
    /\ Return(c)
=============================================================================
