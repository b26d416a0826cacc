--------------------------- MODULE DeckReconnect ---------------------------
(***************************************************************************)
(* The Deck's side of auto-reconnect: the reconnect controller               *)
(* (clients/macos/src/reconnect.rs), the user-interface thread that drives it *)
(* frame by frame (ui/app.rs), and the session task of the current           *)
(* connection (transport/websocket.rs), which runs concurrently and reaches   *)
(* the controller only through the shared media state.                       *)
(*                                                                         *)
(* The host is arbitrary: it accepts, refuses, refreshes, closes and vanishes *)
(* as it likes.  A task the application has dropped is told to close and is   *)
(* never read again, so only the current one is kept.  A grant is the serial  *)
(* number in which the host sent it; 0 stands for none.                      *)
(***************************************************************************)
EXTENDS Integers

CONSTANTS HostWindows,         \* reconnect windows a host may send, 0 for none
          MaxReconnectWindow,  \* the longest window the Deck accepts
          FirstBackoff, MaxBackoff,
          MaxConnections, MaxGrants, MaxClock,  \* bound the model
          NoController

NoTime == -1

VARIABLES clock,        \* the Deck's monotonic clock
          turn,         \* which part of a frame the user-interface thread runs next
          controller,   \* Option<ReconnectController>
          task,         \* the session task: where it is, its deadline, why it ended and when
          offer,        \* SharedMediaState.pending_authentication
          received,     \* the newest grant the current session's task has published
          connections, sent   \* connections started, grants sent (bound the model)

deckVars == <<clock, turn, controller, task, offer, received, connections, sent>>

-----------------------------------------------------------------------------
(* The controller.  An operation that fails is always followed by            *)
(* return_to_credentials or disconnect, which discard it: NoController.      *)

ControllerNew == [phase |-> "Connected", grant |-> 0, window |-> 0, detachedAt |-> NoTime,
                  deadline |-> NoTime, retry |-> NoTime, next |-> 1]

ValidWindow(w) == w > 0 /\ w <= MaxReconnectWindow

Accepted(g, w) == [ControllerNew EXCEPT !.grant = g, !.window = w]

AcceptInitial(g, w) ==
    IF ValidWindow(w) THEN Accepted(g, w) ELSE IF w = 0 THEN ControllerNew ELSE NoController

\* Mutant: neither the frame nor a late answer is compared with the deadline.
ControllerExpiredNever(c, t) == FALSE

ControllerExpired(c, t) == c.phase \in {"Reconnecting", "Resuming"} /\ t >= c.deadline

AcceptResume(c, g, w, t) ==
    IF ~ControllerExpired(c, t) /\ ValidWindow(w) /\ c.grant # 0 THEN Accepted(g, w) ELSE NoController

AcceptRefresh(c, g, w) ==
    IF c.phase = "Connected" /\ ValidWindow(w) /\ c.grant # 0
    THEN [c EXCEPT !.grant = g, !.window = w, !.deadline = NoTime, !.next = 1]
    ELSE NoController

BackoffBase(attempt) ==
    IF FirstBackoff * 2^(attempt - 1) < MaxBackoff THEN FirstBackoff * 2^(attempt - 1) ELSE MaxBackoff

Delays(c) == BackoffBase(c.next) \div 2 .. BackoffBase(c.next)

\* Mutant: every failed attempt starts a new window.
DeadlineAtMoves(c, t) == t + c.window

\* The deadline is fixed by the first loss and kept by every failed attempt.
DeadlineAt(c, t) == IF c.deadline = NoTime THEN t + c.window ELSE c.deadline

Schedule(c, t, delay) ==
    LET deadline == DeadlineAt(c, t) IN
    IF c.grant = 0 \/ t >= deadline \/ t + delay >= deadline THEN NoController
    ELSE [c EXCEPT !.phase = "Reconnecting", !.deadline = deadline, !.retry = t + delay,
                   !.next = @ + 1, !.detachedAt = IF @ = NoTime THEN t ELSE @]

-----------------------------------------------------------------------------
(* The session task. *)

NoTask == [pc |-> "none", kind |-> "Initial", deadline |-> NoTime, end |-> "none", at |-> NoTime]

Task(kind, deadline) == [NoTask EXCEPT !.pc = "connecting", !.kind = kind, !.deadline = deadline]
Live == task.pc \in {"connecting", "offered", "streaming"}
NoOffer == [kind |-> "none", grant |-> 0, window |-> 0]
Transient == {"lost", "deadline"}

End(cause) ==
    /\ task' = [task EXCEPT !.pc = "ended", !.end = cause, !.at = clock]
    /\ UNCHANGED <<clock, turn, controller, offer, received, connections, sent>>

\* A successful auth_result is published and waits for the application to accept
\* it; a resume must carry a successor grant, a refresh a window in range.
Publish(kind, w, pc) ==
    /\ sent < MaxGrants
    /\ sent' = sent + 1
    /\ offer' = [kind |-> kind, grant |-> IF w = 0 THEN 0 ELSE sent + 1, window |-> w]
    /\ received' = IF w = 0 THEN 0 ELSE sent + 1
    /\ task' = [task EXCEPT !.pc = pc]
    /\ UNCHANGED <<clock, turn, controller, connections>>

Authenticate ==
    /\ task.pc = "connecting"
    /\ \E w \in HostWindows : (task.kind = "Initial" \/ w > 0) /\ Publish(task.kind, w, "offered")

\* The refresh of an attached session, on the ordered control lane.
Refresh ==
    /\ task.pc = "streaming"
    /\ \E w \in HostWindows : w > 0 /\ w <= MaxReconnectWindow /\ Publish("Refresh", w, "streaming")

\* Losses are only modelled while the longest window still fits under MaxClock.
WindowFits == clock + MaxReconnectWindow <= MaxClock

\* EOF, reset, unreachable, or a setup step or the stream stalls.
Lose == Live /\ WindowFits /\ End("lost")

\* A refusal, a host close, a protocol violation or an identity change.
Refuse == Live /\ End("terminal")

\* The deadline of the resume attempt is polled by the session loop, and there
\* only, for as long as the session streams.
ReachDeadline ==
    /\ task.pc = "streaming" /\ task.deadline # NoTime /\ clock >= task.deadline
    /\ WindowFits /\ End("deadline")

-----------------------------------------------------------------------------
(* One frame: sync_media_state, then drive_reconnect. *)

ReturnToCredentials ==
    /\ controller' = NoController /\ task' = NoTask /\ offer' = NoOffer /\ received' = 0

\* handle_authentication; the acceptance of an ended task cannot be sent.
Answer ==
    IF offer.kind = "Refresh" THEN AcceptRefresh(controller, offer.grant, offer.window)
    ELSE IF task.pc = "ended" THEN NoController
    ELSE IF offer.kind = "Initial" THEN AcceptInitial(offer.grant, offer.window)
    ELSE AcceptResume(controller, offer.grant, offer.window, clock)

\* Mutant: the end of the session is handled before its last message.
AnsweredLate == IF offer.kind = "none" \/ task.pc = "ended" THEN controller ELSE Answer

Answered == IF offer.kind = "none" THEN controller ELSE Answer

\* handle_connection_closed: a transient end schedules a retry at the time the
\* task observed it, every other end discards the controller.
Closed(c) ==
    \/ task.end \in Transient /\ ReturnToCredentials   \* no randomness for the jitter
    \/ /\ task.end \in Transient
       /\ \E delay \in Delays(c) :
             LET scheduled == Schedule(c, task.at, delay) IN
             \/ scheduled = NoController /\ ReturnToCredentials
             \/ /\ scheduled # NoController
                /\ controller' = scheduled
                /\ task' = NoTask /\ offer' = NoOffer /\ UNCHANGED received
    \/ task.end \notin Transient /\ ReturnToCredentials

SyncMediaState ==
    /\ turn = "sync" /\ turn' = "drive"
    /\ \/ controller = NoController /\ UNCHANGED <<controller, task, offer, received>>
       \/ /\ controller # NoController
          /\ LET answered == Answered IN
             \/ answered = NoController /\ ReturnToCredentials
             \/ answered # NoController /\ task.pc = "ended" /\ Closed(answered)
             \/ /\ answered # NoController /\ task.pc # "ended"
                /\ controller' = answered /\ offer' = NoOffer
                /\ task' = [task EXCEPT !.pc = IF @ = "offered" THEN "streaming" ELSE @]
                /\ UNCHANGED received
    /\ UNCHANGED <<clock, connections, sent>>

Due(c) == c.phase = "Reconnecting" /\ clock >= c.retry

\* The live identity may have drifted; that is only looked at when reconnecting.
DriveReconnect ==
    /\ turn = "drive" /\ turn' = "sync"
    /\ \/ controller # NoController /\ ControllerExpired(controller, clock) /\ ReturnToCredentials
       \/ /\ controller # NoController /\ ~ControllerExpired(controller, clock)
          /\ controller.phase = "Reconnecting"   \* connection_identity has changed
          /\ ReturnToCredentials
       \/ /\ controller # NoController /\ ~ControllerExpired(controller, clock) /\ Due(controller)
          /\ controller' = [controller EXCEPT !.phase = "Resuming"]
          /\ task' = Task("Resume", controller.deadline)
          /\ offer' = NoOffer /\ UNCHANGED received
       \/ /\ controller # NoController => ~ControllerExpired(controller, clock) /\ ~Due(controller)
          /\ UNCHANGED <<controller, task, offer, received>>
    /\ UNCHANGED <<clock, connections, sent>>

\* The user connects (configure_reconnect, launch_session) or disconnects.
Connect ==
    /\ controller = NoController /\ connections < MaxConnections
    /\ connections' = connections + 1
    /\ controller' = ControllerNew /\ task' = Task("Initial", NoTime) /\ offer' = NoOffer /\ received' = 0
    /\ UNCHANGED <<clock, turn, sent>>

Disconnect ==
    /\ controller # NoController
    /\ ReturnToCredentials
    /\ UNCHANGED <<clock, turn, connections, sent>>

ClockTicks ==
    /\ clock < MaxClock
    /\ clock' = clock + 1
    /\ UNCHANGED <<turn, controller, task, offer, received, connections, sent>>

DeckInit ==
    /\ clock = 0 /\ turn = "sync" /\ connections = 0 /\ sent = 0
    /\ controller = NoController /\ task = NoTask /\ offer = NoOffer /\ received = 0

DeckNext == Authenticate \/ Refresh \/ Lose \/ Refuse \/ ReachDeadline
            \/ SyncMediaState \/ DriveReconnect \/ Connect \/ Disconnect \/ ClockTicks

DeckSpec == DeckInit /\ [][DeckNext]_deckVars

-----------------------------------------------------------------------------
(* Properties. *)

Detached == controller # NoController /\ controller.phase \in {"Reconnecting", "Resuming"}

\* What a step may do to a deadline: set it with the detachment, keep it, or
\* leave it before it is reached.
DeadlineBinds ==
    /\ Detached' => controller'.deadline =
          IF Detached THEN controller.deadline ELSE task.at + controller'.window
    /\ Detached /\ controller' # NoController /\ controller'.phase = "Connected"
          => clock < controller.deadline

\* A detachment has one deadline, W after the loss as its task observed it: no
\* failed attempt, late frame or refresh of the window moves it, and an answer
\* that the application reads at or after it is discarded, however early the
\* host sent it.
DeadlineHolds == [][DeadlineBinds]_deckVars

\* The Deck retries with the newest grant its session received, also when that
\* grant and the loss of the session are found in the same frame: the host
\* takes an older one for a replay and ends the session.
RetriesWithNewestGrant ==
    controller # NoController /\ controller.phase = "Reconnecting" => controller.grant = received

\* A detached Deck does not stay detached: it resumes or asks for credentials.
DetachmentEnds == Detached ~> ~Detached

\* "Successful resume ... clears the completed detach deadline": a session whose
\* resume was accepted does not end because of that deadline.
ResumeClearsDeadline ==
    controller # NoController /\ controller.phase = "Connected" => task.end # "deadline"
=============================================================================
