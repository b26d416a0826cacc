----------------------------- MODULE FrameQueue -----------------------------
(***************************************************************************)
(* The outbound video queue of the Linux Pier: the shared policy             *)
(* (shared/media/src/video/frame_queue.rs) inside its adapter                *)
(* (hosts/linux/src/session/client.rs), between the frame pump, the writer   *)
(* and the session task that replaces the capture                            *)
(* (hosts/linux/src/net/server.rs).  A step is what happens under the        *)
(* queue's lock, or one call to the encoder.                                 *)
(*                                                                           *)
(* A frame is [kind, linked, epoch]: kind "P" is predicted from the previous *)
(* picture of its encoder, "I" is a keyframe, "R" a keyframe with its        *)
(* parameter sets; linked says whether the picture it is predicted from is   *)
(* the one before it in what the Deck receives.                              *)
(***************************************************************************)
EXTENDS Naturals, Sequences, FiniteSets

CONSTANTS Capacity, MaxEpochs, MaxTries, None

VARIABLES q,               \* SharedVideoQueue
          tip,             \* the encoder's last picture is the last queued or sent
          epoch, live,     \* the capture epoch, and whether its encoder runs
          started,         \* it has delivered a picture
          idr,             \* a keyframe request waits at the encoder
          pump,            \* the frame pump
          writer,          \* the writer's place in dequeue
          session,         \* the session task: [at, retries]
          doomed           \* what an aborted pump is still doing, or None

vars == <<q, tip, epoch, live, started, idr, pump, writer, session, doomed>>

Kinds == {"P", "I", "R"}
NoPump == [at |-> "off", au |-> "P", recovery |-> FALSE, first |-> FALSE,
           ready |-> FALSE, waited |-> FALSE]
\* A queued picture.
Frames == [kind : Kinds, linked : BOOLEAN, epoch : Nat]
Frame(kind) == [kind |-> kind, linked |-> tip, epoch |-> epoch]

ASSUME BoundsAssumption == Capacity \in Nat \ {0} /\ MaxTries \in Nat
ASSUME NoneAssumption == None \notin Frames

-----------------------------------------------------------------------------
(* SharedVideoQueue: what each operation makes of the queue. *)

EmptyQueue ==
    [deque |-> <<>>, pinned |-> None, chain |-> FALSE, require |-> FALSE,
     protected |-> FALSE, awaiting |-> FALSE, pending |-> FALSE, recent |-> FALSE,
     paused |-> FALSE, closed |-> FALSE]

HasRoom == Len(q.deque) < Capacity
Pinned == IF q.pinned = None THEN 0 ELSE 1
Append1(f) == [q EXCEPT !.deque = Append(@, f)]

\* Mutant: the queue is cleared and nobody waits for a keyframe.
LostQuietly == [q EXCEPT !.deque = <<>>, !.pending = TRUE]

\* An overflow discards the whole prediction chain.
Lost == [q EXCEPT !.deque = <<>>, !.awaiting = TRUE, !.pending = TRUE]

\* What follows the pinned picture is lost.
LostAfterPinned ==
    [Lost EXCEPT !.deque = <<Head(q.deque)>>, !.chain = TRUE, !.require = TRUE]

\* Behind the barrier the pinned picture has a place kept for it.
GenerationRoom == Len(q.deque) < Capacity - Pinned

\* A recovery picture ends the wait for one.
Recovered(f) ==
    [Append1(f) EXCEPT !.require = FALSE, !.awaiting = FALSE, !.pending = FALSE,
                       !.recent = FALSE, !.chain = q.paused]

\* push: the queue afterwards and what became of the frame.
PushOutcome(f, recovery) ==
    LET keyframe == f.kind # "P" IN
    IF q.closed THEN <<q, "closed">>
    ELSE IF q.chain /\ q.require
    THEN IF recovery /\ HasRoom THEN <<Recovered(f), "enqueued">>
         ELSE <<[q EXCEPT !.pending = TRUE], "dropped">>
    ELSE IF q.paused /\ q.chain
    THEN IF GenerationRoom THEN <<Append1(f), "enqueued">>
         ELSE <<[Lost EXCEPT !.require = TRUE], "dropped">>
    ELSE IF q.paused /\ q.pinned # None THEN <<q, "suppressed">>
    ELSE IF q.protected
    THEN IF HasRoom THEN <<Append1(f), "enqueued">>
         ELSE IF recovery
         THEN <<[q EXCEPT !.deque = <<Head(@), f>>, !.chain = TRUE, !.require = FALSE,
                          !.awaiting = FALSE, !.pending = FALSE, !.recent = FALSE], "enqueued">>
         ELSE <<LostAfterPinned, "dropped">>
    ELSE IF keyframe
    THEN <<[q EXCEPT !.deque = <<f>>, !.awaiting = FALSE, !.pending = FALSE, !.recent = FALSE], "enqueued">>
    ELSE IF q.awaiting THEN <<[q EXCEPT !.pending = TRUE], "dropped">>
    ELSE IF HasRoom THEN <<Append1(f), "enqueued">> ELSE <<Lost, "dropped">>

\* Mutant: a request is due while one was just made.
RequestDueInverted(queue) == queue.pending /\ queue.recent

\* keyframe_request_due_at: pending, and none handed over within the interval.
RequestDue(queue) == queue.pending /\ ~queue.recent

PinAccepted == ~q.closed /\ q.paused /\ q.pinned = None

\* pin_generation_recovery
PinnedBy(f) ==
    [q EXCEPT !.deque = <<>>, !.pinned = f, !.chain = TRUE, !.require = TRUE,
              !.awaiting = TRUE, !.pending = TRUE]

\* begin_generation
Barrier ==
    [q EXCEPT !.deque = <<>>, !.pinned = None, !.chain = FALSE, !.require = FALSE,
              !.protected = FALSE, !.awaiting = TRUE, !.recent = FALSE,
              !.paused = TRUE, !.pending = TRUE]

\* activate_generation
Activated ==
    [q EXCEPT !.deque = <<q.pinned>> \o @, !.pinned = None, !.paused = FALSE,
              !.protected = TRUE, !.chain = @ /\ q.require]

\* room_state
RoomState ==
    IF q.closed \/ q.paused \/ q.awaiting \/ q.chain \/ q.protected THEN "NotOrdinary"
    ELSE IF HasRoom THEN "HasRoom" ELSE "Full"

\* note_keyframe_request_handoff, abandon_keyframe_request
Noted(delivered) == [q EXCEPT !.pending = FALSE, !.recent = @ \/ delivered]

-----------------------------------------------------------------------------
(* The frame pump. *)

Doing(place) == pump' = [pump EXCEPT !.at = place]
RestOfPump == UNCHANGED <<epoch, writer, session, doomed>>

\* The next picture arrives; whether it is taken for a recovery point is
\* decided here, before the wait for room.
Receive(kind) ==
    /\ pump.at = "recv" /\ live
    /\ kind = "P" => started
    /\ LET recovery == kind = "R" /\ (pump.first \/ q.require) IN
       pump' = [pump EXCEPT !.au = kind, !.recovery = recovery,
                            !.at = IF recovery /\ pump.first THEN "pin"
                                   ELSE IF kind = "P" THEN "room" ELSE "push"]
    /\ started' = TRUE
    /\ idr' = (idr /\ kind = "P")
    /\ UNCHANGED <<q, tip, live>> /\ RestOfPump

\* wait_for_room: until there is room, or waiting for it is no use ...
Room == RoomState # "Full"

WaitForRoom ==
    /\ pump.at = "room" /\ Room
    /\ Doing("push")
    /\ UNCHANGED <<q, tip, live, started, idr>> /\ RestOfPump

\* ... and for at most ROOM_WAIT.
RoomWaitEnds ==
    /\ pump.at = "room" /\ ~Room
    /\ pump' = [pump EXCEPT !.at = "push", !.waited = TRUE]
    /\ UNCHANGED <<q, tip, live, started, idr>> /\ RestOfPump

\* enqueue_classified, under the lock.
Push ==
    /\ pump.at = "push"
    /\ LET outcome == PushOutcome(Frame(pump.au), pump.recovery) IN
       /\ q' = outcome[1]
       /\ tip' = (outcome[2] = "enqueued")
       /\ pump' = [pump EXCEPT !.waited = FALSE,
             !.at = IF outcome[2] = "dropped" /\ RequestDue(outcome[1]) THEN "request" ELSE "recv"]
    /\ UNCHANGED <<live, started, idr>> /\ RestOfPump

\* pin_generation_recovery, under the lock; the waiter is told.
Pin ==
    /\ pump.at = "pin"
    /\ IF PinAccepted
       THEN /\ q' = PinnedBy(Frame("R")) /\ tip' = TRUE
            /\ pump' = [pump EXCEPT !.at = "request", !.first = FALSE, !.ready = TRUE]
       ELSE Doing("recv") /\ UNCHANGED <<q, tip>>
    /\ UNCHANGED <<live, started, idr>> /\ RestOfPump

\* IdrRequester::request, outside the lock ...
PumpRequests ==
    /\ pump.at = "request"
    /\ idr' = (idr \/ live)
    /\ Doing(IF live THEN "delivered" ELSE "refused")
    /\ UNCHANGED <<q, tip, live, started>> /\ RestOfPump

\* ... and its outcome, under it.
PumpNotes ==
    /\ pump.at \in {"delivered", "refused"}
    /\ q' = Noted(pump.at = "delivered")
    /\ Doing("recv")
    /\ UNCHANGED <<tip, live, started, idr>> /\ RestOfPump

-----------------------------------------------------------------------------
(* The writer: dequeue. *)

RestOfWriter == UNCHANGED <<tip, epoch, live, started, pump, session, doomed>>

Pop ==
    /\ writer = "loop" /\ ~q.paused /\ q.deque # <<>>
    /\ q' = [q EXCEPT !.deque = Tail(@), !.protected = FALSE]
    /\ UNCHANGED <<writer, idr>> /\ RestOfWriter

Idle == q.paused \/ q.deque = <<>>

WriterRequests ==
    /\ writer = "loop" /\ Idle /\ ~q.closed /\ RequestDue(q)
    /\ idr' = (idr \/ live)
    /\ writer' = IF live THEN "delivered" ELSE "refused"
    /\ UNCHANGED q /\ RestOfWriter

WriterNotes ==
    /\ writer \in {"delivered", "refused"}
    /\ q' = Noted(writer = "delivered")
    /\ writer' = "loop"
    /\ UNCHANGED idr /\ RestOfWriter

WriterEnds ==
    /\ writer = "loop" /\ Idle /\ q.closed
    /\ writer' = "ended"
    /\ UNCHANGED <<q, idr>> /\ RestOfWriter

\* keyframe_request_min_interval passes.
IntervalPasses ==
    /\ q.recent
    /\ q' = [q EXCEPT !.recent = FALSE]
    /\ UNCHANGED <<idr, writer>> /\ RestOfWriter

-----------------------------------------------------------------------------
(* The session task. *)

Goes(place, retries) == session' = [at |-> place, retries |-> retries]
RestOfSession == UNCHANGED <<tip, idr, writer, started>>

\* A resize, or Speed below its floor: the barrier first, then the pump.
Resize ==
    /\ session.at = "run" /\ epoch < MaxEpochs
    /\ q' = Barrier /\ Goes("retire", 0)
    /\ UNCHANGED <<epoch, live, pump, doomed>> /\ RestOfSession

\* The pump is aborted where it awaits, and awaited; then the encoder stops.
Retire ==
    /\ session.at = "retire" /\ pump.at \in {"recv", "room", "off"}
    /\ pump' = NoPump /\ live' = FALSE /\ Goes("spawn", 0)
    /\ UNCHANGED <<q, epoch, doomed>> /\ RestOfSession

\* The capture ends by itself: its pump has run out of frames.
CaptureEnds ==
    /\ session.at = "run" /\ pump.at = "recv" /\ epoch < MaxEpochs
    /\ q' = Barrier /\ pump' = NoPump /\ live' = FALSE /\ Goes("spawn", MaxTries)
    /\ UNCHANGED <<epoch, doomed>> /\ RestOfSession

\* A replacement starts; its pump is to pin the first recovery point.  The stop
\* of the last encoder and CAPTURE_RETRY_DELAY outlast what an aborted pump does.
Spawn ==
    /\ session.at = "spawn" /\ epoch < MaxEpochs /\ doomed = None
    /\ epoch' = epoch + 1 /\ live' = TRUE /\ started' = FALSE /\ tip' = FALSE
    /\ pump' = [NoPump EXCEPT !.at = "recv", !.first = TRUE]
    /\ idr' = TRUE /\ Goes("wait", session.retries)
    /\ UNCHANGED <<q, writer, doomed>>

\* close, at the end of the attachment.
Ends ==
    /\ q' = [q EXCEPT !.closed = TRUE]
    /\ Goes("ended", 0)

Retries(left) == IF left > 0 THEN Goes("spawn", left - 1) /\ UNCHANGED q ELSE Ends

\* The replacement does not start, or has another geometry.
SpawnFails ==
    /\ session.at = "spawn" /\ Retries(session.retries)
    /\ UNCHANGED <<epoch, live, pump, doomed>> /\ RestOfSession

\* No keyframe within 10 s: the pump is aborted, not awaited, and finishes
\* what it is doing.
GiveUp ==
    /\ session.at = "wait" /\ ~pump.ready
    /\ doomed' = IF pump.at \in {"pin", "push"}
                 THEN [pin |-> pump.at = "pin", frame |-> Frame(pump.au)] ELSE None
    /\ pump' = NoPump /\ live' = FALSE
    /\ Retries(session.retries)
    /\ UNCHANGED epoch /\ RestOfSession

LateStep ==
    /\ doomed # None
    /\ \E delivered \in BOOLEAN :
          q' = IF doomed.pin THEN IF PinAccepted THEN [PinnedBy(doomed.frame) EXCEPT !.pending = FALSE,
                                                                             !.recent = @ \/ delivered]
                                  ELSE q
               ELSE PushOutcome(doomed.frame, FALSE)[1]
    /\ doomed' = None /\ tip' = FALSE
    /\ UNCHANGED <<epoch, live, pump, session, idr, writer, started>>

\* The keyframe is pinned: the session tells the Deck about the generation.
Announce ==
    /\ session.at = "wait" /\ pump.ready
    /\ Goes("activate", 0)
    /\ UNCHANGED <<q, epoch, live, pump, doomed>> /\ RestOfSession

Activate ==
    /\ session.at = "activate"
    /\ IF q.pinned # None THEN q' = Activated /\ Goes("run", 0) ELSE Ends
    /\ UNCHANGED <<epoch, live, pump, doomed>> /\ RestOfSession

End ==
    /\ session.at = "run" /\ Ends
    /\ UNCHANGED <<epoch, live, pump, doomed>> /\ RestOfSession

-----------------------------------------------------------------------------
Init ==
    /\ q = EmptyQueue /\ tip = FALSE
    /\ epoch = 0 /\ live = TRUE /\ started = FALSE /\ idr = FALSE
    /\ pump = [NoPump EXCEPT !.at = "recv"]
    /\ writer = "loop" /\ session = [at |-> "run", retries |-> 0] /\ doomed = None

PumpStep ==
    (\E kind \in Kinds : Receive(kind)) \/ WaitForRoom \/ RoomWaitEnds \/ Push \/ Pin \/ PumpRequests \/ PumpNotes
WriterStep == Pop \/ WriterRequests \/ WriterNotes \/ WriterEnds
SessionStep ==
    \/ Resize \/ Retire \/ CaptureEnds \/ Spawn \/ SpawnFails \/ GiveUp \/ LateStep
    \/ Announce \/ Activate \/ End

Next == PumpStep \/ WriterStep \/ IntervalPasses \/ SessionStep

Spec == Init /\ [][Next]_vars

-----------------------------------------------------------------------------
(* Properties. *)

\* push: whatever was dropped, cleared or replaced, no predicted picture is
\* left in line for the writer without the picture it is predicted from.
Decodable ==
    ~q.paused => \A n \in 1 .. Len(q.deque) : q.deque[n].kind = "P" => q.deque[n].linked

\* A stream that lost its chain gets a keyframe and flows again, whichever of
\* the pump and the writer asked for it and whenever the answer is noted.
Recovers ==
    session.at = "run" /\ q.awaiting ~> ~q.awaiting \/ session.at # "run"

=============================================================================
