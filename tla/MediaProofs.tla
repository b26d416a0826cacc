----------------------------- MODULE MediaProofs -----------------------------
(***************************************************************************)
(* Theorems about the media path, for every value of the constants.           *)
(*                                                                         *)
(* FrameQueue: no predicted picture is in line for the writer without the one  *)
(* it is predicted from.  CaptureChildren: an attachment whose task returned   *)
(* left no capture process behind.                                            *)
(***************************************************************************)
EXTENDS FrameQueue, CaptureChildren, TLAPS

-----------------------------------------------------------------------------
(* Types. *)

Queues == [deque : Seq(Frames), pinned : Frames \cup {None}, chain : BOOLEAN, require : BOOLEAN,
           protected : BOOLEAN, awaiting : BOOLEAN, pending : BOOLEAN, recent : BOOLEAN,
           paused : BOOLEAN, closed : BOOLEAN]
PumpPlaces == {"off", "recv", "room", "push", "pin", "request", "delivered", "refused"}
SessionPlaces == {"run", "retire", "spawn", "wait", "activate", "ended"}

TypeOK ==
    /\ q \in Queues
    /\ tip \in BOOLEAN /\ live \in BOOLEAN /\ started \in BOOLEAN /\ idr \in BOOLEAN
    /\ epoch \in Nat
    /\ pump \in [at : PumpPlaces, au : Kinds, recovery : BOOLEAN, first : BOOLEAN,
                 ready : BOOLEAN, waited : BOOLEAN]
    /\ writer \in {"loop", "delivered", "refused", "ended"}
    /\ session \in [at : SessionPlaces, retries : Nat]
    /\ doomed \in [pin : BOOLEAN, frame : Frames] \cup {None}

-----------------------------------------------------------------------------
(* The inductive invariant. *)

\* How the flags of the queue go together.
QueueRules(x) ==
    /\ x.require => x.chain
    /\ x.pinned # None => x.paused /\ x.chain /\ x.pinned.kind = "R"
    /\ x.paused /\ x.chain => x.pinned # None
    /\ x.protected => ~x.paused
    /\ (x.paused /\ x.chain) \/ x.protected => x.require \/ ~x.awaiting

\* A predicted picture would be taken.
Open(x) == ~x.closed /\ ~x.require /\ ~x.awaiting

Linked(f) == f.kind = "P" => f.linked

\* What the writer will get, now or once the generation is activated.
InLine(x) ==
    (~x.paused \/ x.pinned # None) => \A n \in 1 .. Len(x.deque) : Linked(x.deque[n])

\* Where the session is, against the barrier, the pump and an aborted pump.
Stages ==
    /\ session.at = "run" => ~q.paused /\ ~q.closed
    /\ session.at \in {"retire", "spawn", "wait", "activate"} => q.paused /\ ~q.closed
    /\ session.at = "ended" => q.closed
    /\ session.at = "retire" => q.pinned = None
    /\ session.at = "spawn" => pump.at = "off" /\ ~pump.ready
    /\ session.at = "wait" => pump.first \/ pump.ready
    /\ pump.first \/ pump.at = "pin" =>
         session.at = "wait" /\ pump.first /\ ~pump.ready
    /\ pump.at = "pin" => pump.au = "R"
    /\ pump.recovery => pump.au = "R"
    /\ pump.at \in {"room", "push"} /\ pump.first => ~pump.recovery
    /\ pump.at \in {"room", "push", "pin", "request", "delivered", "refused"} => started
    /\ doomed # None => session.at \in {"spawn", "ended"} /\ pump.at = "off"
    /\ doomed # None => (doomed.pin => doomed.frame.kind = "R")

\* Until the new pump has pinned its picture nothing goes in behind a pinned one.
PinHolds ==
    q.pinned # None /\ session.at \in {"spawn", "wait"} /\ ~pump.ready => q.require

\* The pump may be about to queue a predicted picture.
Predicts ==
    /\ started
    /\ \/ pump.at \in {"recv", "room", "request", "delivered", "refused"}
       \/ pump.at = "push" /\ pump.au = "P"

\* Then the picture before it was queued, unless the queue will not take it.
Continues == Open(q) /\ Predicts => tip

IInv == TypeOK /\ QueueRules(q) /\ InLine(q) /\ Stages /\ PinHolds /\ Continues

-----------------------------------------------------------------------------
(* What each operation of the queue makes of it. *)

\* The fields the invariant is about.
Shows(x, deque, pinned, chain, require, protected, awaiting, paused, closed) ==
    /\ x \in Queues
    /\ x.deque = deque /\ x.pinned = pinned /\ x.chain = chain /\ x.require = require
    /\ x.protected = protected /\ x.awaiting = awaiting /\ x.paused = paused /\ x.closed = closed

\* Append1 only appends.
LEMMA AppendShows ==
    ASSUME q \in Queues, NEW f \in Frames
    PROVE  Shows(Append1(f), Append(q.deque, f), q.pinned, q.chain, q.require, q.protected,
                 q.awaiting, q.paused, q.closed)
<1>1. Append(q.deque, f) \in Seq(Frames)
  BY DEF Queues
<1> QED
  BY Zenon, <1>1 DEF Append1, Queues, Shows

\* Overflow: the queue is cleared and a keyframe awaited.
LEMMA LostShows ==
    ASSUME q \in Queues
    PROVE  Shows(Lost, <<>>, q.pinned, q.chain, q.require, q.protected, TRUE, q.paused, q.closed)
<1>1. ASSUME NEW s \in Seq(Frames), s = <<>>
      PROVE  Shows([q EXCEPT !.deque = s, !.awaiting = TRUE, !.pending = TRUE],
                   <<>>, q.pinned, q.chain, q.require, q.protected, TRUE, q.paused, q.closed)
  BY Zenon, <1>1 DEF Queues, Shows
<1>2. <<>> \in Seq(Frames)
  OBVIOUS
<1> QED
  BY Zenon, <1>1, <1>2 DEF Lost

\* Behind the barrier the chain after the pinned picture is lost as well.
LEMMA LostChainShows ==
    ASSUME q \in Queues
    PROVE  Shows([Lost EXCEPT !.require = TRUE],
                 <<>>, q.pinned, q.chain, TRUE, q.protected, TRUE, q.paused, q.closed)
  BY Zenon, LostShows DEF Shows, Queues

\* Only the picture at the head is kept.
LEMMA LostAfterPinnedShows ==
    ASSUME q \in Queues, Len(q.deque) > 0
    PROVE  Shows(LostAfterPinned, <<Head(q.deque)>>, q.pinned, TRUE, TRUE, q.protected, TRUE,
                 q.paused, q.closed)
<1>1. <<Head(q.deque)>> \in Seq(Frames)
  BY DEF Queues
<1>2. ASSUME NEW s \in Seq(Frames)
      PROVE  Shows([Lost EXCEPT !.deque = s, !.chain = TRUE, !.require = TRUE],
                   s, q.pinned, TRUE, TRUE, q.protected, TRUE, q.paused, q.closed)
  BY Zenon, LostShows, <1>2 DEF Shows, Queues
<1> QED
  BY Zenon, <1>1, <1>2 DEF LostAfterPinned

\* A recovery picture ends the wait.
LEMMA RecoveredShows ==
    ASSUME q \in Queues, NEW f \in Frames
    PROVE  Shows(Recovered(f), Append(q.deque, f), q.pinned, q.paused, FALSE, q.protected, FALSE,
                 q.paused, q.closed)
<1>1. q.paused \in BOOLEAN
  BY Zenon DEF Queues
<1> QED
  BY Zenon, AppendShows, <1>1 DEF Recovered, Shows, Queues

\* push onto a full protected queue: the head and the recovery picture.
LEMMA ReplacedShows ==
    ASSUME q \in Queues, NEW f \in Frames, Len(q.deque) > 0
    PROVE  Shows([q EXCEPT !.deque = <<Head(@), f>>, !.chain = TRUE, !.require = FALSE,
                           !.awaiting = FALSE, !.pending = FALSE, !.recent = FALSE],
                 <<Head(q.deque), f>>, q.pinned, TRUE, FALSE, q.protected, FALSE, q.paused, q.closed)
<1>1. <<Head(q.deque), f>> \in Seq(Frames)
  BY DEF Queues
<1>2. ASSUME NEW s \in Seq(Frames)
      PROVE  Shows([q EXCEPT !.deque = s, !.chain = TRUE, !.require = FALSE,
                             !.awaiting = FALSE, !.pending = FALSE, !.recent = FALSE],
                   s, q.pinned, TRUE, FALSE, q.protected, FALSE, q.paused, q.closed)
  BY Zenon, <1>2 DEF Shows, Queues
<1> QED
  BY Zenon, <1>1, <1>2

\* push of a keyframe in ordinary operation: it replaces the queue.
LEMMA KeyframeShows ==
    ASSUME q \in Queues, NEW f \in Frames
    PROVE  Shows([q EXCEPT !.deque = <<f>>, !.awaiting = FALSE, !.pending = FALSE, !.recent = FALSE],
                 <<f>>, q.pinned, q.chain, q.require, q.protected, FALSE, q.paused, q.closed)
<1>1. <<f>> \in Seq(Frames)
  OBVIOUS
<1>2. ASSUME NEW s \in Seq(Frames)
      PROVE  Shows([q EXCEPT !.deque = s, !.awaiting = FALSE, !.pending = FALSE, !.recent = FALSE],
                   s, q.pinned, q.chain, q.require, q.protected, FALSE, q.paused, q.closed)
  BY Zenon, <1>2 DEF Shows, Queues
<1> QED
  BY Zenon, <1>1, <1>2

\* A request is noted or becomes due: nothing the invariant is about.
LEMMA RequestShows ==
    ASSUME q \in Queues, NEW b \in BOOLEAN
    PROVE  /\ Shows([q EXCEPT !.pending = TRUE], q.deque, q.pinned, q.chain, q.require, q.protected,
                    q.awaiting, q.paused, q.closed)
           /\ Shows([q EXCEPT !.recent = FALSE], q.deque, q.pinned, q.chain, q.require, q.protected,
                    q.awaiting, q.paused, q.closed)
           /\ Shows(Noted(b), q.deque, q.pinned, q.chain, q.require, q.protected, q.awaiting,
                    q.paused, q.closed)
  BY Zenon DEF Shows, Queues, Noted

\* pin_generation_recovery, also by an aborted pump that notes its request.
LEMMA PinnedShows ==
    ASSUME q \in Queues, NEW f \in Frames, NEW b \in BOOLEAN
    PROVE  /\ Shows(PinnedBy(f), <<>>, f, TRUE, TRUE, q.protected, TRUE, q.paused, q.closed)
           /\ Shows([PinnedBy(f) EXCEPT !.pending = FALSE, !.recent = @ \/ b],
                    <<>>, f, TRUE, TRUE, q.protected, TRUE, q.paused, q.closed)
<1>1. <<>> \in Seq(Frames)
  OBVIOUS
<1>2. ASSUME NEW s \in Seq(Frames)
      PROVE  Shows([q EXCEPT !.deque = s, !.pinned = f, !.chain = TRUE, !.require = TRUE,
                             !.awaiting = TRUE, !.pending = TRUE],
                   s, f, TRUE, TRUE, q.protected, TRUE, q.paused, q.closed)
  BY Zenon, <1>2 DEF Shows, Queues
<1>3. Shows(PinnedBy(f), <<>>, f, TRUE, TRUE, q.protected, TRUE, q.paused, q.closed)
  BY Zenon, <1>1, <1>2 DEF PinnedBy
<1> QED
  BY Zenon, <1>3 DEF Shows, Queues

\* begin_generation.
LEMMA BarrierShows ==
    ASSUME q \in Queues
    PROVE  Shows(Barrier, <<>>, None, FALSE, FALSE, FALSE, TRUE, TRUE, q.closed)
<1>1. <<>> \in Seq(Frames)
  OBVIOUS
<1>2. ASSUME NEW s \in Seq(Frames)
      PROVE  Shows([q EXCEPT !.deque = s, !.pinned = None, !.chain = FALSE, !.require = FALSE,
                             !.protected = FALSE, !.awaiting = TRUE, !.recent = FALSE,
                             !.paused = TRUE, !.pending = TRUE],
                   s, None, FALSE, FALSE, FALSE, TRUE, TRUE, q.closed)
  BY Zenon, <1>2 DEF Shows, Queues
<1> QED
  BY Zenon, <1>1, <1>2 DEF Barrier

\* activate_generation.
LEMMA ActivatedShows ==
    ASSUME q \in Queues, q.pinned # None
    PROVE  Shows(Activated, <<q.pinned>> \o q.deque, None, q.chain /\ q.require, q.require, TRUE,
                 q.awaiting, FALSE, q.closed)
<1>1. <<q.pinned>> \o q.deque \in Seq(Frames)
  BY DEF Queues
<1>2. ASSUME NEW s \in Seq(Frames)
      PROVE  Shows([q EXCEPT !.deque = s, !.pinned = None, !.paused = FALSE,
                             !.protected = TRUE, !.chain = @ /\ q.require],
                   s, None, q.chain /\ q.require, q.require, TRUE, q.awaiting, FALSE, q.closed)
  BY Zenon, <1>2 DEF Shows, Queues
<1> QED
  BY Zenon, <1>1, <1>2 DEF Activated

\* The writer takes the head.
LEMMA PopShows ==
    ASSUME q \in Queues, q.deque # <<>>
    PROVE  Shows([q EXCEPT !.deque = Tail(@), !.protected = FALSE],
                 Tail(q.deque), q.pinned, q.chain, q.require, FALSE, q.awaiting, q.paused, q.closed)
<1>1. Tail(q.deque) \in Seq(Frames)
  BY DEF Queues
<1>2. ASSUME NEW s \in Seq(Frames)
      PROVE  Shows([q EXCEPT !.deque = s, !.protected = FALSE],
                   s, q.pinned, q.chain, q.require, FALSE, q.awaiting, q.paused, q.closed)
  BY Zenon, <1>2 DEF Shows, Queues
<1> QED
  BY Zenon, <1>1, <1>2

\* close.
LEMMA ClosedShows ==
    ASSUME q \in Queues
    PROVE  Shows([q EXCEPT !.closed = TRUE], q.deque, q.pinned, q.chain, q.require, q.protected,
                 q.awaiting, q.paused, TRUE)
  BY Zenon DEF Shows, Queues

-----------------------------------------------------------------------------
(* push. *)

\* Appending a linked picture keeps a queue in line.
LEMMA AppendInLine ==
    ASSUME NEW s \in Seq(Frames), NEW f \in Frames, Linked(f),
           \A n \in 1 .. Len(s) : Linked(s[n])
    PROVE  \A n \in 1 .. Len(Append(s, f)) : Linked(Append(s, f)[n])
<1> SUFFICES ASSUME NEW n \in 1 .. Len(Append(s, f)) PROVE Linked(Append(s, f)[n])
  BY Zenon
<1>1. CASE n = Len(s) + 1
  BY <1>1
<1>2. CASE n \in 1 .. Len(s)
  BY <1>2
<1> QED
  BY <1>1, <1>2

\* push keeps the barrier, the pinned picture and the protection of the head; it
\* keeps the rules of the flags; what it drops closes the queue to predicted
\* pictures; and it never puts in line one whose predecessor was dropped.
LEMMA PushKeeps ==
    ASSUME q \in Queues, QueueRules(q), InLine(q),
           NEW f \in Frames, NEW recovery \in BOOLEAN,
           recovery => f.kind = "R",
           Open(q) /\ (~q.paused \/ q.pinned # None) => Linked(f)
    PROVE  /\ PushOutcome(f, recovery)[1] \in Queues
           /\ PushOutcome(f, recovery)[2] \in {"closed", "enqueued", "dropped", "suppressed"}
           /\ PushOutcome(f, recovery)[1].paused = q.paused
           /\ PushOutcome(f, recovery)[1].closed = q.closed
           /\ PushOutcome(f, recovery)[1].pinned = q.pinned
           /\ QueueRules(PushOutcome(f, recovery)[1])
           /\ InLine(PushOutcome(f, recovery)[1])
           /\ PushOutcome(f, recovery)[2] # "enqueued" => ~Open(PushOutcome(f, recovery)[1])
           /\ q.pinned # None /\ q.require /\ ~recovery => PushOutcome(f, recovery)[1].require
<1> DEFINE Good(x, v) ==
              /\ x \in Queues
              /\ v \in {"closed", "enqueued", "dropped", "suppressed"}
              /\ x.paused = q.paused /\ x.closed = q.closed /\ x.pinned = q.pinned
              /\ QueueRules(x) /\ InLine(x)
              /\ v # "enqueued" => ~Open(x)
              /\ q.pinned # None /\ q.require /\ ~recovery => x.require
<1>f. f.kind \in Kinds /\ Capacity \in Nat \ {0} /\ q.deque \in Seq(Frames) /\ Len(q.deque) \in Nat
  BY BoundsAssumption DEF Frames, Queues
<1>b. /\ q.closed \in BOOLEAN /\ q.chain \in BOOLEAN /\ q.require \in BOOLEAN
      /\ q.paused \in BOOLEAN /\ q.protected \in BOOLEAN /\ q.awaiting \in BOOLEAN
  BY Zenon DEF Queues
<1>1. ASSUME q.closed
      PROVE  Good(q, "closed")
  BY Zenon, <1>1, <1>b DEF Open
<1>2. ASSUME q.chain, q.require, recovery
      PROVE  Good(Recovered(f), "enqueued")
  <2>1. Linked(f)
    BY Zenon, <1>2 DEF Linked
  <2>2. InLine(Recovered(f))
    BY Zenon, <2>1, <1>f, AppendInLine, RecoveredShows DEF InLine, Shows
  <2>3. QueueRules(Recovered(f))
    BY Zenon, <1>2, <1>b, RecoveredShows DEF QueueRules, Shows
  <2> QED
    BY Zenon, <1>2, <2>2, <2>3, RecoveredShows DEF Shows
<1>3. ASSUME q.chain, q.require
      PROVE  Good([q EXCEPT !.pending = TRUE], "dropped")
  BY Zenon, <1>3, <1>b, RequestShows DEF Shows, QueueRules, InLine, Open
<1>4. ASSUME ~q.closed, ~(q.chain /\ q.require), q.paused, q.chain
      PROVE  Good(Append1(f), "enqueued") /\ Good([Lost EXCEPT !.require = TRUE], "dropped")
  <2>1. Linked(f)
    BY Zenon, <1>4, <1>b DEF QueueRules, Open
  <2>2. InLine(Append1(f))
    BY Zenon, <2>1, <1>f, AppendInLine, AppendShows DEF InLine, Shows
  <2>3. InLine([Lost EXCEPT !.require = TRUE])
    BY LostChainShows DEF InLine, Shows
  <2>4. Good(Append1(f), "enqueued")
    BY Zenon, <1>4, <2>2, <1>b, AppendShows DEF Shows, QueueRules
  <2>5. Good([Lost EXCEPT !.require = TRUE], "dropped")
    BY Zenon, <1>4, <2>3, <1>b, LostChainShows DEF Shows, QueueRules, Open
  <2> QED
    BY Zenon, <2>4, <2>5
<1>5. ASSUME ~q.closed, ~(q.chain /\ q.require), ~q.paused, q.protected
      PROVE  Good(Append1(f), "enqueued")
  <2>1. Linked(f)
    BY Zenon, <1>5, <1>b DEF QueueRules, Open
  <2>2. InLine(Append1(f))
    BY Zenon, <2>1, <1>f, AppendInLine, AppendShows DEF InLine, Shows
  <2> QED
    BY Zenon, <1>5, <2>2, <1>b, AppendShows DEF Shows, QueueRules
<1>6. ASSUME ~(q.chain /\ q.require), ~q.paused, q.protected, ~HasRoom
      PROVE  /\ recovery => Good([q EXCEPT !.deque = <<Head(@), f>>, !.chain = TRUE, !.require = FALSE,
                                   !.awaiting = FALSE, !.pending = FALSE, !.recent = FALSE], "enqueued")
             /\ Good(LostAfterPinned, "dropped")
  <2>1. Len(q.deque) > 0
    BY <1>6, <1>f DEF HasRoom
  <2>2. Linked(Head(q.deque)) /\ Head(q.deque) \in Frames
    BY <1>6, <2>1, <1>f DEF InLine
  <2>0. \A n \in 1 .. Len(<<Head(q.deque)>>) : Linked(<<Head(q.deque)>>[n])
    BY <2>2
  <2>3. InLine(LostAfterPinned)
    BY Zenon, <2>0, <2>1, LostAfterPinnedShows DEF InLine, Shows
  <2>4. Good(LostAfterPinned, "dropped")
    BY Zenon, <1>6, <2>1, <2>3, <1>b, LostAfterPinnedShows DEF Shows, QueueRules, Open
  <2>5. ASSUME recovery,
               NEW x, x = [q EXCEPT !.deque = <<Head(@), f>>, !.chain = TRUE, !.require = FALSE,
                                    !.awaiting = FALSE, !.pending = FALSE, !.recent = FALSE]
        PROVE  Good(x, "enqueued")
    <3>1. Shows(x, <<Head(q.deque), f>>, q.pinned, TRUE, FALSE, q.protected, FALSE, q.paused, q.closed)
      BY Zenon, <2>1, <2>5, ReplacedShows
    <3>2. Linked(f)
      BY Zenon, <2>5 DEF Linked
    <3>3. \A n \in 1 .. Len(<<Head(q.deque), f>>) : Linked(<<Head(q.deque), f>>[n])
      BY <2>2, <3>2
    <3>4. InLine(x)
      BY Zenon, <3>1, <3>3 DEF InLine, Shows
    <3> QED
      BY Zenon, <1>6, <2>5, <3>1, <3>4, <1>b DEF Shows, QueueRules
  <2> QED
    BY Zenon, <2>4, <2>5
<1>7. ASSUME ~(q.chain /\ q.require), ~(q.paused /\ q.chain), ~q.protected, f.kind # "P"
      PROVE  Good([q EXCEPT !.deque = <<f>>, !.awaiting = FALSE, !.pending = FALSE,
                            !.recent = FALSE], "enqueued")
  <2> SUFFICES ASSUME NEW x, x = [q EXCEPT !.deque = <<f>>, !.awaiting = FALSE, !.pending = FALSE,
                                           !.recent = FALSE]
               PROVE  Good(x, "enqueued")
    BY Zenon
  <2>1. Shows(x, <<f>>, q.pinned, q.chain, q.require, q.protected, FALSE, q.paused, q.closed)
    BY Zenon, KeyframeShows
  <2>2. InLine(x)
    BY <1>7, <2>1 DEF InLine, Shows, Linked
  <2> QED
    BY Zenon, <1>7, <2>1, <2>2, <1>b DEF Shows, QueueRules
<1>8. ASSUME ~(q.chain /\ q.require), q.awaiting
      PROVE  Good([q EXCEPT !.pending = TRUE], "dropped")
  BY Zenon, <1>8, <1>b, RequestShows DEF Shows, QueueRules, InLine, Open
<1>9. ASSUME ~q.closed, ~(q.chain /\ q.require), ~(q.paused /\ q.chain), ~q.protected, ~q.awaiting
      PROVE  Good(Append1(f), "enqueued") /\ Good(Lost, "dropped")
  <2>1. ~q.paused \/ q.pinned # None => Linked(f)
    BY Zenon, <1>9, <1>b DEF QueueRules, Open
  <2>2. InLine(Append1(f))
    BY Zenon, <2>1, <1>f, AppendInLine, AppendShows DEF InLine, Shows
  <2>3. InLine(Lost)
    BY LostShows DEF InLine, Shows
  <2>4. Good(Append1(f), "enqueued")
    BY Zenon, <1>9, <2>2, <1>b, AppendShows DEF Shows, QueueRules
  <2>5. Good(Lost, "dropped")
    BY Zenon, <1>9, <2>3, <1>b, LostShows DEF Shows, QueueRules, Open
  <2> QED
    BY Zenon, <2>4, <2>5
<1>10. q.paused /\ ~q.chain => q.pinned = None
  BY Zenon, <1>b DEF QueueRules
<1>11. q.protected => ~q.paused
  BY Zenon DEF QueueRules
<1>12. PICK o : o = PushOutcome(f, recovery)
  BY Zenon
<1> HIDE DEF Good
<1>13. Good(o[1], o[2])
  BY Zenon, <1>1, <1>2, <1>3, <1>4, <1>5, <1>6, <1>7, <1>8, <1>9, <1>10, <1>11, <1>12, <1>b DEF PushOutcome
<1> QED
  BY Zenon, <1>12, <1>13 DEF Good

-----------------------------------------------------------------------------
(* The steps. *)

\* Only what the invariant is not about changed in the queue.
SameQueue ==
    Shows(q', q.deque, q.pinned, q.chain, q.require, q.protected, q.awaiting, q.paused, q.closed)

\* The fields of the pump.
PumpShows(at, au, recovery, first, ready) ==
    /\ pump'.at = at /\ pump'.au = au /\ pump'.recovery = recovery
    /\ pump'.first = first /\ pump'.ready = ready

PumpType == pump' \in [at : PumpPlaces, au : Kinds, recovery : BOOLEAN, first : BOOLEAN,
                       ready : BOOLEAN, waited : BOOLEAN]
SessionType == session' \in [at : SessionPlaces, retries : Nat]
DoomedType == doomed' \in [pin : BOOLEAN, frame : Frames] \cup {None}

\* A queue that shows the same obeys the same.
LEMMA SameKeeps ==
    ASSUME IInv, SameQueue
    PROVE  q' \in Queues /\ QueueRules(q') /\ InLine(q') /\ Open(q') = Open(q)
  BY Zenon DEF IInv, SameQueue, Shows, QueueRules, InLine, Open

\* The parts of the invariant, for the next state.
LEMMA Together ==
    ASSUME q' \in Queues, tip' \in BOOLEAN, live' \in BOOLEAN, started' \in BOOLEAN,
           idr' \in BOOLEAN, epoch' \in Nat, PumpType,
           writer' \in {"loop", "delivered", "refused", "ended"}, SessionType, DoomedType,
           QueueRules(q'), InLine(q'), Stages', PinHolds', Continues'
    PROVE  IInv'
  BY Zenon DEF IInv, TypeOK, PumpType, SessionType, DoomedType, QueueRules, InLine

\* The first capture begins with an empty queue and no picture.
LEMMA InitOK ==
    ASSUME Init
    PROVE  IInv
<1>1. EmptyQueue \in Queues
  <2>1. <<>> \in Seq(Frames)
    OBVIOUS
  <2> QED
    BY Zenon, <2>1 DEF EmptyQueue, Queues
<1>2. TypeOK
  BY Zenon, <1>1 DEF Init, TypeOK, NoPump, PumpPlaces, SessionPlaces, Kinds
<1>3. QueueRules(q) /\ InLine(q)
  BY DEF Init, EmptyQueue, QueueRules, InLine
<1>4. Stages /\ PinHolds /\ Continues
  BY Zenon DEF Init, EmptyQueue, NoPump, Stages, PinHolds, Continues, Predicts
<1> QED
  BY Zenon, <1>2, <1>3, <1>4 DEF IInv

\* The next picture arrives.
LEMMA ReceiveOK ==
    ASSUME IInv, NEW kind \in Kinds, Receive(kind)
    PROVE  IInv'
<1> DEFINE recovery == kind = "R" /\ (pump.first \/ q.require)
           at == IF recovery /\ pump.first THEN "pin" ELSE IF kind = "P" THEN "room" ELSE "push"
<1>1. PumpType /\ PumpShows(at, kind, recovery, pump.first, pump.ready)
  BY Zenon DEF IInv, TypeOK, Receive, PumpType, PumpShows, PumpPlaces
<1>2. SameQueue
  BY Zenon DEF IInv, TypeOK, Receive, SameQueue, Shows
<1>3. /\ pump.at = "recv" /\ started' = TRUE /\ (kind = "P" => started)
      /\ UNCHANGED <<q, tip, live, epoch, writer, session, doomed>>
      /\ idr' \in BOOLEAN
  BY Zenon DEF IInv, TypeOK, Receive, RestOfPump
<1>4. kind \in {"P", "I", "R"}
  BY Zenon DEF Kinds
<1>5. Stages'
  BY Zenon, <1>1, <1>3, <1>4 DEF IInv, PumpShows, Stages
<1>6. PinHolds' /\ Continues'
  BY Zenon, <1>1, <1>3, <1>4 DEF IInv, PumpShows, PinHolds, Continues, Predicts, Open
<1> QED
  BY Zenon, <1>1, <1>2, <1>3, <1>5, <1>6, SameKeeps, Together DEF IInv, TypeOK, SessionType, DoomedType

\* The pump waits for room, asks for a keyframe and notes the answer.
LEMMA PumpGoesOnOK ==
    ASSUME IInv, WaitForRoom \/ RoomWaitEnds \/ PumpRequests \/ PumpNotes
    PROVE  IInv'
<1>1. SameQueue
  <2>1. CASE PumpNotes
    BY Zenon, <2>1, RequestShows DEF IInv, TypeOK, PumpNotes, SameQueue
  <2>2. CASE UNCHANGED q
    BY Zenon, <2>2 DEF IInv, TypeOK, SameQueue, Shows
  <2> QED
    BY Zenon, <2>1, <2>2 DEF WaitForRoom, RoomWaitEnds, PumpRequests
<1>2. /\ PumpType
      /\ PumpShows(pump'.at, pump.au, pump.recovery, pump.first, pump.ready)
      /\ \/ pump.at = "room" /\ pump'.at = "push"
         \/ /\ pump.at \in {"request", "delivered", "refused"}
            /\ pump'.at \in {"delivered", "refused", "recv"}
  BY ZenonT(60) DEF IInv, TypeOK, WaitForRoom, RoomWaitEnds, PumpRequests, PumpNotes, Doing, PumpType,
         PumpShows, PumpPlaces
<1>3. /\ UNCHANGED <<tip, live, started, epoch, writer, session, doomed>>
      /\ idr' \in BOOLEAN
  BY Zenon DEF IInv, TypeOK, WaitForRoom, RoomWaitEnds, PumpRequests, PumpNotes, RestOfPump
<1>4. Stages' /\ PinHolds'
  BY Zenon, <1>1, <1>2, <1>3 DEF IInv, PumpShows, SameQueue, Shows, Stages, PinHolds
<1>5. Continues'
  BY Zenon, <1>1, <1>2, <1>3 DEF IInv, PumpShows, SameQueue, Shows, Continues, Predicts, Open
<1> QED
  BY Zenon, <1>1, <1>2, <1>3, <1>4, <1>5, SameKeeps, Together DEF IInv, TypeOK, SessionType, DoomedType

\* A picture of the pump is well-formed, and a predicted one continues the queue
\* if the queue would take it.
LEMMA PushedPicture ==
    ASSUME IInv, Push
    PROVE  /\ Frame(pump.au) \in Frames /\ Frame(pump.au).kind = pump.au
           /\ Open(q) => Linked(Frame(pump.au))
  BY Zenon DEF IInv, TypeOK, Push, Frame, Frames, Linked, Continues, Predicts, Stages

\* enqueue_classified.
LEMMA PushOK ==
    ASSUME IInv, Push
    PROVE  IInv'
<1>1. PICK o : o = PushOutcome(Frame(pump.au), pump.recovery)
  BY Zenon
<1>2. q' = o[1] /\ tip' = (o[2] = "enqueued")
  BY Zenon, <1>1 DEF Push
<1>3. pump.recovery \in BOOLEAN /\ (pump.recovery => Frame(pump.au).kind = "R")
  BY Zenon, PushedPicture DEF IInv, TypeOK, Stages
<1>4. /\ q' \in Queues /\ q'.paused = q.paused /\ q'.closed = q.closed /\ q'.pinned = q.pinned
      /\ QueueRules(q') /\ InLine(q')
      /\ o[2] # "enqueued" => ~Open(q')
      /\ q.pinned # None /\ q.require /\ ~pump.recovery => q'.require
  BY ZenonT(60), <1>1, <1>2, <1>3, PushedPicture, PushKeeps DEF IInv, TypeOK
<1>5. /\ PumpType
      /\ PumpShows(pump'.at, pump.au, pump.recovery, pump.first, pump.ready)
      /\ pump'.at \in {"request", "recv"}
  BY Zenon DEF IInv, TypeOK, Push, PumpType, PumpShows, PumpPlaces
<1>6. pump.at = "push" /\ UNCHANGED <<live, started, idr, epoch, writer, session, doomed>>
  BY Zenon DEF Push, RestOfPump
<1>7. Stages'
  BY Zenon, <1>4, <1>5, <1>6 DEF IInv, PumpShows, Stages
<1>8. PinHolds'
  <2> SUFFICES ASSUME q'.pinned # None, session'.at \in {"spawn", "wait"}, ~pump'.ready
               PROVE  q'.require
    BY Zenon DEF PinHolds
  <2>1. q.require
    BY Zenon, <1>4, <1>5, <1>6 DEF IInv, PumpShows, PinHolds
  <2>2. ~pump.recovery
    BY Zenon, <1>5, <1>6 DEF IInv, PumpShows, Stages
  <2> QED
    BY Zenon, <1>4, <2>1, <2>2
<1>9. Continues'
  BY Zenon, <1>2, <1>4, <1>6 DEF Continues, Open
<1> QED
  BY Zenon, <1>2, <1>4, <1>5, <1>6, <1>7, <1>8, <1>9, Together DEF IInv, TypeOK, SessionType, DoomedType

\* pin_generation_recovery.
LEMMA PinOK ==
    ASSUME IInv, Pin
    PROVE  IInv'
<1>1. /\ pump.at = "pin" /\ pump.first /\ ~pump.ready /\ session.at = "wait" /\ q.paused
      /\ ~q.closed /\ started
      /\ UNCHANGED <<live, started, idr, epoch, writer, session, doomed>>
  BY Zenon DEF IInv, Pin, Stages, RestOfPump
<1>2. CASE PinAccepted
  <2>1. Frame("R") \in Frames /\ Frame("R").kind = "R" /\ Frame("R") # None
    BY NoneAssumption DEF IInv, TypeOK, Frame, Frames, Kinds
  <2>2. Shows(q', <<>>, Frame("R"), TRUE, TRUE, q.protected, TRUE, q.paused, q.closed)
    BY ZenonT(60), <1>2, <2>1, PinnedShows DEF IInv, TypeOK, Pin
  <2>3. PumpType /\ PumpShows("request", pump.au, pump.recovery, FALSE, TRUE) /\ tip' = TRUE
    BY ZenonT(60), <1>2 DEF IInv, TypeOK, Pin, PumpType, PumpShows, PumpPlaces
  <2>4. QueueRules(q') /\ InLine(q')
    BY <1>1, <2>1, <2>2 DEF IInv, QueueRules, InLine, Shows
  <2>5. Stages' /\ PinHolds' /\ Continues'
    BY Zenon, <1>1, <2>2, <2>3 DEF IInv, Stages, PinHolds, Continues, PumpShows, Shows
  <2> QED
    BY Zenon, <1>1, <2>2, <2>3, <2>4, <2>5, Together DEF IInv, TypeOK, SessionType, DoomedType, Shows
<1>3. CASE ~PinAccepted
  <2>1. PumpType /\ PumpShows("recv", pump.au, pump.recovery, pump.first, pump.ready)
    BY Zenon, <1>3 DEF IInv, TypeOK, Pin, Doing, PumpType, PumpShows, PumpPlaces
  <2>2. q' = q /\ tip' = tip
    BY Zenon, <1>3 DEF Pin
  <2>3. SameQueue
    BY Zenon, <2>2 DEF IInv, TypeOK, SameQueue, Shows
  <2>4. q.require
    BY Zenon, <1>1, <1>3 DEF IInv, PinHolds, PinAccepted
  <2>5. Stages' /\ PinHolds' /\ Continues'
    BY Zenon, <1>1, <2>1, <2>2, <2>4 DEF IInv, Stages, PinHolds, Continues, PumpShows, Open
  <2> QED
    BY Zenon, <1>1, <2>1, <2>2, <2>3, <2>5, SameKeeps, Together
    DEF IInv, TypeOK, SessionType, DoomedType
<1> QED
  BY Zenon, <1>2, <1>3

\* The writer takes a picture.
LEMMA PopOK ==
    ASSUME IInv, Pop
    PROVE  IInv'
<1>1. ~q.paused /\ q.deque # <<>> /\ q \in Queues /\ q.deque \in Seq(Frames)
  BY Zenon DEF IInv, TypeOK, Queues, Pop
<1>2. Shows(q', Tail(q.deque), q.pinned, q.chain, q.require, FALSE, q.awaiting, q.paused, q.closed)
  BY Zenon, <1>1, PopShows DEF Pop
<1>3. UNCHANGED <<tip, epoch, live, started, pump, session, doomed, writer, idr>>
  BY Zenon DEF Pop, RestOfWriter
<1>4. InLine(q')
  <2>1. \A n \in 1 .. Len(q.deque) : Linked(q.deque[n])
    BY Zenon, <1>1 DEF IInv, InLine
  <2>2. \A n \in 1 .. Len(Tail(q.deque)) : Linked(Tail(q.deque)[n])
    BY <1>1, <2>1
  <2> QED
    BY Zenon, <1>2, <2>2 DEF InLine, Shows
<1>5. QueueRules(q')
  BY Zenon, <1>1, <1>2 DEF IInv, QueueRules, Shows
<1>6. Stages' /\ PinHolds' /\ Continues'
  BY Zenon, <1>2, <1>3 DEF IInv, Stages, PinHolds, Continues, Predicts, Open, Shows
<1> QED
  BY <1>2, <1>3, <1>4, <1>5, <1>6, Together
  DEF IInv, TypeOK, PumpType, SessionType, DoomedType, Shows

\* The writer asks for a keyframe, notes the answer and ends; the interval passes.
LEMMA WriterGoesOnOK ==
    ASSUME IInv, WriterRequests \/ WriterNotes \/ WriterEnds \/ IntervalPasses
    PROVE  IInv'
<1>1. SameQueue
  <2>1. CASE WriterNotes
    BY Zenon, <2>1, RequestShows DEF IInv, TypeOK, WriterNotes, SameQueue
  <2>2. CASE IntervalPasses
    BY Zenon, <2>2, RequestShows DEF IInv, TypeOK, IntervalPasses, SameQueue
  <2>3. CASE UNCHANGED q
    BY Zenon, <2>3 DEF IInv, TypeOK, SameQueue, Shows
  <2> QED
    BY Zenon, <2>1, <2>2, <2>3 DEF WriterRequests, WriterEnds
<1>2. /\ UNCHANGED <<tip, epoch, live, started, pump, session, doomed>>
      /\ idr' \in BOOLEAN /\ writer' \in {"loop", "delivered", "refused", "ended"}
  BY Zenon DEF IInv, TypeOK, WriterRequests, WriterNotes, WriterEnds, IntervalPasses, RestOfWriter
<1>3. Stages' /\ PinHolds' /\ Continues'
  BY Zenon, <1>1, <1>2 DEF IInv, SameQueue, Shows, Stages, PinHolds, Continues, Predicts, Open
<1> QED
  BY ZenonT(60), <1>1, <1>2, <1>3, SameKeeps, Together DEF IInv, TypeOK, PumpType, SessionType, DoomedType

\* A resize, or the end of the capture: the barrier.
LEMMA BarrierOK ==
    ASSUME IInv, Resize \/ CaptureEnds
    PROVE  IInv'
<1>1. Shows(q', <<>>, None, FALSE, FALSE, FALSE, TRUE, TRUE, q.closed)
  BY Zenon, BarrierShows DEF IInv, TypeOK, Resize, CaptureEnds
<1>2. /\ session.at = "run" /\ ~q.closed /\ doomed = None
      /\ UNCHANGED <<tip, idr, writer, started, epoch, doomed>>
  BY Zenon DEF IInv, Stages, Resize, CaptureEnds, RestOfSession
<1>3. /\ PumpType /\ SessionType /\ live' \in BOOLEAN
      /\ \/ session'.at = "retire" /\ pump' = pump
         \/ session'.at = "spawn" /\ PumpShows("off", "P", FALSE, FALSE, FALSE)
  <2>1. CASE Resize
    BY Zenon, <2>1 DEF IInv, TypeOK, Resize, Goes, PumpType, SessionType, SessionPlaces
  <2>2. CASE CaptureEnds
    BY Zenon, <2>2, BoundsAssumption DEF CaptureEnds, Goes, NoPump, PumpType, SessionType,
       PumpShows, PumpPlaces, SessionPlaces, Kinds
  <2> QED
    BY Zenon, <2>1, <2>2
<1>4. QueueRules(q') /\ InLine(q')
  BY Zenon, <1>1 DEF QueueRules, InLine, Shows
<1>5. Stages'
  BY Zenon, <1>1, <1>2, <1>3 DEF IInv, Stages, PumpShows, Shows
<1>6. PinHolds' /\ Continues'
  BY Zenon, <1>1 DEF PinHolds, Continues, Open, Shows
<1> QED
  BY Zenon, <1>1, <1>2, <1>3, <1>4, <1>5, <1>6, Together DEF IInv, TypeOK, DoomedType, Shows

\* The pump is aborted where it awaits.
LEMMA RetireOK ==
    ASSUME IInv, Retire
    PROVE  IInv'
<1>1. SameQueue
  BY Zenon DEF IInv, TypeOK, Retire, SameQueue, Shows
<1>2. /\ session.at = "retire" /\ doomed = None
      /\ UNCHANGED <<q, tip, idr, writer, started, epoch, doomed>>
  BY Zenon DEF IInv, Stages, Retire, RestOfSession
<1>3. /\ PumpType /\ SessionType /\ live' \in BOOLEAN
      /\ session'.at = "spawn" /\ PumpShows("off", "P", FALSE, FALSE, FALSE)
  BY Zenon DEF Retire, Goes, NoPump, PumpType, SessionType, PumpShows, PumpPlaces, SessionPlaces, Kinds
<1>4. Stages' /\ PinHolds' /\ Continues'
  BY Zenon, <1>2, <1>3 DEF IInv, Stages, PinHolds, Continues, Predicts, PumpShows
<1> QED
  BY Zenon, <1>1, <1>2, <1>3, <1>4, SameKeeps, Together DEF IInv, TypeOK, DoomedType

\* A replacement starts.
LEMMA SpawnOK ==
    ASSUME IInv, Spawn
    PROVE  IInv'
<1>1. SameQueue
  BY Zenon DEF IInv, TypeOK, Spawn, SameQueue, Shows
<1>2. /\ session.at = "spawn" /\ doomed = None /\ pump.at = "off" /\ ~pump.ready
      /\ started' = FALSE /\ tip' = FALSE /\ live' = TRUE /\ idr' = TRUE /\ epoch' \in Nat
      /\ UNCHANGED <<q, writer, doomed>>
  BY DEF IInv, TypeOK, Stages, Spawn
<1>3. /\ PumpType /\ SessionType
      /\ session'.at = "wait" /\ PumpShows("recv", "P", FALSE, TRUE, FALSE)
  BY Zenon DEF IInv, TypeOK, Spawn, Goes, NoPump, PumpType, SessionType, PumpShows, PumpPlaces,
         SessionPlaces, Kinds
<1>4. Stages' /\ PinHolds' /\ Continues'
  BY Zenon, <1>2, <1>3 DEF IInv, Stages, PinHolds, Continues, Predicts, PumpShows
<1> QED
  BY Zenon, <1>1, <1>2, <1>3, <1>4, SameKeeps, Together DEF IInv, TypeOK, DoomedType

\* A retry goes back to spawning; without one the queue is closed.
LEMMA RetriesShows ==
    ASSUME IInv, Retries(session.retries)
    PROVE  /\ SessionType
           /\ \/ session'.at = "spawn" /\ q' = q
              \/ session'.at = "ended" /\ q' = [q EXCEPT !.closed = TRUE]
  BY DEF IInv, TypeOK, Retries, Goes, Ends, SessionType, SessionPlaces

\* The queue, as it was or closed.
LEMMA EndsKeeps ==
    ASSUME IInv, \/ q' = q
                 \/ q' = [q EXCEPT !.closed = TRUE]
    PROVE  /\ Shows(q', q.deque, q.pinned, q.chain, q.require, q.protected, q.awaiting, q.paused,
                    q'.closed)
           /\ q' \in Queues /\ QueueRules(q') /\ InLine(q')
           /\ Open(q') => Open(q)
           /\ q' = q \/ q'.closed
<1>1. Shows(q', q.deque, q.pinned, q.chain, q.require, q.protected, q.awaiting, q.paused, q'.closed)
      /\ (q' = q \/ q'.closed)
  BY Zenon, ClosedShows DEF IInv, TypeOK, Shows
<1>2. q' \in Queues /\ QueueRules(q') /\ InLine(q')
  BY Zenon, <1>1 DEF IInv, QueueRules, InLine, Shows
<1>3. Open(q') => Open(q)
  BY Zenon, <1>1 DEF Open, Shows
<1> QED
  BY Zenon, <1>1, <1>2, <1>3

\* The replacement does not start.
LEMMA SpawnFailsOK ==
    ASSUME IInv, SpawnFails
    PROVE  IInv'
<1>1. /\ session.at = "spawn" /\ Retries(session.retries)
      /\ UNCHANGED <<tip, idr, writer, started, epoch, live, pump, doomed>>
  BY Zenon DEF SpawnFails, RestOfSession
<1>2. /\ SessionType
      /\ \/ session'.at = "spawn" /\ q' = q
         \/ session'.at = "ended" /\ q' = [q EXCEPT !.closed = TRUE]
  BY Zenon, <1>1, RetriesShows
<1>3. /\ Shows(q', q.deque, q.pinned, q.chain, q.require, q.protected, q.awaiting, q.paused, q'.closed)
      /\ session'.at = "ended" => q'.closed
  BY Zenon, <1>2, EndsKeeps, ClosedShows DEF IInv, TypeOK, Shows
<1>4. Stages' /\ PinHolds' /\ Continues'
  BY Zenon, <1>1, <1>2, <1>3 DEF IInv, Stages, PinHolds, Continues, Predicts, Shows
<1> QED
  BY <1>1, <1>2, <1>4, EndsKeeps, Together DEF IInv, TypeOK, PumpType, DoomedType

\* No keyframe in time: the pump is aborted, and may still push or pin.
LEMMA GiveUpOK ==
    ASSUME IInv, GiveUp
    PROVE  IInv'
<1>1. /\ session.at = "wait" /\ ~pump.ready /\ Retries(session.retries)
      /\ UNCHANGED <<tip, idr, writer, started, epoch>>
  BY Zenon DEF GiveUp, RestOfSession
<1>2. /\ SessionType
      /\ \/ session'.at = "spawn" /\ q' = q
         \/ session'.at = "ended" /\ q' = [q EXCEPT !.closed = TRUE]
  BY Zenon, <1>1, RetriesShows
<1>3. /\ Shows(q', q.deque, q.pinned, q.chain, q.require, q.protected, q.awaiting, q.paused, q'.closed)
      /\ session'.at = "ended" => q'.closed
  BY Zenon, <1>2, EndsKeeps, ClosedShows DEF IInv, TypeOK, Shows
<1>4. PumpType /\ PumpShows("off", "P", FALSE, FALSE, FALSE) /\ live' \in BOOLEAN
  BY Zenon DEF GiveUp, NoPump, PumpType, PumpShows, PumpPlaces, Kinds
<1>5. Frame(pump.au) \in Frames /\ Frame(pump.au).kind = pump.au
  BY Zenon DEF IInv, TypeOK, Frame, Frames
<1>6. DoomedType /\ (doomed' # None => (doomed'.pin => doomed'.frame.kind = "R"))
  BY Zenon, <1>5 DEF IInv, GiveUp, Stages, DoomedType
<1>7. Stages'
  BY Zenon, <1>1, <1>2, <1>3, <1>4, <1>6 DEF IInv, Stages, PumpShows, Shows
<1>8. PinHolds' /\ Continues'
  BY Zenon, <1>1, <1>2, <1>3, <1>4 DEF IInv, PinHolds, Continues, Predicts, PumpShows, Shows
<1> QED
  BY Zenon, <1>1, <1>2, <1>4, <1>6, <1>7, <1>8, EndsKeeps, Together DEF IInv, TypeOK

\* What the aborted pump was doing lands: behind the barrier, or on a closed queue.
LEMMA LateStepOK ==
    ASSUME IInv, LateStep
    PROVE  IInv'
<1>1. /\ doomed # None /\ doomed' = None /\ tip' = FALSE
      /\ session.at \in {"spawn", "ended"} /\ pump.at = "off"
      /\ UNCHANGED <<epoch, live, pump, session, idr, writer, started>>
  BY Zenon DEF IInv, Stages, LateStep
<1>2. doomed.frame \in Frames /\ (doomed.pin => doomed.frame.kind = "R") /\ doomed.frame # None
  BY Zenon, <1>1, NoneAssumption DEF IInv, TypeOK, Stages
<1>3. session.at = "spawn" => q.paused /\ ~q.closed /\ ~pump.ready
  BY Zenon DEF IInv, Stages
<1>4. session.at = "ended" => q.closed
  BY Zenon DEF IInv, Stages
<1>5. CASE doomed.pin /\ PinAccepted
  <2>1. PICK b \in BOOLEAN :
          q' = [PinnedBy(doomed.frame) EXCEPT !.pending = FALSE, !.recent = @ \/ b]
    BY Zenon, <1>5 DEF LateStep
  <2>2. Shows(q', <<>>, doomed.frame, TRUE, TRUE, q.protected, TRUE, q.paused, q.closed)
    BY Zenon, <1>2, <2>1, PinnedShows DEF IInv, TypeOK
  <2>3. QueueRules(q') /\ InLine(q')
    BY <1>2, <1>5, <2>2 DEF IInv, PinAccepted, QueueRules, InLine, Shows
  <2>4. Stages' /\ PinHolds' /\ Continues'
    BY Zenon, <1>1, <1>5, <2>2 DEF IInv, PinAccepted, Stages, PinHolds, Continues, Predicts, Shows
  <2> QED
    BY ZenonT(60), <1>1, <2>2, <2>3, <2>4, Together DEF IInv, TypeOK, PumpType, SessionType, DoomedType, Shows
<1>6. CASE doomed.pin /\ ~PinAccepted
  <2>1. q' = q
    BY Zenon, <1>6 DEF LateStep
  <2>2. SameQueue
    BY Zenon, <2>1 DEF IInv, TypeOK, SameQueue, Shows
  <2>3. Stages' /\ PinHolds' /\ Continues'
    BY Zenon, <1>1, <2>1 DEF IInv, Stages, PinHolds, Continues, Predicts
  <2> QED
    BY ZenonT(60), <1>1, <2>1, <2>2, <2>3, SameKeeps, Together DEF IInv, TypeOK, PumpType, SessionType, DoomedType
<1>7. CASE ~doomed.pin
  <2>1. PICK o : o = PushOutcome(doomed.frame, FALSE)
    BY Zenon
  <2>2. q' = o[1]
    BY Zenon, <1>7, <2>1 DEF LateStep
  <2>3. CASE session.at = "ended"
    <3>1. q' = q
      BY Zenon, <1>4, <2>1, <2>2, <2>3 DEF PushOutcome
    <3>2. SameQueue
      BY Zenon, <3>1 DEF IInv, TypeOK, SameQueue, Shows
    <3>3. Stages' /\ PinHolds' /\ Continues'
      BY Zenon, <1>1, <3>1 DEF IInv, Stages, PinHolds, Continues, Predicts
    <3> QED
      BY ZenonT(60), <1>1, <3>1, <3>2, <3>3, SameKeeps, Together
      DEF IInv, TypeOK, PumpType, SessionType, DoomedType
  <2>4. CASE session.at = "spawn"
    <3>1. /\ q' \in Queues /\ q'.paused = q.paused /\ q'.closed = q.closed /\ q'.pinned = q.pinned
          /\ QueueRules(q') /\ InLine(q')
          /\ q.pinned # None /\ q.require => q'.require
      BY Zenon, <1>2, <1>3, <2>1, <2>2, <2>4, PushKeeps DEF IInv, TypeOK, PinHolds, Open
    <3>2. Stages' /\ PinHolds' /\ Continues'
      BY Zenon, <1>1, <2>4, <3>1 DEF IInv, Stages, PinHolds, Continues, Predicts
    <3> QED
      BY ZenonT(60), <1>1, <3>1, <3>2, Together DEF IInv, TypeOK, PumpType, SessionType, DoomedType
  <2> QED
    BY Zenon, <1>1, <2>3, <2>4
<1> QED
  BY Zenon, <1>5, <1>6, <1>7

\* The attachment ends: close.
LEMMA EndOK ==
    ASSUME IInv, session.at \in {"run", "activate"}, SessionType, session'.at = "ended",
           q' = [q EXCEPT !.closed = TRUE],
           UNCHANGED <<tip, idr, writer, started, epoch, live, pump, doomed>>
    PROVE  IInv'
<1>1. Shows(q', q.deque, q.pinned, q.chain, q.require, q.protected, q.awaiting, q.paused, TRUE)
  BY Zenon, ClosedShows DEF IInv, TypeOK
<1>2. Stages' /\ PinHolds' /\ Continues'
  BY Zenon, <1>1 DEF IInv, Stages, PinHolds, Continues, Open, Shows
<1>3. q' \in Queues /\ QueueRules(q') /\ InLine(q')
  BY Zenon, EndsKeeps
<1>4. PumpType /\ DoomedType
  BY Zenon DEF IInv, TypeOK, PumpType, DoomedType
<1> QED
  BY Zenon, <1>2, <1>3, <1>4, Together DEF IInv, TypeOK

\* The session tells the Deck about the generation.
LEMMA AnnounceOK ==
    ASSUME IInv, Announce
    PROVE  IInv'
<1>1. SameQueue
  BY Zenon DEF IInv, TypeOK, Announce, SameQueue, Shows
<1>2. /\ session.at = "wait" /\ pump.ready
      /\ UNCHANGED <<q, tip, idr, writer, started, epoch, live, pump, doomed>>
  BY Zenon DEF Announce, RestOfSession
<1>3. SessionType /\ session'.at = "activate"
  BY Zenon DEF Announce, Goes, SessionType, SessionPlaces
<1>4. Stages' /\ PinHolds' /\ Continues'
  BY Zenon, <1>2, <1>3 DEF IInv, Stages, PinHolds, Continues, Predicts
<1> QED
  BY <1>1, <1>2, <1>3, <1>4, SameKeeps, Together DEF IInv, TypeOK, PumpType, DoomedType

\* activate_generation: the pinned picture goes before what was queued behind it.
LEMMA ActivateOK ==
    ASSUME IInv, Activate
    PROVE  IInv'
<1>1. /\ session.at = "activate" /\ q.paused /\ ~q.closed /\ doomed = None
      /\ UNCHANGED <<tip, idr, writer, started, epoch, live, pump, doomed>>
  BY Zenon DEF IInv, Stages, Activate, RestOfSession
<1>2. CASE q.pinned # None
  <2>1. SessionType /\ session'.at = "run" /\ q' = Activated
    BY <1>2 DEF Activate, Goes, SessionType, SessionPlaces
  <2>2. Shows(q', <<q.pinned>> \o q.deque, None, q.chain /\ q.require, q.require, TRUE, q.awaiting,
              FALSE, q.closed)
    BY Zenon, <1>2, <2>1, ActivatedShows DEF IInv, TypeOK
  <2>3. q.deque \in Seq(Frames) /\ q.pinned \in Frames /\ Linked(q.pinned)
    BY Zenon, <1>2 DEF IInv, TypeOK, Queues, QueueRules, Linked
  <2>4. \A n \in 1 .. Len(q.deque) : Linked(q.deque[n])
    BY Zenon, <1>2 DEF IInv, InLine
  <2>5. \A n \in 1 .. Len(<<q.pinned>> \o q.deque) : Linked((<<q.pinned>> \o q.deque)[n])
    <3> SUFFICES ASSUME NEW n \in 1 .. Len(<<q.pinned>> \o q.deque)
                 PROVE  Linked((<<q.pinned>> \o q.deque)[n])
      BY Zenon
    <3>1. CASE n = 1
      BY <2>3, <3>1
    <3>2. CASE n # 1
      <4>1. n - 1 \in 1 .. Len(q.deque) /\ (<<q.pinned>> \o q.deque)[n] = q.deque[n - 1]
        BY <2>3, <3>2
      <4> QED
        BY Zenon, <2>4, <4>1
    <3> QED
      BY Zenon, <3>1, <3>2
  <2>6. InLine(q')
    BY Zenon, <2>2, <2>5 DEF InLine, Shows
  <2>7. QueueRules(q')
    BY Zenon, <1>1, <1>2, <2>2 DEF IInv, QueueRules, Shows
  <2>8. Stages' /\ PinHolds' /\ Continues'
    BY Zenon, <1>1, <2>1, <2>2 DEF IInv, Stages, PinHolds, Continues, Predicts, Open, Shows
  <2> QED
    BY ZenonT(60), <1>1, <2>1, <2>2, <2>6, <2>7, <2>8, Together DEF IInv, TypeOK, PumpType, DoomedType, Shows
<1>3. CASE q.pinned = None
  <2>1. SessionType /\ session'.at = "ended" /\ q' = [q EXCEPT !.closed = TRUE]
    BY <1>3 DEF Activate, Ends, Goes, SessionType, SessionPlaces
  <2> QED
    BY Zenon, <1>1, <2>1, EndOK
<1> QED
  BY Zenon, <1>2, <1>3

-----------------------------------------------------------------------------
(* The theorem. *)

\* Every step keeps the invariant.
LEMMA NextOK ==
    ASSUME IInv, [Next]_vars
    PROVE  IInv'
<1>1. CASE PumpStep
  BY Zenon, <1>1, ReceiveOK, PumpGoesOnOK, PushOK, PinOK DEF PumpStep
<1>2. CASE WriterStep \/ IntervalPasses
  BY Zenon, <1>2, PopOK, WriterGoesOnOK DEF WriterStep
<1>3. CASE SessionStep
  <2>1. CASE End
    <3>1. /\ session.at = "run" /\ SessionType /\ session'.at = "ended"
          /\ q' = [q EXCEPT !.closed = TRUE]
          /\ UNCHANGED <<tip, idr, writer, started, epoch, live, pump, doomed>>
      BY Zenon, <2>1 DEF End, Ends, Goes, RestOfSession, SessionType, SessionPlaces
    <3> QED
      BY Zenon, <3>1, EndOK
  <2> QED
    BY Zenon, <1>3, <2>1, BarrierOK, RetireOK, SpawnOK, SpawnFailsOK, GiveUpOK, LateStepOK, AnnounceOK,
       ActivateOK DEF SessionStep
<1>4. CASE UNCHANGED vars
  <2>1. UNCHANGED <<q, tip, epoch, live, started, idr, pump, writer, session, doomed>>
    BY Zenon, <1>4 DEF vars
  <2>2. Stages' /\ PinHolds' /\ Continues'
    BY Zenon, <2>1 DEF IInv, Stages, PinHolds, Continues, Predicts, Open
  <2>3. SameQueue
    BY Zenon, <2>1 DEF IInv, TypeOK, SameQueue, Shows
  <2> QED
    BY <2>1, <2>2, <2>3, SameKeeps, Together DEF IInv, TypeOK, PumpType, SessionType, DoomedType
<1> QED
  BY Zenon, <1>1, <1>2, <1>3, <1>4 DEF Next

\* The flags of the queue, the barrier, the pump and the session stay together as the
\* invariant says, through every resize, retry, aborted pump and late step.
THEOREM Inductive == Spec => []IInv
<1>1. Init => IInv
  BY Zenon, InitOK
<1>2. IInv /\ [Next]_vars => IInv'
  BY Zenon, NextOK
<1> QED
  BY <1>1, <1>2, PTL DEF Spec

\* push, pin_generation_recovery, begin_generation, activate_generation, dequeue: whatever
\* was dropped, cleared or replaced, no predicted picture is in line for the writer without
\* the picture it is predicted from.
THEOREM AlwaysDecodable == Spec => []Decodable
<1>1. IInv => Decodable
  BY Zenon DEF IInv, InLine, Linked, Decodable
<1> QED
  BY <1>1, Inductive, PTL

-----------------------------------------------------------------------------
(* The capture processes. *)

Fields == {"proc", "out", "idr", "asked", "box", "writer", "stdin", "rate", "frames", "wedged"}
IsProcess(p) == p = [f \in Fields |-> p[f]]
AreProcesses(ps) == ps = [c \in Children |-> ps[c]] /\ \A c \in Children : IsProcess(ps[c])
Runs(p) == p.proc \in {"running", "killed"}
WithChild == {"spawning", "reaping", "keyframe"}
Starting == {"launch", "spawning", "reaping"}
Childless == {"stopping", "deciding", "ended", "keyframe"}

CaptureTypes ==
    /\ AreProcesses(child)
    /\ kids \in Seq(Children) /\ todo \in Seq(Children)
    /\ pc \in WithChild => cur \in Children
    /\ pc \notin WithChild => cur = 0

\* What the task holds where it is: only a stop has children to stop, and only
\* the first start keeps those that started already.
HoldsWhere ==
    /\ todo = <<>> <=> pc # "stopping"
    /\ pc \in Childless => kids = <<>>
    /\ pc \in Starting /\ why # "start" => kids = <<>>
    /\ why = "override" => N = 1

\* The task holds every process that runs.
Holds(c) == c = cur \/ c \in Range(kids) \/ c \in Range(todo)
AllHeld == ~cancelled => \A c \in Children : Live(c) => Holds(c)

CaptureIInv == CaptureTypes /\ HoldsWhere /\ AllHeld

\* Every process is one, and only those that ran before run.
Tamed(ps) == AreProcesses(ps) /\ \A c \in Children : Runs(ps[c]) => Runs(child[c])
StartsNone == Tamed(child')

-----------------------------------------------------------------------------
\* The elements of the sequences of children the task handles.
LEMMA RangeOfOne == \A c : Range(<<c>>) = {c}
  BY DEF Range

\* An empty sequence has none.
LEMMA RangeOfNone == Range(<<>>) = {}
  BY DEF Range

\* Append keeps what was there and adds the new one.
LEMMA RangeOfAppend ==
  ASSUME NEW s \in Seq(Children), NEW c \in Children
  PROVE  Range(s) \cup {c} \subseteq Range(Append(s, c))
<1>1. /\ DOMAIN s = 1 .. Len(s) /\ DOMAIN Append(s, c) = 1 .. Len(s) + 1
      /\ Len(s) \in Nat
      /\ Append(s, c)[Len(s) + 1] = c
      /\ \A i \in 1 .. Len(s) : Append(s, c)[i] = s[i]
  BY SMT
<1>2. c \in Range(Append(s, c))
  BY <1>1, SMT DEF Range
<1>3. ASSUME NEW d \in Range(s) PROVE d \in Range(Append(s, c))
  <2>1. PICK i \in 1 .. Len(s) : d = s[i]
    BY <1>1, <1>3, Zenon DEF Range
  <2>2. i \in DOMAIN Append(s, c) /\ Append(s, c)[i] = d
    BY <1>1, <2>1, SMT
  <2>. QED
    BY <2>2, Zenon DEF Range
<1>. QED
  BY <1>2, <1>3, Zenon

\* Whoever is not first is still in line when the first leaves.
LEMMA RangeOfTail ==
  ASSUME NEW s \in Seq(Children), s # <<>>, NEW c \in Range(s), c # Head(s)
  PROVE  c \in Range(Tail(s))
<1>1. /\ DOMAIN s = 1 .. Len(s) /\ DOMAIN Tail(s) = 1 .. Len(s) - 1
      /\ Len(s) \in Nat /\ Head(s) = s[1]
      /\ \A i \in 1 .. Len(s) - 1 : Tail(s)[i] = s[i + 1]
  BY SMT
<1>2. PICK i \in 1 .. Len(s) : c = s[i]
  BY <1>1, Zenon DEF Range
<1>3. i - 1 \in DOMAIN Tail(s) /\ Tail(s)[i - 1] = c
  BY <1>1, <1>2, SMT
<1>. QED
  BY <1>3, Zenon DEF Range

\* The start is rolled back newest first, and nobody is left out.
LEMMA Reversed ==
  ASSUME NEW s \in Seq(Children), NEW t, t = [i \in 1 .. Len(s) |-> s[Len(s) - i + 1]]
  PROVE  t \in Seq(Children) /\ Range(s) \subseteq Range(t)
<1>1. DOMAIN s = 1 .. Len(s) /\ Len(s) \in Nat /\ \A i \in 1 .. Len(s) : s[i] \in Children
  BY SMT
<1>2. t \in [1 .. Len(s) -> Children] /\ DOMAIN t = 1 .. Len(s)
  BY <1>1, SMT
<1>3. t \in Seq(Children)
  BY <1>1, <1>2, SMT
<1>4. ASSUME NEW c \in Range(s) PROVE c \in Range(t)
  <2>1. PICK i \in 1 .. Len(s) : c = s[i]
    BY <1>1, <1>4, Zenon DEF Range
  <2>2. Len(s) - i + 1 \in 1 .. Len(s) /\ t[Len(s) - i + 1] = c
    BY <1>1, <2>1, SMT
  <2>. QED
    BY <1>2, <2>2, Zenon DEF Range
<1>. QED
  BY <1>3, <1>4, Zenon

-----------------------------------------------------------------------------
(* What a step does to the processes. *)

\* The assignments that end or forget a process.
LEMMA ProcessEnds ==
  ASSUME NEW p, IsProcess(p)
  PROVE  IsProcess([p EXCEPT !.proc = "gone"]) /\ ~Runs([p EXCEPT !.proc = "gone"])
  BY Zenon DEF IsProcess, Fields, Runs

\* An unused identity runs nothing.
LEMMA NoneRuns == IsProcess(NoChild) /\ ~Runs(NoChild)
  BY Zenon DEF IsProcess, Fields, NoChild, Runs

\* What is forgotten about a replaced child is not whether it runs.
LEMMA ForgottenKeeps ==
  ASSUME NEW c
  PROVE  IsProcess(Forgotten(c)) /\ Forgotten(c).proc = child[c].proc
  BY Zenon DEF IsProcess, Fields, NoChild, Forgotten

\* One more process is assigned to, in a step that assigns to several.
LEMMA Updated ==
  ASSUME NEW ps, Tamed(ps), NEW c, NEW p, NEW qs, qs = [ps EXCEPT ![c] = p],
         c \in Children => IsProcess(p) /\ (Runs(p) => Runs(child[c]))
  PROVE  Tamed(qs)
<1>1. ps = [d \in Children |-> ps[d]]
  BY Zenon DEF Tamed, AreProcesses
<1>2. qs = [d \in Children |-> qs[d]]
  BY <1>1, Zenon
<1>3. \A d \in Children : qs[d] = IF d = c THEN p ELSE ps[d]
  BY <1>1, Zenon
<1>. QED
  BY <1>2, <1>3, Zenon DEF Tamed, AreProcesses

\* A step that leaves the processes alone starts none.
LEMMA Untouched == ASSUME AreProcesses(child) PROVE Tamed(child)
  BY Zenon DEF Tamed

\* One process gets new fields, or ends.
LEMMA OneUpdated ==
  ASSUME AreProcesses(child), NEW c, NEW p, child' = [child EXCEPT ![c] = p],
         c \in Children => IsProcess(p) /\ (Runs(p) => Runs(child[c]))
  PROVE  StartsNone
  BY Updated, Untouched, Zenon DEF StartsNone

\* A kill is sent to a running child and changes nothing else.
LEMMA KillKeeps ==
  ASSUME AreProcesses(child), NEW cs, child' = Killed(cs)
  PROVE  StartsNone
<1>1. child' = [c \in Children |-> child'[c]]
  BY Zenon DEF Killed
<1>2. ASSUME NEW c \in Children PROVE IsProcess(child'[c]) /\ (Runs(child'[c]) => Runs(child[c]))
  <2>1. IsProcess(child[c])
    BY Zenon DEF AreProcesses
  <2>2. CASE c \in cs /\ child[c].proc = "running"
    <3>1. child'[c] = [child[c] EXCEPT !.proc = "killed"]
      BY <2>2, Zenon DEF Killed
    <3>2. IsProcess(child'[c])
      BY <2>1, <3>1, Zenon DEF IsProcess, Fields
    <3>3. Runs(child[c])
      BY <2>2, Zenon DEF Runs
    <3>. QED
      BY <3>2, <3>3, Zenon
  <2>3. CASE ~(c \in cs /\ child[c].proc = "running")
    <3>1. child'[c] = child[c]
      BY <2>3, Zenon DEF Killed
    <3>. QED
      BY <2>1, <3>1, Zenon
  <2>. QED
    BY <2>2, <2>3, Zenon
<1>. QED
  BY <1>1, <1>2, Zenon DEF StartsNone, Tamed, AreProcesses

-----------------------------------------------------------------------------
(* The other tasks, and the processes. *)

\* A child is a process.
LEMMA IsOne == ASSUME AreProcesses(child), NEW c \in Children PROVE IsProcess(child[c])
  BY Zenon DEF AreProcesses

\* A keyframe request only sets its flags.
LEMMA RequestIdrTames ==
  ASSUME AreProcesses(child), NEW o, RequestIdr(o) PROVE StartsNone
<1>. DEFINE c == slot[o]
            p == [child[c] EXCEPT !.idr = TRUE, !.asked = TRUE]
<1>1. child' = [child EXCEPT ![c] = p]
  BY Zenon DEF RequestIdr
<1>2. ASSUME c \in Children PROVE IsProcess(p) /\ p.proc = child[c].proc
  <2>1. IsProcess(child[c])
    BY <1>2, IsOne, Zenon
  <2>. QED
    BY <2>1, Zenon DEF IsProcess, Fields
<1>3. c \in Children => IsProcess(p) /\ (Runs(p) => Runs(child[c]))
  BY <1>2, Zenon DEF Runs
<1>. HIDE DEF c, p
<1>. QED
  BY <1>1, <1>3, OneUpdated, Zenon

\* A rate command only goes into mailboxes.
LEMMA RateTickTames ==
  ASSUME AreProcesses(child), NEW r, RateTick(r) PROVE StartsNone
<1>. DEFINE landed == {o \in Outputs : applied[o] # r /\ Accepts(o)}
<1>1. child' = [c \in Children |-> IF \E o \in landed : slot[o] = c
                                  THEN [child[c] EXCEPT !.box = Append(@, r)] ELSE child[c]]
  BY Zenon DEF RateTick
<1>. HIDE DEF landed
<1>2. child' = [c \in Children |-> child'[c]]
  BY <1>1, Zenon
<1>3. ASSUME NEW c \in Children PROVE IsProcess(child'[c]) /\ child'[c].proc = child[c].proc
  <2>1. child'[c] = child[c] \/ child'[c] = [child[c] EXCEPT !.box = Append(@, r)]
    BY <1>1, Zenon
  <2>2. IsProcess(child[c])
    BY IsOne, Zenon
  <2>. QED
    BY <2>1, <2>2, Zenon DEF IsProcess, Fields
<1>. QED
  BY <1>2, <1>3, Zenon DEF StartsNone, Tamed, AreProcesses, Runs

\* The writer's and the reader's tasks only change pipes and mailboxes.
LEMMA WritesTame ==
  ASSUME AreProcesses(child), NEW c \in Children,
         WriteIdr(c) \/ WriteCommand(c) \/ StdinWriterEnds(c) \/ FramesEnd(c)
  PROVE  StartsNone
<1>0. IsProcess(child[c])
  BY IsOne, Zenon
<1>1. CASE WriteIdr(c)
  <2>. DEFINE p == [child[c] EXCEPT !.idr = FALSE, !.asked = child[c].wedged]
  <2>1. child' = [child EXCEPT ![c] = p]
    BY <1>1, Zenon DEF WriteIdr
  <2>2. IsProcess(p) /\ p.proc = child[c].proc
    BY <1>0, Zenon DEF IsProcess, Fields
  <2>. HIDE DEF p
  <2>. QED
    BY <2>1, <2>2, OneUpdated, Zenon DEF Runs
<1>2. CASE WriteCommand(c)
  <2>. DEFINE cmd == Head(child[c].box)
              p == [child[c] EXCEPT !.box = IF cmd = STOP THEN <<>> ELSE Tail(@),
                                    !.writer = cmd # STOP, !.stdin = cmd # STOP,
                                    !.rate = IF cmd = STOP \/ child[c].wedged THEN @ ELSE cmd]
  <2>1. child' = [child EXCEPT ![c] = p]
    BY <1>2, Zenon DEF WriteCommand
  <2>2. IsProcess(p) /\ p.proc = child[c].proc
    BY <1>0, Zenon DEF IsProcess, Fields
  <2>. HIDE DEF p
  <2>. QED
    BY <2>1, <2>2, OneUpdated, Zenon DEF Runs
<1>3. CASE StdinWriterEnds(c)
  <2>. DEFINE p == [child[c] EXCEPT !.writer = FALSE, !.box = <<>>, !.idr = FALSE]
  <2>1. child' = [child EXCEPT ![c] = p]
    BY <1>3, Zenon DEF StdinWriterEnds
  <2>2. IsProcess(p) /\ p.proc = child[c].proc
    BY <1>0, Zenon DEF IsProcess, Fields
  <2>. HIDE DEF p
  <2>. QED
    BY <2>1, <2>2, OneUpdated, Zenon DEF Runs
<1>4. CASE FramesEnd(c)
  <2>. DEFINE p == [child[c] EXCEPT !.frames = FALSE]
  <2>1. child' = [child EXCEPT ![c] = p]
    BY <1>4, Zenon DEF FramesEnd
  <2>2. IsProcess(p) /\ p.proc = child[c].proc
    BY <1>0, Zenon DEF IsProcess, Fields
  <2>. HIDE DEF p
  <2>. QED
    BY <2>1, <2>2, OneUpdated, Zenon DEF Runs
<1>. QED
  BY <1>1, <1>2, <1>3, <1>4, Zenon

\* A child that exits, is killed or fails does not start another.
LEMMA EndsTame ==
  ASSUME AreProcesses(child), NEW c \in Children, ChildExits(c) \/ KillLands(c) \/ Fails(c)
  PROVE  StartsNone
<1>0. IsProcess(child[c])
  BY IsOne, Zenon
<1>1. CASE child' = [child EXCEPT ![c] = [child[c] EXCEPT !.proc = "gone"]]
  BY <1>0, <1>1, ProcessEnds, OneUpdated, Zenon
<1>2. CASE child' = [child EXCEPT ![c] = [child[c] EXCEPT !.frames = FALSE]]
  <2>1. IsProcess([child[c] EXCEPT !.frames = FALSE]) /\ [child[c] EXCEPT !.frames = FALSE].proc = child[c].proc
    BY <1>0, Zenon DEF IsProcess, Fields
  <2>. QED
    BY <1>2, <2>1, OneUpdated, Zenon DEF Runs
<1>3. CASE child' = [child EXCEPT ![c] = [child[c] EXCEPT !.wedged = TRUE]]
  <2>1. IsProcess([child[c] EXCEPT !.wedged = TRUE]) /\ [child[c] EXCEPT !.wedged = TRUE].proc = child[c].proc
    BY <1>0, Zenon DEF IsProcess, Fields
  <2>. QED
    BY <1>3, <2>1, OneUpdated, Zenon DEF Runs
<1>. QED
  BY <1>1, <1>2, <1>3, Zenon DEF ChildExits, KillLands, Fails

-----------------------------------------------------------------------------
(* What a step makes of what the task holds. *)

\* A step that starts no process and keeps hold of those that run.
LEMMA HeldStill ==
  ASSUME AllHeld, StartsNone, cancelled' = cancelled,
         \A c \in Children : Live(c) /\ Holds(c) => Holds(c)'
  PROVE  AllHeld'
  BY Zenon DEF AllHeld, StartsNone, Tamed, Runs, Live

\* The task holds what it held.
LEMMA SameHeld ==
  ASSUME CaptureIInv, StartsNone, UNCHANGED <<pc, why, cur, kids, todo, cancelled>>
  PROVE  CaptureIInv'
<1>1. CaptureTypes'
  BY Zenon DEF CaptureIInv, CaptureTypes, StartsNone, Tamed
<1>2. HoldsWhere'
  BY Zenon DEF CaptureIInv, HoldsWhere
<1>3. \A c \in Children : Live(c) /\ Holds(c) => Holds(c)'
  BY Zenon DEF Holds
<1>4. AllHeld'
  BY <1>3, HeldStill, Zenon DEF CaptureIInv
<1>. QED
  BY <1>1, <1>2, <1>4, Zenon DEF CaptureIInv

\* The task goes on elsewhere with what it holds.
LEMMA GoesOn ==
  ASSUME CaptureIInv, StartsNone, UNCHANGED <<why, cur, kids, todo, cancelled>>,
         pc \in WithChild <=> pc' \in WithChild, pc # "stopping", pc' # "stopping",
         pc' \in Childless => kids = <<>>,
         pc' \in Starting /\ why # "start" => kids = <<>>
  PROVE  CaptureIInv'
<1>1. CaptureTypes'
  BY Zenon DEF CaptureIInv, CaptureTypes, StartsNone, Tamed
<1>2. HoldsWhere'
  BY Zenon DEF CaptureIInv, HoldsWhere
<1>3. \A c \in Children : Live(c) /\ Holds(c) => Holds(c)'
  BY Zenon DEF Holds
<1>4. AllHeld'
  BY <1>3, HeldStill, Zenon DEF CaptureIInv
<1>. QED
  BY <1>1, <1>2, <1>4, Zenon DEF CaptureIInv

\* The child being spawned is gone and the task goes on without it.
LEMMA LetsGo ==
  ASSUME CaptureIInv, StartsNone, UNCHANGED <<why, kids, todo, cancelled>>, cur' = 0,
         \A c \in Children : Live(c) => c # cur,
         pc' \notin WithChild, pc # "stopping", pc' # "stopping",
         pc' \in Childless => kids = <<>>,
         pc' \in Starting /\ why # "start" => kids = <<>>
  PROVE  CaptureIInv'
<1>1. CaptureTypes'
  BY Zenon DEF CaptureIInv, CaptureTypes, StartsNone, Tamed
<1>2. HoldsWhere'
  BY Zenon DEF CaptureIInv, HoldsWhere
<1>3. \A c \in Children : Live(c) /\ Holds(c) => Holds(c)'
  BY Zenon DEF Holds
<1>4. AllHeld'
  BY <1>3, HeldStill, Zenon DEF CaptureIInv
<1>. QED
  BY <1>1, <1>2, <1>4, Zenon DEF CaptureIInv

\* Stopping everything that still runs.
LEMMA StopKeeps ==
  ASSUME CaptureIInv, StartsNone, NEW cs \in Seq(Children), NEW reason, Stop(cs, reason),
         cancelled' = cancelled, reason = "override" => N = 1, reason # "start",
         todo = <<>>,
         \A c \in Children : Live(c) /\ (c = cur \/ c \in Range(kids)) => c \in Range(cs)
  PROVE  CaptureIInv'
<1>1. /\ todo' = cs /\ why' = reason /\ kids' = <<>> /\ cur' = 0
      /\ pc' = IF cs = <<>> THEN "ended" ELSE "stopping"
  BY Zenon DEF Stop
<1>2. pc' \in {"ended", "stopping"} /\ (cs = <<>> <=> pc' # "stopping")
  BY <1>1, Zenon
<1>3. pc' \notin WithChild /\ pc' \notin Starting
  BY <1>2, Zenon DEF WithChild, Starting
<1>4. <<>> \in Seq(Children)
  BY SMT
<1>5. CaptureTypes'
  BY <1>1, <1>3, <1>4, Zenon DEF CaptureIInv, CaptureTypes, StartsNone, Tamed
<1>6. HoldsWhere'
  BY <1>1, <1>2, <1>3, Zenon DEF HoldsWhere
<1>7. Range(todo) = {}
  BY RangeOfNone, Zenon
<1>8. \A c \in Children : Live(c) /\ Holds(c) => Holds(c)'
  BY <1>1, <1>7, Zenon DEF Holds
<1>9. AllHeld'
  BY <1>8, HeldStill, Zenon DEF CaptureIInv
<1>. QED
  BY <1>5, <1>6, <1>9, Zenon DEF CaptureIInv

-----------------------------------------------------------------------------
(* The steps of the task. *)

\* Where no child is being spawned, none is held as such.
LEMMA NoneSpawning ==
  ASSUME CaptureIInv, pc \notin WithChild, NEW c \in Children
  PROVE  c # cur
<1>1. cur = 0
  BY Zenon DEF CaptureIInv, CaptureTypes
<1>2. c # 0
  BY SMT DEF Children
<1>. QED
  BY <1>1, <1>2, Zenon

\* The same for a step of the task alone.
LEMMA Unchanged == ASSUME CaptureIInv, child' = child PROVE StartsNone
  BY Untouched, Zenon DEF StartsNone, CaptureIInv, CaptureTypes

\* An attachment that was set up stops its captures.
LEMMA StopsKids ==
  ASSUME CaptureIInv, child' = child, cancelled' = cancelled, NEW reason,
         Stop(kids, reason), pc \in {"setup", "streaming"},
         reason = "override" => N = 1, reason # "start"
  PROVE  CaptureIInv'
<1>1. pc \notin WithChild /\ pc # "stopping"
  BY Zenon DEF WithChild
<1>2. todo = <<>> /\ kids \in Seq(Children)
  BY <1>1, Zenon DEF CaptureIInv, HoldsWhere, CaptureTypes
<1>3. \A c \in Children : c # cur
  BY <1>1, NoneSpawning, Zenon
<1>4. \A c \in Children : Live(c) /\ (c = cur \/ c \in Range(kids)) => c \in Range(kids)
  BY <1>3, Zenon
<1>5. StartsNone
  BY Unchanged, Zenon
<1>. QED
  BY <1>2, <1>4, <1>5, StopKeeps, Zenon

\* A replacement that is not kept is stopped.
LEMMA StopsReplacement ==
  ASSUME CaptureIInv, StartsNone, cancelled' = cancelled, NEW reason,
         Stop(<<cur>>, reason), pc \in {"spawning", "keyframe"}, kids = <<>>,
         reason \notin {"override", "start"}
  PROVE  CaptureIInv'
<1>1. pc \in WithChild /\ pc # "stopping"
  BY Zenon DEF WithChild
<1>2. todo = <<>> /\ cur \in Children
  BY <1>1, Zenon DEF CaptureIInv, HoldsWhere, CaptureTypes
<1>3. <<cur>> \in Seq(Children)
  BY <1>2, SMT
<1>4. \A c \in Children : Live(c) /\ (c = cur \/ c \in Range(kids)) => c \in Range(<<cur>>)
  BY RangeOfOne, RangeOfNone, Zenon
<1>. QED
  BY <1>2, <1>3, <1>4, StopKeeps, Zenon

\* A failed spawn, for each caller: roll back, ask the budget, retry, give up.
LEMMA SpawnFailedKeeps ==
  ASSUME CaptureIInv, StartsNone, cancelled' = cancelled, pc \in {"launch", "reaping"},
         SpawnFailed, \A c \in Children : Live(c) => c # cur
  PROVE  CaptureIInv'
<1>1. pc # "stopping" /\ pc \in Starting
  BY Zenon DEF Starting
<1>2. todo = <<>> /\ kids \in Seq(Children) /\ (why # "start" => kids = <<>>)
  BY <1>1, Zenon DEF CaptureIInv, HoldsWhere, CaptureTypes
<1>3. CASE why = "start" /\ Stop([i \in 1 .. Len(kids) |-> kids[Len(kids) - i + 1]], "rollback")
  <2>. DEFINE back == [i \in 1 .. Len(kids) |-> kids[Len(kids) - i + 1]]
  <2>0. back = [i \in 1 .. Len(kids) |-> kids[Len(kids) - i + 1]]
    OBVIOUS
  <2>2. Stop(back, "rollback")
    BY <1>3, Zenon
  <2>. HIDE DEF back
  <2>1. back \in Seq(Children) /\ Range(kids) \subseteq Range(back)
    BY <1>2, <2>0, Reversed, SMTT(30)
  <2>3. \A c \in Children : Live(c) /\ (c = cur \/ c \in Range(kids)) => c \in Range(back)
    BY <2>1, Zenon
  <2>. QED
    BY <1>2, <2>1, <2>2, <2>3, StopKeeps, Zenon
<1>4. CASE why = "restart" /\ pc' = "deciding" /\ cur' = 0 /\ UNCHANGED <<why, kids, todo>>
  <2>1. pc' \notin WithChild /\ pc' # "stopping" /\ kids = <<>>
    BY <1>2, <1>4, Zenon DEF WithChild
  <2>. QED
    BY <1>1, <1>4, <2>1, LetsGo, Zenon
<1>5. CASE why = "resize" /\ pc' = "launch" /\ cur' = 0 /\ UNCHANGED <<why, kids, todo>>
  <2>1. pc' \notin WithChild /\ pc' # "stopping" /\ kids = <<>>
    BY <1>2, <1>5, Zenon DEF WithChild
  <2>. QED
    BY <1>1, <1>5, <2>1, LetsGo, Zenon
<1>6. CASE why \in {"override", "speed", "resize"} /\ Stop(<<>>, "teardown")
  <2>1. kids = <<>>
    BY <1>2, <1>6, Zenon
  <2>2. <<>> \in Seq(Children)
    BY SMT
  <2>3. \A c \in Children : Live(c) /\ (c = cur \/ c \in Range(kids)) => c \in Range(<<>>)
    BY <2>1, Zenon
  <2>. QED
    BY <1>2, <1>6, <2>2, <2>3, StopKeeps, Zenon
<1>. QED
  BY <1>3, <1>4, <1>5, <1>6, Zenon DEF SpawnFailed

\* The launched child is the one the task holds.
LEMMA LaunchKeeps ==
  ASSUME CaptureIInv, Launch
  PROVE  CaptureIInv'
<1>. DEFINE launched(o) == [NoChild EXCEPT !.proc = "running", !.out = o]
<1>1. PICK c \in Free : \E o : /\ cur' = c
                               /\ child' = [child EXCEPT ![c] = launched(o)]
  BY Zenon DEF Launch
<1>2. PICK o : cur' = c /\ child' = [child EXCEPT ![c] = launched(o)]
  BY <1>1, Zenon
<1>3. c \in Children
  BY Zenon DEF Free
<1>4. IsProcess(launched(o))
  BY Zenon DEF IsProcess, Fields, NoChild
<1>. HIDE DEF launched
<1>5. /\ pc = "launch" /\ pc' = "spawning"
      /\ UNCHANGED <<why, kids, todo, cancelled>>
  BY Zenon DEF Launch
<1>6. /\ pc' \in WithChild /\ pc' \notin Childless /\ pc' # "stopping"
      /\ pc \in Starting /\ pc \notin WithChild /\ pc # "stopping"
  BY <1>5, Zenon DEF WithChild, Childless, Starting
<1>7. AreProcesses(child)
  BY Zenon DEF CaptureIInv, CaptureTypes
<1>8. /\ child' = [d \in Children |-> child'[d]]
      /\ \A d \in Children : child'[d] = IF d = c THEN launched(o) ELSE child[d]
  BY <1>2, <1>7, Zenon DEF AreProcesses
<1>9. AreProcesses(child')
  BY <1>4, <1>7, <1>8, Zenon DEF AreProcesses
<1>10. CaptureTypes'
  BY <1>2, <1>3, <1>5, <1>6, <1>9, Zenon DEF CaptureIInv, CaptureTypes
<1>11. HoldsWhere'
  BY <1>5, <1>6, Zenon DEF CaptureIInv, HoldsWhere
<1>12. ASSUME ~cancelled', NEW d \in Children, Live(d)' PROVE Holds(d)'
  <2>1. CASE d = c
    BY <1>2, <2>1, Zenon DEF Holds
  <2>2. CASE d # c
    <3>1. Live(d)
      BY <1>8, <1>12, <2>2, Zenon DEF Live
    <3>2. d # cur
      BY <1>6, NoneSpawning, Zenon
    <3>. QED
      BY <1>5, <1>12, <3>1, <3>2, Zenon DEF CaptureIInv, AllHeld, Holds
  <2>. QED
    BY <2>1, <2>2, Zenon
<1>. QED
  BY <1>10, <1>11, <1>12, Zenon DEF CaptureIInv, AllHeld

\* A READY of the start: the child joins those started already.
LEMMA StartReadyKeeps ==
  ASSUME CaptureIInv, StartReady
  PROVE  CaptureIInv'
<1>. DEFINE p == [child[cur] EXCEPT !.writer = TRUE]
<1>1. /\ pc = "spawning" /\ why \in Setups
      /\ child' = [child EXCEPT ![cur] = p]
      /\ kids' = Append(kids, cur) /\ cur' = 0
      /\ pc' = IF Len(kids) + 1 = N THEN "setup" ELSE "launch"
      /\ UNCHANGED <<why, todo, cancelled>>
  BY Zenon DEF StartReady
<1>2. pc \in WithChild /\ pc \in Starting /\ pc # "stopping"
  BY <1>1, Zenon DEF WithChild, Starting
<1>3. /\ cur \in Children /\ kids \in Seq(Children) /\ todo = <<>> /\ todo \in Seq(Children)
      /\ AreProcesses(child) /\ (why # "start" => kids = <<>>)
      /\ (why = "override" => N = 1)
  BY <1>2, Zenon DEF CaptureIInv, CaptureTypes, HoldsWhere
<1>4. IsProcess(p) /\ p.proc = child[cur].proc
  <2>1. IsProcess(child[cur])
    BY <1>3, IsOne, Zenon
  <2>. QED
    BY <2>1, Zenon DEF IsProcess, Fields
<1>. HIDE DEF p
<1>5. StartsNone
  BY <1>1, <1>3, <1>4, OneUpdated, Zenon DEF Runs
<1>6. Append(kids, cur) \in Seq(Children) /\ Range(kids) \cup {cur} \subseteq Range(Append(kids, cur))
  <2>1. Append(kids, cur) \in Seq(Children)
    BY <1>3, SMT
  <2>. QED
    BY <1>3, <2>1, RangeOfAppend, Zenon
<1>7. pc' \in {"setup", "launch"}
  BY <1>1, Zenon
<1>8. pc' \notin WithChild /\ pc' \notin Childless /\ pc' # "stopping"
  BY <1>7, Zenon DEF WithChild, Childless
<1>9. why # "start" => pc' = "setup"
  <2>. SUFFICES ASSUME why # "start" PROVE pc' = "setup"
    OBVIOUS
  <2>1. why = "override"
    BY <1>1, Zenon DEF Setups
  <2>2. kids = <<>> /\ N = 1
    BY <1>3, <2>1, Zenon
  <2>3. Len(kids) + 1 = N
    BY <2>2, SMT
  <2>. QED
    BY <1>1, <2>3, Zenon
<1>10. CaptureTypes'
  BY <1>1, <1>3, <1>5, <1>6, <1>8, Zenon DEF CaptureTypes, StartsNone, Tamed
<1>11. why' # "start" => pc' \notin Starting
  BY <1>1, <1>9, Zenon DEF Starting
<1>12. HoldsWhere'
  BY <1>1, <1>3, <1>8, <1>11, Zenon DEF HoldsWhere
<1>13. \A c \in Children : Live(c) /\ Holds(c) => Holds(c)'
  BY <1>1, <1>6, Zenon DEF Holds
<1>14. AllHeld'
  BY <1>1, <1>5, <1>13, HeldStill, Zenon DEF CaptureIInv
<1>. QED
  BY <1>10, <1>12, <1>14, Zenon DEF CaptureIInv

\* A replacement is spawned with nothing else held.
LEMMA ReplacesAlone ==
  ASSUME CaptureIInv, pc = "spawning", why \notin Setups
  PROVE  kids = <<>> /\ cur \in Children /\ IsProcess(child[cur])
<1>1. pc \in WithChild /\ pc \in Starting /\ why # "start"
  BY Zenon DEF WithChild, Starting, Setups
<1>2. kids = <<>> /\ cur \in Children /\ AreProcesses(child)
  BY <1>1, Zenon DEF CaptureIInv, CaptureTypes, HoldsWhere
<1>. QED
  BY <1>2, IsOne, Zenon

\* A READY of a replacement.
LEMMA ReplacementReadyKeeps ==
  ASSUME CaptureIInv, ReplacementReady
  PROVE  CaptureIInv'
<1>. DEFINE p == [child[cur] EXCEPT !.writer = TRUE, !.idr = TRUE, !.asked = TRUE]
            mid == [child EXCEPT ![cur] = p]
<1>1. /\ pc = "spawning" /\ why \notin Setups /\ pc' = "keyframe"
      /\ child' = [mid EXCEPT ![slot[1]] = Forgotten(slot[1])]
      /\ UNCHANGED <<why, cur, kids, todo, cancelled>>
  BY Zenon DEF ReplacementReady
<1>2. kids = <<>> /\ cur \in Children /\ IsProcess(child[cur])
  BY <1>1, ReplacesAlone, Zenon
<1>3. IsProcess(p) /\ p.proc = child[cur].proc
  BY <1>2, Zenon DEF IsProcess, Fields
<1>. HIDE DEF p
<1>4. Tamed(mid)
  <2>1. Tamed(child)
    BY Untouched, Zenon DEF CaptureIInv, CaptureTypes
  <2>. QED
    BY <1>3, <2>1, Updated, Zenon DEF Runs
<1>. HIDE DEF mid
<1>5. IsProcess(Forgotten(slot[1])) /\ (Runs(Forgotten(slot[1])) => Runs(child[slot[1]]))
  BY ForgottenKeeps, Zenon DEF Runs
<1>6. StartsNone
  BY <1>1, <1>4, <1>5, Updated, Zenon DEF StartsNone
<1>7. /\ pc \in WithChild /\ pc' \in WithChild /\ pc # "stopping" /\ pc' # "stopping"
      /\ pc' \notin Starting
  BY <1>1, Zenon DEF WithChild, Starting
<1>. QED
  BY <1>1, <1>2, <1>6, <1>7, GoesOn, Zenon

\* A replacement of another geometry is stopped.
LEMMA ReplacementMismatchKeeps ==
  ASSUME CaptureIInv, ReplacementMismatch
  PROVE  CaptureIInv'
<1>. DEFINE p == [child[cur] EXCEPT !.writer = TRUE]
            reason == IF why = "restart" THEN why ELSE "teardown"
<1>1. /\ pc = "spawning" /\ why \notin Setups /\ Stop(<<cur>>, reason)
      /\ child' = [child EXCEPT ![cur] = p] /\ cancelled' = cancelled
  BY Zenon DEF ReplacementMismatch
<1>2. kids = <<>> /\ cur \in Children /\ IsProcess(child[cur])
  BY <1>1, ReplacesAlone, Zenon
<1>3. IsProcess(p) /\ p.proc = child[cur].proc
  BY <1>2, Zenon DEF IsProcess, Fields
<1>4. reason \notin {"override", "start"}
  BY Zenon
<1>. HIDE DEF p, reason
<1>5. StartsNone
  BY <1>1, <1>3, OneUpdated, Zenon DEF Runs, CaptureIInv, CaptureTypes
<1>. QED
  BY <1>1, <1>2, <1>4, <1>5, StopsReplacement, Zenon

\* A child that is not ready is killed, and held until it is gone.
LEMMA NotReadyKeeps ==
  ASSUME CaptureIInv, NEW u, NotReady(u)
  PROVE  CaptureIInv'
<1>1. /\ pc = "spawning" /\ pc' = "reaping" /\ child' = Killed({cur})
      /\ UNCHANGED <<why, cur, kids, todo, cancelled>>
  BY Zenon DEF NotReady
<1>2. StartsNone
  BY <1>1, KillKeeps, Zenon DEF CaptureIInv, CaptureTypes
<1>3. /\ pc \in WithChild /\ pc' \in WithChild /\ pc # "stopping" /\ pc' # "stopping"
      /\ pc \in Starting /\ pc' \notin Childless
  BY <1>1, Zenon DEF WithChild, Starting, Childless
<1>4. why # "start" => kids = <<>>
  BY <1>3, Zenon DEF CaptureIInv, HoldsWhere
<1>. QED
  BY <1>1, <1>2, <1>3, <1>4, GoesOn, Zenon

\* A child that is gone is let go.
LEMMA ReapedKeeps ==
  ASSUME CaptureIInv, Reaped
  PROVE  CaptureIInv'
<1>1. /\ pc = "reaping" /\ child[cur].proc = "gone" /\ child' = [child EXCEPT ![cur] = NoChild]
      /\ cancelled' = cancelled
      /\ \/ pc' = "launch" /\ cur' = 0 /\ UNCHANGED <<why, kids, todo>>
         \/ SpawnFailed
  BY Zenon DEF Reaped
<1>2. pc # "stopping" /\ pc \in Starting
  BY <1>1, Zenon DEF Starting
<1>3. StartsNone
  BY <1>1, NoneRuns, OneUpdated, Zenon DEF CaptureIInv, CaptureTypes
<1>4. \A c \in Children : Live(c) => c # cur
  BY <1>1, Zenon DEF Live
<1>5. CASE pc' = "launch" /\ cur' = 0 /\ UNCHANGED <<why, kids, todo>>
  <2>1. pc' \notin WithChild /\ pc' # "stopping" /\ pc' \notin Childless
    BY <1>5, Zenon DEF WithChild, Childless
  <2>2. why # "start" => kids = <<>>
    BY <1>2, Zenon DEF CaptureIInv, HoldsWhere
  <2>. QED
    BY <1>1, <1>2, <1>3, <1>4, <1>5, <2>1, <2>2, LetsGo, Zenon
<1>6. CASE SpawnFailed
  BY <1>1, <1>3, <1>4, <1>6, SpawnFailedKeeps, Zenon
<1>. QED
  BY <1>1, <1>5, <1>6, Zenon

\* A command that could not be started leaves nothing to stop.
LEMMA LaunchFailsKeeps ==
  ASSUME CaptureIInv, LaunchFails
  PROVE  CaptureIInv'
<1>1. pc = "launch" /\ SpawnFailed /\ child' = child /\ cancelled' = cancelled
  BY Zenon DEF LaunchFails
<1>2. \A c \in Children : Live(c) => c # cur
  BY <1>1, NoneSpawning, Zenon DEF WithChild
<1>. QED
  BY <1>1, <1>2, Unchanged, SpawnFailedKeeps, Zenon

\* A child that does not stop is killed, and held until it is gone.
LEMMA StopTimeoutKeeps ==
  ASSUME CaptureIInv, StopTimeout
  PROVE  CaptureIInv'
<1>1. child' = Killed({Head(todo)}) /\ UNCHANGED <<pc, why, cur, kids, todo, cancelled>>
  BY Zenon DEF StopTimeout
<1>2. StartsNone
  BY <1>1, KillKeeps, Zenon DEF CaptureIInv, CaptureTypes
<1>. QED
  BY <1>1, <1>2, SameHeld, Zenon

\* STOP goes into the mailbox.
LEMMA SendStopKeeps ==
  ASSUME CaptureIInv, SendStop
  PROVE  CaptureIInv'
<1>. DEFINE c == Head(todo)
            p == [child[c] EXCEPT !.box = Append(@, STOP)]
<1>1. /\ child' = child \/ child' = [child EXCEPT ![c] = p]
      /\ UNCHANGED <<pc, why, cur, kids, todo, cancelled>>
  BY Zenon DEF SendStop
<1>2. ASSUME c \in Children PROVE IsProcess(p) /\ p.proc = child[c].proc
  <2>1. IsProcess(child[c])
    BY <1>2, IsOne, Zenon DEF CaptureIInv, CaptureTypes
  <2>. QED
    BY <2>1, Zenon DEF IsProcess, Fields
<1>3. c \in Children => IsProcess(p) /\ (Runs(p) => Runs(child[c]))
  BY <1>2, Zenon DEF Runs
<1>. HIDE DEF c, p
<1>4. CASE child' = child
  BY <1>1, <1>4, Unchanged, SameHeld, Zenon
<1>5. CASE child' = [child EXCEPT ![c] = p]
  <2>1. StartsNone
    BY <1>3, <1>5, OneUpdated, Zenon DEF CaptureIInv, CaptureTypes
  <2>. QED
    BY <1>1, <2>1, SameHeld, Zenon
<1>. QED
  BY <1>1, <1>4, <1>5, Zenon

\* The first in line is gone; the others are still to be stopped.
LEMMA StoppedKeeps ==
  ASSUME CaptureIInv, Stopped
  PROVE  CaptureIInv'
<1>1. /\ pc = "stopping" /\ child[Head(todo)].proc = "gone" /\ todo' = Tail(todo)
      /\ UNCHANGED <<why, cur, kids, cancelled>>
      /\ child' = child \/ child' = [child EXCEPT ![Head(todo)] = NoChild]
  BY Zenon DEF Stopped
<1>2. pc \notin WithChild /\ pc \in Childless
  BY <1>1, Zenon DEF WithChild, Childless
<1>3. todo # <<>> /\ todo \in Seq(Children) /\ kids = <<>> /\ cur = 0 /\ kids \in Seq(Children)
      /\ (why = "override" => N = 1)
  BY <1>1, <1>2, Zenon DEF CaptureIInv, CaptureTypes, HoldsWhere
<1>4. StartsNone
  <2>1. CASE child' = child
    BY <2>1, Unchanged, Zenon
  <2>2. CASE child' = [child EXCEPT ![Head(todo)] = NoChild]
    BY <2>2, NoneRuns, OneUpdated, Zenon DEF CaptureIInv, CaptureTypes
  <2>. QED
    BY <1>1, <2>1, <2>2, Zenon
<1>5. Tail(todo) \in Seq(Children) /\ (Len(todo) = 1 <=> Tail(todo) = <<>>)
  <2>1. Tail(todo) \in Seq(Children) /\ Len(Tail(todo)) = Len(todo) - 1 /\ Len(todo) \in Nat
    BY <1>3, SMT
  <2>2. \A s \in Seq(Children) : s = <<>> <=> Len(s) = 0
    BY SMT
  <2>3. Tail(todo) = <<>> <=> Len(Tail(todo)) = 0
    BY <2>1, <2>2, Zenon
  <2>. QED
    BY <2>1, <2>3, SMT
<1>6. pc' \notin WithChild /\ (todo' = <<>> <=> pc' # "stopping")
  <2>1. CASE Len(todo) = 1
    <3>1. pc' \in {"ended", "deciding", "launch"}
      BY <2>1, Zenon DEF Stopped, AfterStop
    <3>2. pc' \notin WithChild /\ pc' # "stopping"
      BY <3>1, Zenon DEF WithChild
    <3>. QED
      BY <1>1, <1>5, <2>1, <3>2, Zenon
  <2>2. CASE Len(todo) # 1
    <3>1. pc' = pc
      BY <2>2, Zenon DEF Stopped
    <3>. QED
      BY <1>1, <1>2, <1>5, <2>2, <3>1, Zenon
  <2>. QED
    BY <2>1, <2>2, Zenon
<1>7. CaptureTypes'
  BY <1>1, <1>3, <1>4, <1>5, <1>6, Zenon DEF CaptureTypes, StartsNone, Tamed
<1>8. HoldsWhere'
  BY <1>1, <1>3, <1>6, Zenon DEF HoldsWhere
<1>9. ASSUME NEW c \in Children, Live(c), Holds(c) PROVE Holds(c)'
  <2>1. c # Head(todo)
    BY <1>1, <1>9, Zenon DEF Live
  <2>2. c \in Range(todo) => c \in Range(Tail(todo))
    BY <1>3, <2>1, RangeOfTail, Zenon
  <2>. QED
    BY <1>1, <1>9, <2>2, Zenon DEF Holds
<1>10. AllHeld'
  BY <1>1, <1>4, <1>9, HeldStill, Zenon DEF CaptureIInv
<1>. QED
  BY <1>7, <1>8, <1>10, Zenon DEF CaptureIInv

\* The budget decides when no capture runs.
LEMMA DecideKeeps ==
  ASSUME CaptureIInv, Decide
  PROVE  CaptureIInv'
<1>1. /\ pc = "deciding" /\ pc' \in {"launch", "ended"} /\ child' = child
      /\ UNCHANGED <<why, cur, kids, todo, cancelled>>
  BY Zenon DEF Decide
<1>2. /\ pc \notin WithChild /\ pc' \notin WithChild /\ pc # "stopping" /\ pc' # "stopping"
      /\ pc \in Childless
  BY <1>1, Zenon DEF WithChild, Childless
<1>3. kids = <<>>
  BY <1>2, Zenon DEF CaptureIInv, HoldsWhere
<1>. QED
  BY <1>1, <1>2, <1>3, Unchanged, GoesOn, Zenon

\* The replacement becomes the capture.
LEMMA KeyframeArrivesKeeps ==
  ASSUME CaptureIInv, KeyframeArrives
  PROVE  CaptureIInv'
<1>1. /\ pc = "keyframe" /\ pc' = "streaming" /\ kids' = <<cur>> /\ cur' = 0 /\ child' = child
      /\ UNCHANGED <<why, todo, cancelled>>
  BY Zenon DEF KeyframeArrives
<1>2. /\ pc \in WithChild /\ pc \in Childless /\ pc # "stopping"
      /\ pc' \notin WithChild /\ pc' \notin Childless /\ pc' \notin Starting /\ pc' # "stopping"
  BY <1>1, Zenon DEF WithChild, Childless, Starting
<1>3. cur \in Children /\ kids = <<>> /\ todo = <<>> /\ todo \in Seq(Children)
  BY <1>2, Zenon DEF CaptureIInv, CaptureTypes, HoldsWhere
<1>4. <<cur>> \in Seq(Children)
  BY <1>3, SMT
<1>5. StartsNone
  BY <1>1, Unchanged, Zenon
<1>6. CaptureTypes'
  BY <1>1, <1>2, <1>3, <1>4, <1>5, Zenon DEF CaptureTypes, StartsNone, Tamed
<1>7. HoldsWhere'
  BY <1>1, <1>2, <1>3, Zenon DEF CaptureIInv, HoldsWhere
<1>8. \A c \in Children : Live(c) /\ Holds(c) => Holds(c)'
  BY <1>1, <1>3, RangeOfOne, RangeOfNone, Zenon DEF Holds
<1>9. AllHeld'
  BY <1>1, <1>5, <1>8, HeldStill, Zenon DEF CaptureIInv
<1>. QED
  BY <1>6, <1>7, <1>9, Zenon DEF CaptureIInv

\* A replacement without a keyframe is stopped.
LEMMA KeyframeMissingKeeps ==
  ASSUME CaptureIInv, KeyframeMissing
  PROVE  CaptureIInv'
<1>. DEFINE reason == IF why = "restart" THEN why ELSE "teardown"
<1>1. pc = "keyframe" /\ Stop(<<cur>>, reason) /\ child' = child /\ cancelled' = cancelled
  BY Zenon DEF KeyframeMissing
<1>2. reason \notin {"override", "start"}
  BY Zenon
<1>. HIDE DEF reason
<1>3. kids = <<>>
  BY <1>1, Zenon DEF CaptureIInv, HoldsWhere, Childless
<1>. QED
  BY <1>1, <1>2, <1>3, Unchanged, StopsReplacement, Zenon

\* The steps of an attachment that is set up.
LEMMA ServedKeeps ==
  ASSUME CaptureIInv,
         \/ SetupOk \/ SetupFails \/ Override \/ PumpEnds \/ EndAttachment \/ Serve
         \/ Replace("speed") \/ Replace("resize")
  PROVE  CaptureIInv'
<1>1. CASE SetupOk
  <2>1. /\ pc = "setup" /\ pc' = "streaming" /\ child' = child
        /\ UNCHANGED <<why, cur, kids, todo, cancelled>>
    BY <1>1, Zenon DEF SetupOk
  <2>2. /\ pc \notin WithChild /\ pc' \notin WithChild /\ pc # "stopping" /\ pc' # "stopping"
        /\ pc' \notin Childless /\ pc' \notin Starting
    BY <2>1, Zenon DEF WithChild, Childless, Starting
  <2>. QED
    BY <2>1, <2>2, Unchanged, GoesOn, Zenon
<1>2. CASE SetupFails
  <2>1. pc = "setup" /\ Stop(kids, "rollback") /\ child' = child /\ cancelled' = cancelled
    BY <1>2, Zenon DEF SetupFails
  <2>. QED
    BY <2>1, StopsKids, Zenon
<1>3. CASE Override
  <2>1. pc = "setup" /\ N = 1 /\ Stop(kids, "override") /\ child' = child /\ cancelled' = cancelled
    BY <1>3, Zenon DEF Override
  <2>. QED
    BY <2>1, StopsKids, Zenon
<1>4. CASE PumpEnds
  <2>1. /\ pc = "streaming" /\ child' = child /\ cancelled' = cancelled
        /\ Stop(kids, "restart") \/ Stop(kids, "teardown")
    BY <1>4, Zenon DEF PumpEnds
  <2>. QED
    BY <2>1, StopsKids, Zenon
<1>5. CASE EndAttachment
  <2>1. pc = "streaming" /\ Stop(kids, "teardown") /\ child' = child /\ cancelled' = cancelled
    BY <1>5, Zenon DEF EndAttachment
  <2>. QED
    BY <2>1, StopsKids, Zenon
<1>6. CASE Serve
  BY <1>6, Unchanged, SameHeld, Zenon DEF Serve
<1>7. CASE Replace("speed")
  <2>1. /\ pc = "streaming" /\ child' = child /\ cancelled' = cancelled
        /\ Stop(kids, "speed") \/ Stop(kids, "teardown")
    BY <1>7, Zenon DEF Replace
  <2>. QED
    BY <2>1, StopsKids, Zenon
<1>8. CASE Replace("resize")
  <2>1. /\ pc = "streaming" /\ child' = child /\ cancelled' = cancelled
        /\ Stop(kids, "resize") \/ Stop(kids, "teardown")
    BY <1>8, Zenon DEF Replace
  <2>. QED
    BY <2>1, StopsKids, Zenon
<1>. QED
  BY <1>1, <1>2, <1>3, <1>4, <1>5, <1>6, <1>7, <1>8, Zenon

\* A cancelled task only sends the kills.
LEMMA CancelKeeps ==
  ASSUME CaptureIInv, Cancel
  PROVE  CaptureIInv'
<1>. DEFINE cs == Range(kids) \cup Range(todo) \cup {cur}
<1>1. /\ child' = Killed(cs) /\ cancelled' = TRUE /\ pc' = "ended"
      /\ kids' = <<>> /\ todo' = <<>> /\ cur' = 0 /\ why' = why
  BY Zenon DEF Cancel
<1>. HIDE DEF cs
<1>2. AreProcesses(child')
  BY <1>1, KillKeeps, Zenon DEF CaptureIInv, CaptureTypes, StartsNone, Tamed
<1>3. <<>> \in Seq(Children)
  BY SMT
<1>4. pc' \notin WithChild /\ pc' \notin Starting /\ pc' # "stopping"
  BY <1>1, Zenon DEF WithChild, Starting
<1>5. CaptureTypes'
  BY <1>1, <1>2, <1>3, <1>4, Zenon DEF CaptureTypes
<1>6. HoldsWhere'
  BY <1>1, <1>4, Zenon DEF CaptureIInv, HoldsWhere
<1>. QED
  BY <1>1, <1>5, <1>6, Zenon DEF CaptureIInv, AllHeld

-----------------------------------------------------------------------------
\* At the start no process runs.
LEMMA CaptureStarts == CaptureInit => CaptureIInv
<1>. SUFFICES ASSUME CaptureInit PROVE CaptureIInv
  OBVIOUS
<1>1. /\ pc = "launch" /\ why = "start" /\ cur = 0 /\ kids = <<>> /\ todo = <<>>
      /\ child = [c \in Children |-> NoChild]
  BY Zenon DEF CaptureInit
<1>2. IsProcess(NoChild) /\ ~Runs(NoChild)
  BY NoneRuns, Zenon
<1>3. <<>> \in Seq(Children)
  BY SMT
<1>4. CaptureTypes
  BY <1>1, <1>2, <1>3, Zenon DEF CaptureTypes, AreProcesses, WithChild
<1>5. HoldsWhere
  BY <1>1, Zenon DEF HoldsWhere, Childless
<1>6. AllHeld
  BY <1>1, <1>2, Zenon DEF AllHeld, Live, Runs
<1>. QED
  BY <1>4, <1>5, <1>6, Zenon DEF CaptureIInv

\* Every step keeps the invariant.
LEMMA CaptureKeeps == CaptureIInv /\ [CaptureNext]_captureVars => CaptureIInv'
<1>. SUFFICES ASSUME CaptureIInv, [CaptureNext]_captureVars PROVE CaptureIInv'
  OBVIOUS
<1>0. AreProcesses(child)
  BY Zenon DEF CaptureIInv, CaptureTypes
<1>1. CASE SpawnStep
  BY <1>1, LaunchKeeps, LaunchFailsKeeps, Zenon DEF SpawnStep
<1>2. CASE ReadyStep
  BY <1>2, StartReadyKeeps, ReplacementReadyKeeps, ReplacementMismatchKeeps, NotReadyKeeps,
     Zenon DEF ReadyStep
<1>3. CASE SetupStep \/ PumpEnds \/ Replace("speed") \/ Replace("resize") \/ EndAttachment \/ Serve
  BY <1>3, ServedKeeps, Zenon DEF SetupStep
<1>4. CASE Reaped \/ SendStop \/ StopTimeout \/ Stopped \/ Decide \/ Cancel
  BY <1>4, ReapedKeeps, SendStopKeeps, StopTimeoutKeeps, StoppedKeeps, DecideKeeps, CancelKeeps,
     Zenon
<1>5. CASE KeyframeStep
  BY <1>5, KeyframeArrivesKeeps, KeyframeMissingKeeps, Zenon DEF KeyframeStep
<1>6. ASSUME NEW o \in Outputs, RequestIdr(o) PROVE CaptureIInv'
  <2>1. UNCHANGED <<pc, why, cur, kids, todo, cancelled>>
    BY <1>6, Zenon DEF RequestIdr, Rest, task
  <2>. QED
    BY <1>0, <1>6, <2>1, RequestIdrTames, SameHeld, Zenon
<1>7. ASSUME NEW r \in Rates, RateTick(r) PROVE CaptureIInv'
  <2>1. UNCHANGED <<pc, why, cur, kids, todo, cancelled>>
    BY <1>7, Zenon DEF RateTick, task
  <2>. QED
    BY <1>0, <1>7, <2>1, RateTickTames, SameHeld, Zenon
<1>8. ASSUME NEW c \in Children,
             \/ WriteIdr(c) \/ WriteCommand(c) \/ StdinWriterEnds(c) \/ ChildExits(c)
             \/ KillLands(c) \/ FramesEnd(c) \/ Fails(c)
      PROVE  CaptureIInv'
  <2>1. UNCHANGED <<pc, why, cur, kids, todo, cancelled>>
    BY <1>8, Zenon DEF WriteIdr, WriteCommand, StdinWriterEnds, ChildExits, KillLands, FramesEnd,
                       Fails, Rest, task
  <2>2. StartsNone
    BY <1>0, <1>8, WritesTame, EndsTame, Zenon
  <2>. QED
    BY <2>1, <2>2, SameHeld, Zenon
<1>9. CASE UNCHANGED captureVars
  BY <1>9, Unchanged, SameHeld, Zenon DEF captureVars, task
<1>. QED
  BY <1>1, <1>2, <1>3, <1>4, <1>5, <1>6, <1>7, <1>8, <1>9, Zenon DEF CaptureNext

\* Whatever fails, dies, hangs or is replaced on the way, and for any number of
\* outputs, an attachment whose task returned by itself left no capture process.
THEOREM EndedCorrect == CaptureSpec => []EndedLeavesNone
<1>1. CaptureIInv => EndedLeavesNone
  <2>. SUFFICES ASSUME CaptureIInv, pc = "ended", ~cancelled, NEW c \in Children, Live(c)
                PROVE  FALSE
    BY Zenon DEF EndedLeavesNone
  <2>1. Holds(c)
    BY Zenon DEF CaptureIInv, AllHeld
  <2>2. pc \notin WithChild /\ pc \in Childless /\ pc # "stopping"
    BY Zenon DEF WithChild, Childless
  <2>3. kids = <<>> /\ todo = <<>>
    BY <2>2, Zenon DEF CaptureIInv, HoldsWhere
  <2>4. c # cur
    BY <2>2, NoneSpawning, Zenon
  <2>. QED
    BY <2>1, <2>3, <2>4, RangeOfNone, Zenon DEF Holds
<1>. QED
  BY <1>1, CaptureStarts, CaptureKeeps, PTL DEF CaptureSpec

=============================================================================
