---------------------------- MODULE CaptureLease ----------------------------
(***************************************************************************)
(* The Wayland capture of capenc: PipeWire hands buffers to a callback     *)
(* thread, which leases them through a bounded mailbox to the import       *)
(* worker; the worker copies the newest into its retained frame and        *)
(* encodes that.                                                           *)
(*   shared/media/src/video/capture_lease.rs    the mailbox and the damage *)
(*   hosts/capenc/src/wayland/pipewire.rs       callbacks, gate, requeueing *)
(*   hosts/capenc/src/wayland/pipelines/runner.rs   the import worker      *)
(* A picture is the set of its blocks' ages (the frame that last changed   *)
(* each block).  Unknown and Full damage are one value: both mean "any     *)
(* block".                                                                 *)
(***************************************************************************)
EXTENDS Naturals, Sequences, SequencesExt, FiniteSets, TLC

CONSTANTS
  Buffers,      \* the stream's buffers
  Blocks,       \* the blocks of a picture
  Capacity,     \* frames the mailbox holds (MAILBOX_CAPACITY)
  MaxRects,     \* rectangles a damage list may hold (MAX_CAPTURE_DAMAGE_RECTS)
  MaxFrames,    \* bound: frames the producer draws
  MaxEpochs,    \* bound: times the gate revokes
  None

VARIABLES
  screen,    \* the producer's picture
  drawn,     \* frames drawn so far
  free,      \* buffers the producer owns
  ready,     \* frames queued to the consumer
  held,      \* buffers the consumer has dequeued
  epoch,     \* LeaseGate
  layout,    \* a format is negotiated
  mailbox,   \* MailboxState: queue, closed, carried
  commands,  \* tokens on their way back to the loop thread
  loop,      \* the loop thread
  worker     \* the import worker
vars == <<screen, drawn, free, ready, held, epoch, layout, mailbox, commands,
          loop, worker>>

-----------------------------------------------------------------------------
(* Damage                                                                  *)

Unknown == [named |-> FALSE, rects |-> 0, blocks |-> Blocks]
Regions(blocks) == [named |-> TRUE, rects |-> Cardinality(blocks), blocks |-> blocks]

\* DamageEvidence::union
Union(older, newer) ==
  IF older.named /\ newer.named /\ older.rects + newer.rects <= MaxRects
  THEN [named |-> TRUE, rects |-> older.rects + newer.rects,
        blocks |-> older.blocks \cup newer.blocks]
  ELSE Unknown

Carry(carried, newer) == IF carried = None THEN newer ELSE Union(carried, newer)

\* the damage of a queue of frames, oldest first
Folded(queue) == FoldLeft(LAMBDA d, f : Carry(d, f.damage), None, queue)

\* after mark_submitted; what is left in the map is reset by the next observe
NothingPending == [on |-> FALSE, authoritative |-> FALSE, blocks |-> {}]

\* PendingCaptureDamage::observe, over PendingExternalDamage::observe
Observed(pending, damage) ==
  [on |-> TRUE,
   authoritative |-> damage.named /\ (pending.authoritative \/ ~pending.on),
   blocks |-> damage.blocks \cup (IF pending.on THEN pending.blocks ELSE {})]

-----------------------------------------------------------------------------
(* The producer                                                            *)

\* a frame is drawn into a free buffer; the producer names what it changed, or
\* says nothing.  A cursor-only buffer changes nothing; a bad one (corrupted, or
\* refused by classify or validate) changes the screen but cannot be read.
Draw(b, blocks, report, kind) ==
  /\ drawn < MaxFrames /\ b \in free /\ loop = "run"
  /\ drawn' = drawn + 1
  /\ screen' = [c \in Blocks |-> IF c \in blocks THEN drawn + 1 ELSE screen[c]]
  /\ free' = free \ {b}
  /\ ready' = Append(ready, [buffer |-> b, kind |-> kind, damage |-> report,
                             picture |-> screen'])
  /\ UNCHANGED <<held, epoch, layout, mailbox, commands, loop, worker>>

\* what the producer does not name may have changed anywhere
Draws ==
  \E b \in free :
    \/ \E blocks \in SUBSET Blocks : Draw(b, blocks, Regions(blocks), "frame")
    \/ Draw(b, Blocks, Unknown, "frame")
    \/ Draw(b, Blocks, Unknown, "bad")
    \/ Draw(b, {}, Unknown, "cursor")

-----------------------------------------------------------------------------
(* The loop thread                                                         *)

\* requeue: a token of an earlier epoch is dropped, its buffer is gone
Requeued(tokens) == {t.buffer : t \in {u \in tokens : u.epoch = epoch}}

\* queue_back
QueueBack(buffers) == held' = held \ buffers /\ free' = free \cup buffers

\* mutant: the frame that makes room takes its damage with it
PushedForgets(f) ==
  LET damage == Carry(mailbox.carried, f.damage)
      queue == Append(mailbox.queue, [f EXCEPT !.damage = damage])
  IN IF Len(queue) <= Capacity THEN [queue |-> queue, back |-> <<>>]
     ELSE [queue |-> Tail(queue), back |-> <<queue[1]>>]

\* CaptureMailbox::push: what stays queued, and what is handed back
Pushed(f) ==
  LET damage == Carry(mailbox.carried, f.damage)
      queue == Append(mailbox.queue, [f EXCEPT !.damage = damage])
  IN IF Len(queue) <= Capacity THEN [queue |-> queue, back |-> <<>>]
     ELSE [queue |-> <<[queue[2] EXCEPT !.damage = Union(queue[1].damage, @)]>>
                     \o SubSeq(queue, 3, Len(queue)),
           back |-> <<queue[1]>>]

\* handle_buffer: one dequeued buffer, requeued at once or leased
HandleBuffer ==
  /\ loop = "run" /\ ready # <<>>
  /\ LET r == Head(ready)
         lease == [buffer |-> r.buffer, epoch |-> epoch, damage |-> r.damage,
                   picture |-> r.picture]
     IN \/ /\ ~layout \/ r.kind = "cursor"
           /\ free' = free \cup {r.buffer}
           /\ UNCHANGED <<held, mailbox>>
        \/ /\ layout /\ r.kind = "bad"
           /\ mailbox' = [mailbox EXCEPT !.carried = Carry(@, Unknown)]
           /\ free' = free \cup {r.buffer}
           /\ UNCHANGED held
        \/ /\ layout /\ r.kind = "frame" /\ mailbox.closed
           /\ free' = free \cup {r.buffer}
           /\ UNCHANGED <<held, mailbox>>
        \/ /\ layout /\ r.kind = "frame" /\ ~mailbox.closed
           /\ LET p == Pushed(lease)
                  back == Requeued(ToSet(p.back))
              IN /\ mailbox' = [mailbox EXCEPT !.queue = p.queue, !.carried = None]
                 /\ held' = (held \cup {r.buffer}) \ back
                 /\ free' = free \cup back
  /\ ready' = Tail(ready)
  /\ UNCHANGED <<screen, drawn, epoch, layout, commands, loop, worker>>

\* Command::Release on the loop thread
Release ==
  /\ loop = "run" /\ commands # <<>>
  /\ QueueBack(Requeued({Head(commands)}))
  /\ commands' = Tail(commands)
  /\ UNCHANGED <<screen, drawn, ready, epoch, layout, mailbox, loop, worker>>

Reading == worker.at = "reading"

\* PipeWire removes the stream's buffers, and sets the format next (external);
\* remove_buffer revokes every lease and waits for a reader in progress
RemoveBuffers ==
  /\ loop = "run" /\ epoch + 1 < MaxEpochs
  /\ ~Reading
  /\ epoch' = epoch + 1
  /\ free' = {} /\ ready' = <<>> /\ held' = {}
  /\ loop' = "format"
  /\ UNCHANGED <<screen, drawn, layout, mailbox, commands, worker>>

\* CaptureMailbox::drain, then the full damage that on_param_changed carries
DrainedUnread ==
  [mailbox EXCEPT !.queue = <<>>,
     !.carried = Carry(IF mailbox.queue = <<>> THEN @ ELSE Carry(@, Folded(mailbox.queue)),
                       Unknown)]

\* on_param_changed for a Format: set, unsupported or cleared
FormatChanged ==
  /\ loop = "format" /\ ~Reading
  /\ mailbox' = DrainedUnread
  /\ layout' \in BOOLEAN
  /\ epoch' = epoch + 1
  /\ loop' = "add"
  /\ UNCHANGED <<screen, drawn, free, ready, held, commands, worker>>

\* the producer allocates the new buffers
AddBuffers ==
  /\ loop = "add"
  /\ free' = Buffers
  /\ loop' = "run"
  /\ UNCHANGED <<screen, drawn, ready, held, epoch, layout, mailbox, commands, worker>>

\* state_changed to Error or Unconnected
StreamEnds ==
  /\ loop = "run" /\ ~mailbox.closed
  /\ mailbox' = [mailbox EXCEPT !.closed = TRUE]
  /\ UNCHANGED <<screen, drawn, free, ready, held, epoch, layout, commands, loop, worker>>

\* Command::Stop, then the end of run_loop
Shutdown ==
  /\ loop = "run" /\ worker.at = "stopping"
  /\ mailbox' = [mailbox EXCEPT !.closed = TRUE, !.queue = <<>>]
  /\ free' = {} /\ ready' = <<>> /\ held' = {}
  /\ commands' = <<>>
  /\ epoch' = epoch + 1
  /\ loop' = "done"
  /\ UNCHANGED <<screen, drawn, layout, worker>>

-----------------------------------------------------------------------------
(* The import worker                                                       *)

\* what requeueing needs of a lease
Token(lease) == [buffer |-> lease.buffer, epoch |-> lease.epoch]

RestOfWorker == UNCHANGED <<screen, drawn, free, ready, held, epoch, layout, loop>>

\* take_latest: the newest frame with the damage of all that it supersedes,
\* observed before it is imported
TakeLatest ==
  /\ worker.at = "take" /\ mailbox.queue # <<>>
  /\ LET queue == mailbox.queue
         damage == Folded(queue)
     IN /\ worker' = [worker EXCEPT !.at = "lease", !.lease = Last(queue),
                                    !.pending = Observed(@, damage)]
        /\ mailbox' = [mailbox EXCEPT !.queue = <<>>]
        /\ commands' = commands \o [i \in 1 .. Len(queue) - 1 |-> Token(queue[i])]
  /\ RestOfWorker

\* no frame waits; at a closed mailbox the epoch ends
TakeNothing ==
  /\ worker.at = "take" /\ mailbox.queue = <<>>
  /\ worker' = [worker EXCEPT !.at = IF mailbox.closed THEN "stopping" ELSE "decide"]
  /\ UNCHANGED <<mailbox, commands>> /\ RestOfWorker

\* mutant: a lease that ends keeps its buffer
EndsLeaseKept == UNCHANGED commands

\* CaptureLease::drop: its token goes back through the releaser
EndsLease == commands' = Append(commands, Token(worker.lease))

\* BufferToken::read refuses a lease of an earlier epoch
Revoked ==
  /\ worker.at = "lease" /\ worker.lease.epoch # epoch
  /\ worker' = [worker EXCEPT !.at = "decide", !.lease = None]
  /\ EndsLease
  /\ UNCHANGED mailbox /\ RestOfWorker

StartRead ==
  /\ worker.at = "lease" /\ worker.lease.epoch = epoch
  /\ worker' = [worker EXCEPT !.at = "reading"]
  /\ UNCHANGED <<mailbox, commands>> /\ RestOfWorker

Imported ==
  /\ Reading
  /\ worker' = [worker EXCEPT !.at = "decide", !.lease = None, !.valid = TRUE,
                              !.dirty = TRUE, !.retained = worker.lease.picture]
  /\ EndsLease
  /\ UNCHANGED mailbox /\ RestOfWorker

\* a DMA-BUF import failed: the retained frame may be partial (no picture of the
\* screen), and is out of use until a frame is imported
ImportFails ==
  /\ Reading
  /\ worker' = [worker EXCEPT !.at = "decide", !.lease = None, !.valid = FALSE,
                              !.retained = None]
  /\ EndsLease
  /\ UNCHANGED mailbox /\ RestOfWorker

\* the gate decides on a picture: the retained frame changed, an IDR was asked
\* for, or a keepalive is due.  encode consumes the pending damage.
Submit ==
  /\ worker.at = "decide" /\ worker.valid
  /\ worker' = [worker EXCEPT !.at = "take", !.dirty = FALSE, !.pending = NothingPending,
                              !.sent = worker.retained]
  /\ UNCHANGED <<mailbox, commands>> /\ RestOfWorker

NoSubmission ==
  /\ worker.at = "decide" /\ ~(worker.valid /\ worker.dirty)
  /\ worker' = [worker EXCEPT !.at = "take"]
  /\ UNCHANGED <<mailbox, commands>> /\ RestOfWorker

\* control.stop_requested
StopRequested ==
  /\ worker.at = "take"
  /\ worker' = [worker EXCEPT !.at = "stopping"]
  /\ UNCHANGED <<mailbox, commands>> /\ RestOfWorker

-----------------------------------------------------------------------------
Init ==
  /\ screen = [c \in Blocks |-> 0] /\ drawn = 0
  /\ free = {} /\ ready = <<>> /\ held = {}
  /\ epoch = 0 /\ layout = FALSE
  /\ mailbox = [queue |-> <<>>, closed |-> FALSE, carried |-> None]
  /\ commands = <<>>
  /\ loop = "format"
  /\ worker = [at |-> "take", lease |-> None, valid |-> FALSE, dirty |-> FALSE,
               pending |-> NothingPending,
               retained |-> None, sent |-> None]

LoopStep ==
  HandleBuffer \/ Release \/ RemoveBuffers \/ FormatChanged \/ AddBuffers
    \/ StreamEnds \/ Shutdown
WorkerStep ==
  TakeLatest \/ TakeNothing \/ Revoked \/ StartRead \/ Imported \/ ImportFails
    \/ Submit \/ NoSubmission \/ StopRequested
Next == Draws \/ LoopStep \/ WorkerStep

Spec == Init /\ [][Next]_vars

-----------------------------------------------------------------------------
(* Properties                                                              *)

\* "so nothing changed is lost before a picture is submitted": when a picture is
\* encoded with its damage taken as the producer's own account, that damage
\* names every block that differs from the picture encoded before it, whatever
\* was superseded, refused, revoked or drained between the two.
DamageNamed ==
    worker'.sent # worker.sent /\ worker.pending.on /\ worker.pending.authoritative
       => worker.sent # None /\
          {c \in Blocks : worker.sent[c] # worker'.sent[c]} \subseteq worker.pending.blocks

\* A buffer the consumer dequeued goes back to the producer, or goes with the
\* stream's buffers.
BuffersReturn == \A b \in Buffers : b \in held ~> b \notin held

=============================================================================
