------------------------------- MODULE MCMedia -------------------------------
(***************************************************************************)
(* The media path of the Linux Pier, from the compositor's buffers to the     *)
(* writer of the video lane: the leased capture buffers (CaptureLease), the   *)
(* capture processes of an attachment (CaptureChildren) and the queue of      *)
(* encoded pictures (FrameQueue), the last two extended here.                *)
(*                                                                         *)
(* The three share no state - a process boundary or an encoder lies between   *)
(* them - so no interleaving of one with another can matter to either. A     *)
(* behaviour therefore is one of the part it starts with, and the others stay *)
(* as they began.                                                            *)
(***************************************************************************)
EXTENDS FrameQueue, CaptureChildren

CONSTANTS b1, b2

VARIABLES part,
          screen, drawn, free, ready, held, gate, layout, mailbox, commands, loop, worker

\* The code's capacity and one buffer more, all of which may wait in the mailbox.
Lease == INSTANCE CaptureLease WITH
    Buffers <- {b1, b2}, Blocks <- {1, 2}, Capacity <- 2, MaxRects <- 2,
    MaxFrames <- 3, MaxEpochs <- 2, epoch <- gate

\* A mailbox of one frame, which overflows after a picture was encoded, and a
\* stream that is renegotiated while its buffers are leased.
Renegotiated == INSTANCE CaptureLease WITH
    Buffers <- {b1, b2}, Blocks <- {1, 2}, Capacity <- 1, MaxRects <- 2,
    MaxFrames <- 3, MaxEpochs <- 3, epoch <- gate

\* Two outputs, where the captures start together or not at all.
Captures == INSTANCE CaptureChildren WITH
    N <- 2, Attempts <- 2, Rates <- {"high"}, MaxReplaces <- 0, MaxTargets <- 0

leaseVars == <<screen, drawn, free, ready, held, gate, layout, mailbox, commands, loop, worker>>
mediaVars == <<part, vars, leaseVars, captureVars>>

MediaInit ==
    /\ Init /\ Lease!Init
    /\ \/ part \in {"queue", "lease", "renegotiated", "capture"} /\ CaptureInit
       \/ part = "captures" /\ Captures!CaptureInit

MediaNext ==
    /\ UNCHANGED part
    /\ \/ part = "queue" /\ Next /\ UNCHANGED <<leaseVars, captureVars>>
       \/ part = "lease" /\ Lease!Next /\ UNCHANGED <<vars, captureVars>>
       \/ part = "renegotiated" /\ Renegotiated!Next /\ UNCHANGED <<vars, captureVars>>
       \/ part = "capture" /\ CaptureNext /\ UNCHANGED <<vars, leaseVars>>
       \/ part = "captures" /\ Captures!CaptureNext /\ UNCHANGED <<vars, leaseVars>>

\* The pump and the writer run when they can and the request interval passes; an
\* encoder asked for a keyframe again and again delivers one.
QueueFairness ==
    /\ WF_vars(part = "queue" /\ PumpStep)
    /\ WF_vars(part = "queue" /\ WriterStep)
    /\ WF_vars(part = "queue" /\ IntervalPasses)
    /\ SF_vars(part = "queue" /\ idr /\ Receive("R"))

LeaseParts == {"lease", "renegotiated"}

\* The loop thread runs its callbacks and commands; the worker keeps its pace. What
\* does not depend on the buffers or the capacity is the same in both instances.
LeaseFairness ==
    /\ WF_leaseVars(\/ part = "lease" /\ Lease!HandleBuffer
                    \/ part = "renegotiated" /\ Renegotiated!HandleBuffer)
    /\ WF_leaseVars(\/ part = "lease" /\ Lease!AddBuffers
                    \/ part = "renegotiated" /\ Renegotiated!AddBuffers)
    /\ WF_leaseVars(part \in LeaseParts /\ Lease!Release)
    /\ WF_leaseVars(part \in LeaseParts /\ Lease!FormatChanged)
    /\ WF_leaseVars(part \in LeaseParts /\ Lease!Shutdown)
    /\ WF_leaseVars(part \in LeaseParts /\ Lease!WorkerStep)

\* Every await of the attachment's task has a timeout or an event that comes, and
\* the kernel ends a process that exits or is killed.
CaptureFairness ==
    /\ WF_captureVars(part = "capture" /\ SpawnStep)
    /\ WF_captureVars(part = "capture" /\ ReadyStep)
    /\ WF_captureVars(part = "capture" /\ Reaped)
    /\ WF_captureVars(part = "capture" /\ SetupStep)
    /\ WF_captureVars(part = "capture" /\ SendStop)
    /\ WF_captureVars(part = "capture" /\ StopTimeout)
    /\ WF_captureVars(part = "capture" /\ Stopped)
    /\ WF_captureVars(part = "capture" /\ Decide)
    /\ WF_captureVars(part = "capture" /\ KeyframeStep)
    /\ \A c \in {1, 2} :
         /\ WF_captureVars(part = "capture" /\ ChildExits(c))
         /\ WF_captureVars(part = "capture" /\ KillLands(c))
         /\ WF_captureVars(part = "capture" /\ FramesEnd(c))
         /\ WF_captureVars(part = "capture" /\ StdinWriterEnds(c))

MediaSpec == MediaInit /\ [][MediaNext]_mediaVars /\ QueueFairness /\ LeaseFairness /\ CaptureFairness

-----------------------------------------------------------------------------
(* The properties; each is stated, with the code it is about, in its module.  *)
(* Decodable and Recovers are those of FrameQueue, EndedLeavesNone is that of *)
(* CaptureChildren, for both numbers of outputs.                             *)

\* CaptureLease: the damage handed to the encoder names every changed block.
DamageNamesEveryChange == [][Lease!DamageNamed]_leaseVars
\* CaptureLease: every dequeued buffer goes back to the producer.
BuffersReturn == Lease!BuffersReturn
\* CaptureChildren: a stopped capture is served again or ends the attachment.
CaptureResumesOrEnds == part = "capture" => ResumesOrEnds
=============================================================================
