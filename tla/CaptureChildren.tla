--------------------------- MODULE CaptureChildren ---------------------------
(***************************************************************************)
(* The capture-and-encode processes ("capenc" children) of one Linux       *)
(* attachment: how they are started (one per output, all or none, each     *)
(* through its chain of encoder fallbacks), stopped, replaced when the     *)
(* capture ends by itself, the Speed preset falls short or the Deck        *)
(* resizes its window, and abandoned when the service cancels the          *)
(* attachment's task; and the two channels that steer a running child, its *)
(* keyframe requests and its bounded mailbox of rate commands.             *)
(*                                                                         *)
(*   media/capenc.rs          one child: spawn, shutdown, drop, requesters *)
(*   media/multi_capenc.rs    one child per monitor                        *)
(*   outputs/atomic_start.rs  start all or roll back                       *)
(*   net/server.rs            the attachment loop that owns them           *)
(*   video/capture_restart.rs, rate_control.rs  budget and rate sync       *)
(*                                                                         *)
(* Encoders, codecs, geometry and frames are left out: a spawn attempt has *)
(* an outcome, a READY either keeps the contract or does not, and what the *)
(* frames are is the business of FrameQueue.                               *)
(***************************************************************************)
EXTENDS Naturals, Sequences, Functions

CONSTANTS N,            \* outputs of the session; 1 is the single-capture path
          Pool,         \* child identities; one is reused once its process is gone
          Attempts,     \* encoders capenc::spawn may try in turn
          Cap,          \* capacity of the command mailbox (4 in the code)
          Rates, StartRate,
          Budget,       \* CAPTURE_RESTARTS_PER_WINDOW
          Window,       \* CAPTURE_RESTART_WINDOW, in units of ten seconds
          SlowStart,    \* the longest READY takes, in the same units
          MaxFaults, MaxReplaces, MaxTargets   \* bounds of the model

Children == 1..Pool
Outputs == 1..N
KeyframeWait == 1       \* the ten seconds a replacement has for its keyframe
STOP == "stop"
\* Spawns before the attachment is served: the start, and the one that follows
\* the Deck's quality settings.
Setups == {"start", "override"}

VARIABLES
    pc,       \* where the attachment's task is
    why,      \* what the current spawn or stop is for
    tries,    \* encoders left in the current spawn
    cur,      \* the child being spawned (0: none)
    kids,     \* the running handle, in start order
    todo,     \* children still to be shut down, in order
    sent,     \* the shutdown under way has sent its STOP, or given up on it
    child,    \* the processes with their pipes
    slot,     \* per output, the child its shared requesters point at
    target,   \* the rate controller's target
    applied,  \* PipelineRateSync::applied_bps
    ages,     \* CaptureRestartBudget: how long ago each restart was
    retried,  \* the resize has used its one retry
    cancelled,
    faults, replaces, targets

task == <<pc, why, tries, cur, kids, todo, sent, ages, retried, cancelled>>
captureVars == <<task, child, slot, target, applied, faults, replaces, targets>>

NoChild == [proc |-> "none", out |-> 0, idr |-> FALSE, asked |-> FALSE, box |-> <<>>,
         writer |-> FALSE, stdin |-> TRUE, rate |-> StartRate, frames |-> TRUE,
         wedged |-> FALSE]

Live(c) == child[c].proc \in {"running", "killed"}
\* Children some task still refers to keep their identity.
Free == {c \in Children : ~Live(c) /\ c \notin Range(slot)}

CaptureInit ==
    /\ pc = "launch" /\ why = "start" /\ tries = Attempts /\ cur = 0
    /\ kids = <<>> /\ todo = <<>> /\ sent = FALSE
    /\ child = [c \in Children |-> NoChild]
    /\ slot = [o \in Outputs |-> 0]
    /\ target = StartRate /\ applied = [o \in Outputs |-> StartRate]
    /\ ages = <<>> /\ retried = FALSE /\ cancelled = FALSE
    /\ faults = 0 /\ replaces = 0 /\ targets = 0

\* What is left of a child nothing refers to any more: only whether it runs.
Forgotten(c) == [NoChild EXCEPT !.proc = child[c].proc, !.out = child[c].out]

\* Time passes for the restarts on record.
Aged(d) == [i \in DOMAIN ages |-> IF ages[i] + d > Window THEN Window ELSE ages[i] + d]

Killed(cs) == [c \in Children |->
    IF c \in cs /\ child[c].proc = "running" THEN [child[c] EXCEPT !.proc = "killed"]
    ELSE child[c]]

Stop(cs, reason) ==
    /\ todo' = cs /\ why' = reason /\ sent' = FALSE /\ kids' = <<>> /\ cur' = 0
    /\ pc' = IF cs = <<>> THEN "ended" ELSE "stopping"

-----------------------------------------------------------------------------
(* Starting: capenc::spawn for the first fallback or the next one.         *)

\* spawn_one: the process is launched and its READY awaited.
Launch ==
    /\ pc = "launch"
    /\ \E c \in Free :
         LET o == IF why = "start" THEN Len(kids) + 1 ELSE 1
         IN /\ \A d \in Free : c <= d
            /\ cur' = c
            /\ child' = [child EXCEPT ![c] = [NoChild EXCEPT !.proc = "running", !.out = o]]
    /\ pc' = "spawning"
    /\ UNCHANGED <<why, tries, kids, todo, sent, slot, target, applied, ages, retried,
                   cancelled, faults, replaces, targets>>

\* Mutant: a failed start returns without stopping what it had started.
SpawnFailedUnrolled ==
    \/ /\ why = "start" /\ Stop(<<>>, "rollback") /\ UNCHANGED <<tries, retried>>
    \/ /\ why = "restart" /\ pc' = "deciding" /\ cur' = 0
       /\ UNCHANGED <<why, tries, kids, todo, sent, retried>>
    \/ /\ why \in {"override", "speed", "resize"} /\ Stop(<<>>, "teardown")
       /\ UNCHANGED <<tries, retried>>

\* What a failed spawn means to its caller: the start rolls back what it has
\* started, in reverse; a restart asks the budget again; the X11 resize tries
\* once more and the Wayland one, like the Speed replacement, gives up.
SpawnFailed ==
    \/ /\ why = "start"
       /\ Stop([i \in 1 .. Len(kids) |-> kids[Len(kids) - i + 1]], "rollback")
       /\ UNCHANGED <<tries, retried>>
    \/ /\ why = "restart" /\ pc' = "deciding" /\ cur' = 0
       /\ UNCHANGED <<why, tries, kids, todo, sent, retried>>
    \/ /\ why = "resize" /\ ~retried /\ retried' = TRUE
       /\ pc' = "launch" /\ tries' = Attempts /\ cur' = 0
       /\ UNCHANGED <<why, kids, todo, sent>>
    \/ /\ why \in {"override", "speed", "resize"} /\ Stop(<<>>, "teardown")
       /\ UNCHANGED <<tries, retried>>

\* The command could not be started at all.
LaunchFails ==
    /\ pc = "launch"
    /\ SpawnFailed
    /\ UNCHANGED <<child, slot, target, applied, ages, cancelled, faults, replaces, targets>>

\* A READY of the start: the session is stored with requesters of its own.
StartReady ==
    /\ pc = "spawning" /\ why \in Setups /\ child[cur].proc = "running"
    /\ child' = [child EXCEPT ![cur].writer = TRUE]
    /\ slot' = [slot EXCEPT ![Len(kids) + 1] = cur]
    /\ kids' = Append(kids, cur)
    /\ pc' = IF Len(kids) + 1 = N THEN "setup" ELSE "launch"
    /\ tries' = Attempts /\ cur' = 0
    /\ UNCHANGED <<why, todo, sent, target, applied, ages, retried, cancelled,
                   faults, replaces, targets>>

\* A READY of a replacement that keeps geometry and contract: the requesters
\* follow the new child, its frames are pumped and a keyframe is asked for.
ReplacementReady ==
    /\ pc = "spawning" /\ why \notin Setups /\ child[cur].proc = "running"
    /\ \E d \in {0, SlowStart} : ages' = Aged(d)
    /\ child' = [child EXCEPT ![cur].writer = TRUE, ![cur].idr = TRUE, ![cur].asked = TRUE,
                              ![slot[1]] = Forgotten(slot[1])]
    /\ slot' = [slot EXCEPT ![1] = cur]
    /\ pc' = "keyframe"
    /\ UNCHANGED <<why, tries, cur, kids, todo, sent, target, applied, retried, cancelled,
                   faults, replaces, targets>>

\* A READY of a replacement that changed geometry or contract.
ReplacementMismatch ==
    /\ pc = "spawning" /\ why \notin Setups /\ child[cur].proc = "running"
    /\ child' = [child EXCEPT ![cur].writer = TRUE]
    /\ Stop(<<cur>>, IF why = "restart" THEN why ELSE "teardown")
    /\ UNCHANGED <<tries, slot, target, applied, ages, retried, cancelled, faults,
                   replaces, targets>>

\* UNAVAILABLE, another error, an early exit or the READY timeout: the child is
\* killed. Only UNAVAILABLE moves on to the next encoder.
NotReady(unavailable) ==
    /\ pc = "spawning"
    /\ child' = Killed({cur})
    /\ tries' = IF unavailable THEN tries - 1 ELSE 0
    /\ \E d \in IF unavailable THEN {0} ELSE {0, SlowStart} : ages' = Aged(d)
    /\ pc' = "reaping"
    /\ UNCHANGED <<why, cur, kids, todo, sent, slot, target, applied, retried, cancelled,
                   faults, replaces, targets>>

\* child.wait() returned.
Reaped ==
    /\ pc = "reaping" /\ child[cur].proc = "gone"
    /\ child' = [child EXCEPT ![cur] = NoChild]
    /\ IF tries > 0
       THEN /\ pc' = "launch" /\ cur' = 0
            /\ UNCHANGED <<why, tries, kids, todo, sent, retried>>
       ELSE SpawnFailed
    /\ UNCHANGED <<slot, target, applied, ages, cancelled, faults, replaces, targets>>

\* Every check between the last READY and the loop passed.
SetupOk ==
    /\ pc = "setup" /\ pc' = "streaming"
    /\ UNCHANGED <<why, tries, cur, kids, todo, sent, child, slot, target, applied, ages,
                   retried, cancelled, faults, replaces, targets>>

\* One of them failed: whatever was started is shut down, in order.
SetupFails ==
    /\ pc = "setup"
    /\ Stop(kids, "rollback")
    /\ UNCHANGED <<tries, child, slot, target, applied, ages, retried, cancelled, faults,
                   replaces, targets>>

\* The Deck's quality settings ask for another plan: the single capture is shut
\* down and started again.
Override ==
    /\ pc = "setup" /\ N = 1 /\ replaces < MaxReplaces /\ replaces' = replaces + 1
    /\ Stop(kids, "override")
    /\ UNCHANGED <<tries, child, slot, target, applied, ages, retried, cancelled, faults,
                   targets>>

-----------------------------------------------------------------------------
(* The attachment's loop.                                                  *)

\* A pump whose child's frame channel closed. A single capture is replaced; of
\* several, any one closes the mux and the attachment ends.
PumpEnds ==
    /\ pc = "streaming"
    /\ \E c \in Range(kids) : ~child[c].frames
    /\ Stop(kids, IF N = 1 THEN "restart" ELSE "teardown")
    /\ UNCHANGED <<tries, child, slot, target, applied, ages, retried, cancelled,
                   faults, replaces, targets>>

\* The Speed guard's verdict or a resize: the pump is aborted and the writer
\* drained before the old child is shut down.
Replace(reason) ==
    /\ pc = "streaming" /\ N = 1 /\ replaces < MaxReplaces
    /\ replaces' = replaces + 1
    /\ \E drained \in BOOLEAN : Stop(kids, IF drained THEN reason ELSE "teardown")
    /\ retried' = FALSE
    /\ UNCHANGED <<tries, child, slot, target, applied, ages, cancelled, faults, targets>>

\* Any other arm of the loop.
EndAttachment ==
    /\ pc = "streaming"
    /\ Stop(kids, "teardown")
    /\ UNCHANGED <<tries, child, slot, target, applied, ages, retried, cancelled,
                   faults, replaces, targets>>

\* A served attachment grows older.
Serve ==
    /\ pc = "streaming" /\ ages # Aged(1)
    /\ ages' = Aged(1)
    /\ UNCHANGED <<pc, why, tries, cur, kids, todo, sent, child, slot, target, applied,
                   retried, cancelled, faults, replaces, targets>>

\* shutdown_child: STOP goes through the mailbox and waits for room in it; a
\* writer that is gone refuses it at once.
SendStop ==
    /\ pc = "stopping" /\ ~sent
    /\ LET c == Head(todo) IN
         /\ child[c].writer => Len(child[c].box) < Cap
         /\ child' = IF child[c].writer THEN [child EXCEPT ![c].box = Append(@, STOP)]
                     ELSE child
    /\ sent' = TRUE
    /\ UNCHANGED <<pc, why, tries, cur, kids, todo, slot, target, applied, ages, retried,
                   cancelled, faults, replaces, targets>>

\* Mutant: the graceful stop is waited for without a limit.
StopTimeoutNever == FALSE /\ UNCHANGED captureVars

\* Two seconds passed without an exit.
StopTimeout ==
    /\ pc = "stopping" /\ child[Head(todo)].proc = "running"
    /\ child' = Killed({Head(todo)})
    /\ sent' = TRUE
    /\ UNCHANGED <<pc, why, tries, cur, kids, todo, slot, target, applied, ages, retried,
                   cancelled, faults, replaces, targets>>

\* Where the task goes once the last child is down. The resize then changes the
\* display, which may fail.
AfterStop ==
    \/ /\ why \in {"rollback", "teardown", "resize"} /\ pc' = "ended"
       /\ UNCHANGED tries
    \/ /\ why = "restart" /\ pc' = "deciding" /\ UNCHANGED tries
    \/ /\ why \in {"override", "speed", "resize"} /\ pc' = "launch" /\ tries' = Attempts

\* The child exited and its session is dropped.
Stopped ==
    /\ pc = "stopping" /\ sent /\ child[Head(todo)].proc = "gone"
    /\ todo' = Tail(todo) /\ sent' = FALSE
    /\ IF Len(todo) = 1 THEN AfterStop ELSE UNCHANGED <<pc, tries>>
    /\ child' = IF Head(todo) \in Range(slot) THEN child
                ELSE [child EXCEPT ![Head(todo)] = NoChild]
    /\ UNCHANGED <<why, cur, kids, slot, target, applied, ages, retried, cancelled,
                   faults, replaces, targets>>

\* CaptureRestartBudget::on_epoch_ended, and a last look at whether the Wayland
\* desktop is still there.
Decide ==
    /\ pc = "deciding"
    /\ LET recent == SelectSeq(ages, LAMBDA a : a < Window)
       IN \/ /\ Len(recent) >= Budget
             /\ pc' = "ended" /\ ages' = recent /\ UNCHANGED tries
          \/ /\ Len(recent) < Budget
             /\ ages' = Append(recent, 0)
             /\ pc' \in {"launch", "ended"} /\ tries' = Attempts
    /\ UNCHANGED <<why, cur, kids, todo, sent, child, slot, target, applied, retried,
                   cancelled, faults, replaces, targets>>

\* The replacement's recovery frame is pinned and its generation activated.
KeyframeArrives ==
    /\ pc = "keyframe" /\ child[cur].frames
    /\ kids' = <<cur>> /\ cur' = 0 /\ pc' = "streaming"
    /\ UNCHANGED <<why, tries, todo, sent, child, slot, target, applied, ages, retried,
                   cancelled, faults, replaces, targets>>

\* Its frames ended, or ten seconds passed without one.
KeyframeMissing ==
    /\ pc = "keyframe"
    /\ ages' = IF child[cur].frames THEN Aged(KeyframeWait) ELSE ages
    /\ Stop(<<cur>>, IF why = "restart" THEN why ELSE "teardown")
    /\ UNCHANGED <<tries, child, slot, target, applied, retried, cancelled, faults,
                   replaces, targets>>

\* The service gives up waiting for its connections and aborts their tasks:
\* every child the task holds is dropped, which only sends the kill.
Cancel ==
    /\ pc # "ended" /\ ~cancelled
    /\ child' = Killed(Range(kids) \cup Range(todo) \cup {cur})
    /\ cancelled' = TRUE /\ pc' = "ended" /\ kids' = <<>> /\ todo' = <<>> /\ cur' = 0
    /\ UNCHANGED <<why, tries, sent, slot, target, applied, ages, retried, faults,
                   replaces, targets>>

-----------------------------------------------------------------------------
(* The tasks beside it, and the processes.                                 *)

Rest == UNCHANGED <<task, slot, target, applied, replaces, targets>>

\* The dispatcher and the rate task run from the end of the setup.
Serving == pc = "streaming" \/ (pc # "ended" /\ why \notin Setups \cup {"rollback"})

\* The dispatcher or a full queue asks the child behind an output's requester
\* for a keyframe; a writer that is gone refuses.
RequestIdr(o) ==
    /\ Serving /\ child[slot[o]].writer
    /\ child' = [child EXCEPT ![slot[o]].idr = TRUE, ![slot[o]].asked = TRUE]
    /\ UNCHANGED faults /\ Rest

\* Can output o's requester accept a command?
Accepts(o) == child[slot[o]].writer /\ Len(child[slot[o]].box) < Cap

\* One second of the rate task: the controller's target, then every pipeline
\* that is behind it is sent it.
RateTick(r) ==
    /\ Serving
    /\ r # target => targets < MaxTargets
    /\ targets' = IF r = target THEN targets ELSE targets + 1
    /\ target' = r
    /\ LET landed == {o \in Outputs : applied[o] # r /\ Accepts(o)}
       IN /\ r # target \/ landed # {}
          /\ applied' = [o \in Outputs |-> IF o \in landed THEN r ELSE applied[o]]
          /\ child' = [c \in Children |->
                IF \E o \in landed : slot[o] = c
                THEN [child[c] EXCEPT !.box = Append(@, r)] ELSE child[c]]
    /\ UNCHANGED <<task, slot, faults, replaces>>

\* write_stdin takes a keyframe request.
WriteIdr(c) ==
    /\ child[c].writer /\ child[c].idr /\ child[c].proc = "running"
    /\ child' = [child EXCEPT ![c].idr = FALSE, ![c].asked = child[c].wedged]
    /\ UNCHANGED faults /\ Rest

\* write_stdin takes a command; a wedged child never reads it. STOP is the
\* last: the pipe is closed behind it.
WriteCommand(c) ==
    /\ child[c].writer /\ child[c].box # <<>> /\ child[c].proc = "running"
    /\ LET cmd == Head(child[c].box)
       IN child' = [child EXCEPT ![c].box = IF cmd = STOP THEN <<>> ELSE Tail(@),
                                 ![c].writer = cmd # STOP, ![c].stdin = cmd # STOP,
                                 ![c].rate = IF cmd = STOP \/ child[c].wedged THEN @ ELSE cmd]
    /\ UNCHANGED faults /\ Rest

\* A write to a child that is gone fails and ends the writer.
StdinWriterEnds(c) ==
    /\ child[c].writer /\ child[c].proc = "gone"
    /\ child[c].idr \/ child[c].box # <<>>
    /\ child' = [child EXCEPT ![c].writer = FALSE, ![c].box = <<>>, ![c].idr = FALSE]
    /\ UNCHANGED faults /\ Rest

\* The child reads STOP, or the end of its input, and exits.
ChildExits(c) ==
    /\ child[c].proc = "running" /\ ~child[c].stdin /\ ~child[c].wedged
    /\ child' = [child EXCEPT ![c].proc = "gone"]
    /\ UNCHANGED faults /\ Rest

\* The kernel ends a killed child.
KillLands(c) ==
    /\ child[c].proc = "killed"
    /\ child' = [child EXCEPT ![c].proc = "gone"]
    /\ UNCHANGED faults /\ Rest

\* read_stdout reaches the end of a gone child's frames.
FramesEnd(c) ==
    /\ child[c].proc = "gone" /\ child[c].frames
    /\ child' = [child EXCEPT ![c].frames = FALSE]
    /\ UNCHANGED faults /\ Rest

\* Faults: the child dies, writes a frame that cannot be read, or hangs.
Fails(c) ==
    /\ child[c].proc = "running" /\ faults < MaxFaults /\ faults' = faults + 1
    /\ \/ child' = [child EXCEPT ![c].proc = "gone"]
       \/ child' = [child EXCEPT ![c].frames = FALSE]
       \/ child' = [child EXCEPT ![c].wedged = TRUE]
    /\ Rest

-----------------------------------------------------------------------------
SpawnStep == Launch \/ LaunchFails
ReadyStep == \/ StartReady \/ ReplacementReady \/ ReplacementMismatch
             \/ \E u \in BOOLEAN : NotReady(u)
SetupStep == SetupOk \/ SetupFails \/ Override
KeyframeStep == KeyframeArrives \/ KeyframeMissing

CaptureNext ==
    \/ SpawnStep \/ ReadyStep \/ Reaped \/ SetupStep
    \/ PumpEnds \/ Replace("speed") \/ Replace("resize") \/ EndAttachment \/ Serve
    \/ SendStop \/ StopTimeout \/ Stopped \/ Decide \/ KeyframeStep \/ Cancel
    \/ \E o \in Outputs : RequestIdr(o)
    \/ \E r \in Rates : RateTick(r)
    \/ \E c \in Children :
         \/ WriteIdr(c) \/ WriteCommand(c) \/ StdinWriterEnds(c) \/ ChildExits(c)
         \/ KillLands(c) \/ FramesEnd(c) \/ Fails(c)

CaptureSpec == CaptureInit /\ [][CaptureNext]_captureVars

\* Every await of the task has a timeout or an event that comes, the rate task
\* ticks, and a select! picks each ready branch sooner or later. A wedged
\* child, a resize, an end of the attachment and a cancellation owe nothing.
Fairness ==
    /\ WF_captureVars(SpawnStep) /\ WF_captureVars(ReadyStep) /\ WF_captureVars(Reaped)
    /\ WF_captureVars(SetupStep) /\ WF_captureVars(PumpEnds) /\ WF_captureVars(SendStop)
    /\ WF_captureVars(StopTimeout) /\ WF_captureVars(Stopped) /\ WF_captureVars(Decide)
    /\ WF_captureVars(KeyframeStep)
    /\ WF_captureVars(\E r \in Rates : r = target /\ RateTick(r))
    /\ \A c \in Children :
         /\ SF_captureVars(~child[c].wedged /\ WriteIdr(c))
         /\ SF_captureVars(~child[c].wedged /\ WriteCommand(c))
         /\ WF_captureVars(StdinWriterEnds(c)) /\ WF_captureVars(ChildExits(c))
         /\ WF_captureVars(KillLands(c)) /\ WF_captureVars(FramesEnd(c))

FairSpec == CaptureSpec /\ Fairness

-----------------------------------------------------------------------------
(* Properties.                                                             *)

\* An attachment that returned, because its start failed or it was torn down,
\* has left no process behind, unless its task was cancelled under it.
EndedLeavesNone ==
    pc = "ended" /\ ~cancelled => \A c \in Children : ~Live(c)

\* A capture that stopped is either served again or ends the attachment.
ResumesOrEnds == [](pc \in {"stopping", "deciding", "keyframe"} => <>(pc \in {"streaming", "ended"}))

\* A target the controller keeps reaches every capture that goes on running.
TargetReaches ==
    <>[](pc = "streaming") =>
      <>[](\A c \in Range(kids) :
             child[c].proc = "running" /\ ~child[c].wedged => child[c].rate = target)

=============================================================================
