--------------------------- MODULE DirectReconnect ---------------------------
(***************************************************************************)
(* ReconnectMachine coupled with a host that carries each directive out at   *)
(* once (variable host) and with timer callbacks that may arrive late, early *)
(* or after they were cancelled.  Time is counted in ticks; a tick stands    *)
(* for any number of milliseconds.                                           *)
(***************************************************************************)
EXTENDS ReconnectMachine

CONSTANT MaxTime  \* the clock stops here (bounds the model)

ASSUME TimeAssumption == MaxTime \in Nat

VARIABLES machine,  \* DirectReconnect: phase, deadline, timer generation, next generation
          now,      \* the host's monotonic clock
          host      \* what the emitted directives have done so far

vars == <<machine, now, host>>

-----------------------------------------------------------------------------
(* The host that carries the directives out. *)

Hosts == [media : {"running", "stopped"}, timers : SUBSET [deadline : Nat, generation : Generations],
          restores : Nat, revokes : Nat]

\* Cancelling a timer drops every armed timer of that generation; arming adds one.
Rearm(timers, timer) ==
    IF timer.op = "Arm"
    THEN timers \union {[deadline |-> timer.deadline, generation |-> timer.generation]}
    ELSE {t \in timers : ~(timer.op = "Cancel" /\ t.generation = timer.generation)}

Perform(h, out) ==
    [media |-> IF "start_media" \in out.do THEN "running"
               ELSE IF "stop_media" \in out.do THEN "stopped" ELSE h.media,
     timers |-> Rearm(h.timers, out.timer),
     restores |-> h.restores + (IF "restore_leases" \in out.do THEN 1 ELSE 0),
     revokes |-> h.revokes + (IF "revoke_grant" \in out.do THEN 1 ELSE 0)]

Step(event) ==
    LET out == Apply(machine, event, now) IN
    /\ machine' = out.machine
    /\ host' = Perform(host, out)
    /\ UNCHANGED now

Init ==
    /\ machine = New
    /\ now = 0
    /\ host = [media |-> "running", timers |-> {}, restores |-> 0, revokes |-> 0]

\* A loss is only modelled while its whole window still fits under MaxTime.
UnexpectedLoss == now + Window <= MaxTime /\ Step(Event("UnexpectedLoss"))
Terminate == \E kind \in TerminalEvents : Step(Event(kind))
BeginResume == Step(Event("BeginResume"))
ResumeAccepted == Step(Event("ResumeAccepted"))
ResumeFailed == Step(Event("ResumeFailed"))
\* A callback of any timer ever armed, however late or early.
TimerCallback == \E g \in 1 .. machine.next : Step(DeadlineReached(g))
DrainComplete == Step(Event("DrainComplete"))
Tick == now < MaxTime /\ now' = now + 1 /\ UNCHANGED <<machine, host>>

Next == \/ UnexpectedLoss
        \/ Terminate
        \/ BeginResume
        \/ ResumeAccepted
        \/ ResumeFailed
        \/ TimerCallback
        \/ DrainComplete
        \/ Tick

Spec == Init /\ [][Next]_vars

-----------------------------------------------------------------------------
(* Properties. *)

TypeOK ==
    /\ machine \in Machines
    /\ now \in Nat
    /\ host \in Hosts

\* Media runs exactly while a transport is attached: detach and drain stop it,
\* and only an accepted resume restarts it (stop_media, start_media).
MediaFollowsPhase == host.media = "running" <=> machine.phase \in {"Disabled", "Attached"}

\* Exactly one timer is armed while the session waits for a resume, it carries
\* the deadline and generation the machine will compare, and none is left
\* behind by an accepted resume or a drain (Arm and Cancel directives).
TimerFollowsPhase ==
    host.timers = IF Waiting(machine)
                  THEN {[deadline |-> machine.deadline, generation |-> machine.generation]}
                  ELSE {}

\* However many terminal events, late callbacks and failed resumes arrive, the
\* restore leases are executed and the grant revoked once, by the drain.
DrainsOnce ==
    LET drained == IF machine.phase \in {"Draining", "Closed"} THEN 1 ELSE 0 IN
    host.restores = drained /\ host.revokes = drained

\* A resume that fails, or a callback of an earlier timer, never moves the
\* deadline the loss anchored.
DeadlineNeverMoves ==
    [][Waiting(machine) /\ Waiting(machine') =>
          /\ machine'.deadline = machine.deadline
          /\ machine'.generation = machine.generation]_vars

\* Re-attachment happens strictly before the deadline, and an attached session
\* cannot be drained by the callback of a timer that a resume cancelled.
ResumesBeforeDeadline ==
    [][machine.phase = "Resuming" /\ machine'.phase = "Attached" => now < machine.deadline]_vars

\* A timer callback drains only a session whose own deadline has passed.
CallbackDrainsOnlyExpired ==
    [][TimerCallback /\ machine' # machine => Waiting(machine) /\ now >= machine.deadline]_vars

\* A detached session does not wait forever: it is re-attached or drained.
WaitingEnds == Waiting(machine) ~> ~Waiting(machine)
=============================================================================
