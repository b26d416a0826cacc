--------------------------- MODULE ReconnectProofs ---------------------------
(***************************************************************************)
(* Proofs about both ends of a reconnect: the machine the hosts share with   *)
(* the host that carries its directives out (DirectReconnect), for every     *)
(* window, every width of the generation counter and every clock bound; and  *)
(* the Deck's controller (DeckReconnect), for any windows, limits and        *)
(* back-offs, whatever the host does and however late a frame sees it.       *)
(***************************************************************************)
EXTENDS DirectReconnect, DeckReconnect, TLAPS

-----------------------------------------------------------------------------
(* The hosts' machine. *)

\* The effects of the directives agree with the phase; inductive as it stands.
EffectsFollowPhase == MediaFollowsPhase /\ TimerFollowsPhase /\ DrainsOnce
IInv == TypeOK /\ EffectsFollowPhase

Resumed(m) == Outcome([m EXCEPT !.phase = "Resuming"], {}, NoTimer)
ResumeTaken(m) == Outcome(Leave(m, "Attached"), {"start_media", "reset_input", "rotate_grant"},
                       Cancel(m.generation))
Completed(m) == Outcome([m EXCEPT !.phase = "Closed"], {}, NoTimer)
Ignored(m) == Outcome(m, {}, NoTimer)

\* The outcomes the match of DirectReconnect::apply can produce, each with the
\* conditions the properties need.
Outcomes(m, e, t, out) ==
    \/ out = Detach(m, t) /\ m.phase = "Attached" /\ e.kind = "UnexpectedLoss"
    \/ out = BeginDrain(m) /\ Drainable(m)
         /\ (e.kind = "DeadlineReached" => Waiting(m) /\ Expired(m, t))
    \/ out = Resumed(m) /\ m.phase = "Detached" /\ e.kind = "BeginResume"
    \/ out = ResumeTaken(m) /\ m.phase = "Resuming" /\ e.kind = "ResumeAccepted" /\ ~Expired(m, t)
    \/ out = Redetach(m) /\ m.phase = "Resuming" /\ e.kind = "ResumeFailed"
    \/ out = Completed(m) /\ m.phase = "Draining" /\ e.kind = "DrainComplete"
    \/ out = Ignored(m)

\* Every result of apply is one of those outcomes.
LEMMA ApplyOutcomes ==
  ASSUME NEW m \in Machines, NEW e, NEW t \in Nat
  PROVE  Outcomes(m, e, t, Apply(m, e, t))
<1> USE DEF Drainable, Waiting, TerminalEvents, ResumeEvents, TimerDue, DeadlineReached
<1>1. m.phase \in Phases
  BY DEF Machines
<1> QED
  BY <1>1 DEF Apply, Outcomes, Phases, Resumed, ResumeTaken, Completed, Ignored

\* The initial state satisfies the inductive invariant: DirectReconnect::new
\* starts with media running, no timer and nothing drained.
LEMMA InitIInv == Init => IInv
  BY WindowAssumption, GenerationAssumption
  DEF Init, IInv, TypeOK, EffectsFollowPhase, MediaFollowsPhase, TimerFollowsPhase,
      DrainsOnce, New, Machines, Phases, Generations, Hosts, Waiting

\* One event, whatever it is, preserves the invariant: apply and the host that
\* performs its directives keep media, timer and drain counts with the phase.
LEMMA StepIInv ==
  ASSUME IInv, NEW e, Step(e)
  PROVE  IInv'
<1> DEFINE out == Apply(machine, e, now)
<1>1. /\ machine \in Machines /\ now \in Nat /\ host \in Hosts
      /\ MediaFollowsPhase /\ TimerFollowsPhase /\ DrainsOnce
  BY DEF IInv, TypeOK, EffectsFollowPhase
<1>2. machine' = out.machine /\ host' = Perform(host, out) /\ now' = now
  BY DEF Step
<1>3. Outcomes(machine, e, now, out)
  BY <1>1, ApplyOutcomes
<1> HIDE DEF out
<1> USE DEF Outcome, Machines, Generations, Hosts
<1>4. machine.next \in 1 .. MaxGeneration /\ machine.generation \in Generations
      /\ machine.deadline \in Nat /\ machine.phase \in Phases
  BY <1>1
<1> DEFINE Effects == /\ MediaFollowsPhase /\ TimerFollowsPhase /\ DrainsOnce
<1>5. ASSUME machine' \in Machines, host' \in Hosts, Effects'  PROVE IInv'
  BY <1>1, <1>2, <1>5 DEF IInv, TypeOK, EffectsFollowPhase
<1> USE DEF MediaFollowsPhase, TimerFollowsPhase, DrainsOnce, Waiting
<1>6. CASE out = Detach(machine, now) /\ machine.phase = "Attached"
  <2>1. /\ machine'.phase = "Detached" /\ machine'.deadline = now + Window
        /\ machine'.generation = machine.next /\ machine' \in Machines
    BY <1>1, <1>2, <1>4, <1>6, WindowAssumption, GenerationAssumption DEF Detach, Phases
  <2>2. /\ host'.media = "stopped" /\ host'.restores = host.restores /\ host'.revokes = host.revokes
        /\ host'.timers = host.timers \union {[deadline |-> now + Window, generation |-> machine.next]}
    BY <1>1, <1>2, <1>6 DEF Detach, Perform, Rearm, Arm
  <2>3. host' \in Hosts
    BY SMTT(60), <1>1, <1>2, <1>4, <2>2, WindowAssumption DEF Perform
  <2> QED
    BY <1>1, <1>5, <1>6, <2>1, <2>2, <2>3
<1>7. CASE out = BeginDrain(machine) /\ Drainable(machine)
  <2>1. machine'.phase = "Draining" /\ machine' \in Machines
    BY <1>1, <1>2, <1>4, <1>7, GenerationAssumption DEF BeginDrain, Leave, Phases
  <2>2. /\ host'.media = "stopped" /\ host'.restores = host.restores + 1
        /\ host'.revokes = host.revokes + 1 /\ host'.timers = {}
    BY <1>1, <1>2, <1>7 DEF BeginDrain, Perform, Rearm, Cancel, NoTimer
  <2>3. host' \in Hosts
    <3>1. host.restores \in Nat /\ host.revokes \in Nat
      BY <1>1
    <3>2. host' = [media |-> host'.media, timers |-> host'.timers,
                   restores |-> host'.restores, revokes |-> host'.revokes]
      BY <1>2 DEF Perform
    <3> QED
      BY <2>2, <3>1, <3>2
  <2> QED
    BY <1>1, <1>5, <1>7, <2>1, <2>2, <2>3 DEF Drainable
<1>8. CASE out = ResumeTaken(machine) /\ machine.phase = "Resuming"
  <2>1. machine'.phase = "Attached" /\ machine' \in Machines
    BY <1>1, <1>2, <1>4, <1>8, GenerationAssumption DEF ResumeTaken, Leave, Phases
  <2>2. /\ host'.media = "running" /\ host'.restores = host.restores
        /\ host'.revokes = host.revokes /\ host'.timers = {}
    BY <1>1, <1>2, <1>8 DEF ResumeTaken, Perform, Rearm, Cancel
  <2>3. host' \in Hosts
    BY <1>1, <1>2, <2>2 DEF Perform
  <2> QED
    BY <1>1, <1>5, <1>8, <2>1, <2>2, <2>3
<1>9. CASE out \in {Resumed(machine), Redetach(machine)} /\ Waiting(machine)
  <2>1. /\ Waiting(machine)' /\ machine' \in Machines
        /\ machine'.deadline = machine.deadline /\ machine'.generation = machine.generation
    BY <1>1, <1>2, <1>4, <1>9 DEF Resumed, Redetach, Phases
  <2>2. host' = host
    BY <1>1, <1>2, <1>9 DEF Resumed, Redetach, Perform, Rearm, NoTimer
  <2> QED
    BY <1>1, <1>5, <1>9, <2>1, <2>2
<1>10. CASE out = Completed(machine) /\ machine.phase = "Draining"
  <2>1. machine'.phase = "Closed" /\ machine' \in Machines
    BY <1>1, <1>2, <1>4, <1>10 DEF Completed, Phases
  <2>2. host' = host
    BY <1>1, <1>2, <1>10 DEF Completed, Perform, Rearm, NoTimer
  <2> QED
    BY <1>1, <1>5, <1>10, <2>1, <2>2
<1>11. CASE out = Ignored(machine)
  <2>1. machine' = machine
    BY <1>2, <1>11 DEF Ignored
  <2>2. host' = host
    BY <1>1, <1>2, <1>11 DEF Ignored, Perform, Rearm, NoTimer
  <2> QED
    BY <1>1, <1>5, <2>1, <2>2
<1> QED
  BY <1>3, <1>6, <1>7, <1>8, <1>9, <1>10, <1>11 DEF Outcomes

\* Every step of the specification preserves the invariant.
LEMMA NextIInv == IInv /\ [Next]_vars => IInv'
<1> SUFFICES ASSUME IInv, [Next]_vars PROVE IInv'
  OBVIOUS
<1>1. CASE \E e : Step(e)
  BY <1>1, StepIInv
<1>2. CASE Tick
  BY <1>2 DEF Tick, IInv, TypeOK, EffectsFollowPhase, MediaFollowsPhase, TimerFollowsPhase,
              DrainsOnce, Waiting
<1>3. CASE UNCHANGED vars
  BY <1>3 DEF vars, IInv, TypeOK, EffectsFollowPhase, MediaFollowsPhase, TimerFollowsPhase,
              DrainsOnce, Waiting
<1> QED
  BY <1>1, <1>2, <1>3 DEF Next, UnexpectedLoss, Terminate, BeginResume, ResumeAccepted,
     ResumeFailed, TimerCallback, DrainComplete

\* The type invariant and the agreement of media, timer and drain counts with
\* the phase hold in every reachable state.
THEOREM EffectsCorrect == Spec => []IInv
  BY InitIInv, NextIInv, PTL DEF Spec

\* Type correctness of the machine, the clock and the host.
THEOREM TypeCorrect == Spec => []TypeOK
<1>1. IInv => TypeOK
  BY DEF IInv
<1> QED
  BY <1>1, EffectsCorrect, PTL

\* Whatever order terminal events, resumes and late timer callbacks arrive in,
\* the restore leases run once and the grant is revoked once.
THEOREM DrainsOnceCorrect == Spec => []DrainsOnce
<1>1. IInv => DrainsOnce
  BY DEF IInv, EffectsFollowPhase
<1> QED
  BY <1>1, EffectsCorrect, PTL

\* The one armed timer always carries the deadline and generation the machine
\* compares, and no timer outlives the wait.
THEOREM TimerCorrect == Spec => []TimerFollowsPhase
<1>1. IInv => TimerFollowsPhase
  BY DEF IInv, EffectsFollowPhase
<1> QED
  BY <1>1, EffectsCorrect, PTL

\* What one event may do to the machine, stated once for the action properties.
LEMMA StepMachine ==
  ASSUME IInv, NEW e, Step(e)
  PROVE  /\ Waiting(machine) /\ Waiting(machine') =>
               machine'.deadline = machine.deadline /\ machine'.generation = machine.generation
         /\ machine.phase = "Resuming" /\ machine'.phase = "Attached" => now < machine.deadline
         /\ e.kind = "DeadlineReached" /\ machine' # machine =>
               Waiting(machine) /\ now >= machine.deadline
<1> DEFINE out == Apply(machine, e, now)
<1>1. machine \in Machines /\ now \in Nat
  BY DEF IInv, TypeOK
<1>2. machine' = out.machine
  BY DEF Step
<1>3. Outcomes(machine, e, now, out)
  BY <1>1, ApplyOutcomes
<1>4. machine.deadline \in Nat
  BY <1>1 DEF Machines
<1> HIDE DEF out
<1> QED
  BY <1>1, <1>2, <1>3, <1>4
  DEF Outcomes, Outcome, Detach, BeginDrain, Resumed, ResumeTaken, Redetach, Completed, Ignored,
      Leave, Waiting, Expired, Machines

\* A failed resume or a stale callback never moves the deadline.
THEOREM DeadlineCorrect == Spec => DeadlineNeverMoves
<1>1. IInv /\ [Next]_vars =>
        [Waiting(machine) /\ Waiting(machine') =>
            /\ machine'.deadline = machine.deadline
            /\ machine'.generation = machine.generation]_vars
  BY StepMachine
  DEF Next, UnexpectedLoss, Terminate, BeginResume, ResumeAccepted, ResumeFailed,
      TimerCallback, DrainComplete, Tick, vars
<1> QED
  BY <1>1, EffectsCorrect, PTL DEF Spec, DeadlineNeverMoves

\* Re-attachment happens strictly before the deadline.
THEOREM ResumeCorrect == Spec => ResumesBeforeDeadline
<1>1. IInv /\ [Next]_vars =>
        [machine.phase = "Resuming" /\ machine'.phase = "Attached" => now < machine.deadline]_vars
  BY StepMachine
  DEF Next, UnexpectedLoss, Terminate, BeginResume, ResumeAccepted, ResumeFailed,
      TimerCallback, DrainComplete, Tick, vars
<1> QED
  BY <1>1, EffectsCorrect, PTL DEF Spec, ResumesBeforeDeadline

\* A timer callback drains only a session whose own deadline has passed, also
\* when the generation counter is saturated and callbacks share a generation.
THEOREM CallbackCorrect == Spec => CallbackDrainsOnlyExpired
<1>1. IInv /\ [Next]_vars =>
        [TimerCallback /\ machine' # machine => Waiting(machine) /\ now >= machine.deadline]_vars
  <2> SUFFICES ASSUME IInv, TimerCallback, machine' # machine
               PROVE  Waiting(machine) /\ now >= machine.deadline
    OBVIOUS
  <2>1. PICK g \in 1 .. machine.next : Step(DeadlineReached(g))
    BY DEF TimerCallback
  <2>2. DeadlineReached(g).kind = "DeadlineReached"
    BY DEF DeadlineReached
  <2> QED
    BY <2>1, <2>2, StepMachine
<1> QED
  BY <1>1, EffectsCorrect, PTL DEF Spec, CallbackDrainsOnlyExpired

-----------------------------------------------------------------------------
(* The Deck's controller. *)

Kinds == {"Initial", "Resume"}
Tasks == [pc : {"none", "connecting", "offered", "streaming", "ended"}, kind : Kinds,
          deadline : Int, end : {"none", "lost", "deadline", "terminal"}, at : Int]
Offers == [kind : {"none", "Refresh"} \cup Kinds, grant : Nat, window : Nat]

\* A controller's fields, and a deadline exactly while it is detached.
Controller(c) ==
    /\ c = [phase |-> c.phase, grant |-> c.grant, window |-> c.window,
            detachedAt |-> c.detachedAt, deadline |-> c.deadline, retry |-> c.retry,
            next |-> c.next]
    /\ c.phase \in {"Connected", "Reconnecting", "Resuming"}
    /\ c.window \in Nat /\ c.deadline \in Int
    /\ c.phase = "Connected" <=> c.deadline = NoTime

\* While it waits the controller has no task, and while it resumes a task that
\* never offers an initial authentication.  It has the newest grant, unless that
\* is still waiting to be read.
DeckIInv ==
    /\ clock \in Nat /\ sent \in Nat
    /\ task \in Tasks /\ (task.pc = "ended" => task.at \in Nat)
    /\ offer \in Offers /\ (offer.window = 0 => offer.grant = 0)
    /\ offer.kind # "none" => offer.grant = received
    /\ controller # NoController =>
         /\ Controller(controller)
         /\ controller.phase = "Reconnecting" => task.pc = "none" /\ offer.kind = "none"
         /\ controller.phase = "Resuming" => task.kind = "Resume" /\ offer.kind # "Initial"
         /\ offer.kind = "none" => controller.grant = received

-----------------------------------------------------------------------------
(* The controller. *)

\* A new or freshly accepted controller is connected.
LEMMA NewConnected ==
  /\ Controller(ControllerNew) /\ ControllerNew.phase = "Connected" /\ ControllerNew.grant = 0
  /\ \A g : \A w \in Nat : /\ Controller(Accepted(g, w))
                            /\ Accepted(g, w).phase = "Connected" /\ Accepted(g, w).grant = g
<1>1. Controller(ControllerNew) /\ ControllerNew.phase = "Connected" /\ ControllerNew.grant = 0
  BY DEF Controller, ControllerNew, NoTime
<1>2. ASSUME NEW g, NEW w \in Nat
      PROVE  /\ Controller(Accepted(g, w))
             /\ Accepted(g, w).phase = "Connected" /\ Accepted(g, w).grant = g
  <2>1. PICK n : n = ControllerNew
    OBVIOUS
  <2>2. n = [phase |-> n.phase, grant |-> n.grant, window |-> n.window, detachedAt |-> n.detachedAt,
             deadline |-> n.deadline, retry |-> n.retry, next |-> n.next]
        /\ n.phase = "Connected" /\ n.deadline = NoTime
    BY <2>1 DEF ControllerNew
  <2>3. Accepted(g, w) = [n EXCEPT !.grant = g, !.window = w]
    BY <2>1 DEF Accepted
  <2>4. Accepted(g, w) = [phase |-> "Connected", grant |-> g, window |-> w,
                          detachedAt |-> n.detachedAt, deadline |-> NoTime, retry |-> n.retry,
                          next |-> n.next]
    BY Zenon, <2>2, <2>3
  <2> QED
    BY <2>4 DEF Controller, NoTime
<1> QED
  BY <1>1, <1>2

\* A scheduled retry keeps the window and the deadline, or sets it from the loss.
LEMMA Scheduled ==
  ASSUME NEW c, Controller(c), NEW t \in Nat, NEW delay, Schedule(c, t, delay) # NoController
  PROVE  LET s == Schedule(c, t, delay) IN
         /\ Controller(s) /\ s.phase = "Reconnecting" /\ s.window = c.window /\ s.grant = c.grant
         /\ s.deadline = IF c.phase = "Connected" THEN t + c.window ELSE c.deadline
<1> DEFINE d == DeadlineAt(c, t)
           at == IF c.detachedAt = NoTime THEN t ELSE c.detachedAt
           s == [phase |-> "Reconnecting", grant |-> c.grant, window |-> c.window,
                 detachedAt |-> at, deadline |-> d, retry |-> t + delay, next |-> c.next + 1]
<1>1. d = (IF c.phase = "Connected" THEN t + c.window ELSE c.deadline) /\ d \in Int /\ d # NoTime
  BY DEF Controller, DeadlineAt, NoTime
<1> HIDE DEF d, at
<1>2. Schedule(c, t, delay)
        = [c EXCEPT !.phase = "Reconnecting", !.deadline = d, !.retry = t + delay,
                    !.next = @ + 1, !.detachedAt = IF @ = NoTime THEN t ELSE @]
  BY DEF Schedule, d
<1>3. Schedule(c, t, delay) = s
  BY Zenon, <1>2 DEF Controller, at
<1> QED
  BY <1>1, <1>3 DEF Controller

\* What handle_authentication makes of the controller, if it keeps one.
LEMMA Answering ==
  ASSUME DeckIInv, controller # NoController, Answered # NoController
  PROVE  /\ Controller(Answered) /\ Answered.grant = received
         /\ \/ Answered = controller /\ offer.kind = "none"
            \/ Answered.phase = "Connected" /\ controller.phase = "Connected"
            \/ /\ Answered.phase = "Connected" /\ controller.phase # "Connected"
               /\ task.pc # "ended" /\ clock < controller.deadline
<1>1. offer.window \in Nat /\ Controller(controller)
  BY DEF DeckIInv, Offers
<1>2. CASE offer.kind = "none"
  BY <1>1, <1>2 DEF Answered, DeckIInv
<1>3. CASE offer.kind = "Refresh"
  <2>1. Answered = AcceptRefresh(controller, offer.grant, offer.window)
    BY <1>3 DEF Answered, Answer
  <2>2. controller.phase = "Connected"
        /\ Answered = [controller EXCEPT !.grant = offer.grant, !.window = offer.window,
                                         !.deadline = NoTime, !.next = 1]
    BY <2>1 DEF AcceptRefresh
  <2>3. Answered = [phase |-> "Connected", grant |-> offer.grant, window |-> offer.window,
                    detachedAt |-> controller.detachedAt, deadline |-> NoTime,
                    retry |-> controller.retry, next |-> 1]
    BY Zenon, <1>1, <2>2 DEF Controller
  <2> QED
    BY Zenon, <1>1, <1>3, <2>2, <2>3 DEF Controller, NoTime, DeckIInv
<1>4. CASE offer.kind = "Initial"
  <2>1. controller.phase = "Connected"
    BY <1>1, <1>4 DEF DeckIInv, Controller
  <2>2. offer.grant = received /\ (offer.window = 0 => received = 0)
    BY <1>4 DEF DeckIInv
  <2>3. (offer.window = 0 /\ Answered = ControllerNew) \/ Answered = Accepted(offer.grant, offer.window)
    BY <1>4 DEF Answered, Answer, AcceptInitial
  <2> QED
    BY <1>1, <2>1, <2>2, <2>3, NewConnected
<1>5. CASE offer.kind = "Resume"
  <2>1. /\ task.pc # "ended" /\ ~ControllerExpired(controller, clock)
        /\ Answered = Accepted(offer.grant, offer.window)
    BY <1>5 DEF Answered, Answer, AcceptResume
  <2>2. controller.phase # "Connected" => clock < controller.deadline
    BY <1>1, <2>1 DEF ControllerExpired, Controller, DeckIInv
  <2>3. offer.grant = received
    BY <1>5 DEF DeckIInv
  <2> QED
    BY <1>1, <2>1, <2>2, <2>3, NewConnected
<1> QED
  BY <1>2, <1>3, <1>4, <1>5 DEF DeckIInv, Offers, Kinds

-----------------------------------------------------------------------------
(* The steps. *)

\* A task that was just started.
LEMMA Starts ==
  ASSUME NEW kind \in Kinds, NEW d \in Int
  PROVE  /\ Task(kind, d) \in Tasks
         /\ Task(kind, d).pc = "connecting" /\ Task(kind, d).kind = kind
<1>1. PICK n : n = NoTask
  OBVIOUS
<1>2. n \in Tasks
  BY <1>1 DEF NoTask, Tasks, Kinds, NoTime
<1>3. Task(kind, d) = [n EXCEPT !.pc = "connecting", !.kind = kind, !.deadline = d]
  BY <1>1 DEF Task
<1> QED
  BY Zenon, <1>2, <1>3 DEF Tasks

\* Credentials are asked for: nothing is left of the session.
LEMMA Returned ==
  ASSUME DeckIInv, ReturnToCredentials, UNCHANGED <<clock, sent>>
  PROVE  DeckIInv' /\ DeadlineBinds
<1>1. NoTask \in Tasks /\ NoTask.pc = "none"
      /\ NoOffer \in Offers /\ NoOffer.kind = "none" /\ NoOffer.grant = 0
  BY DEF NoTask, Tasks, NoOffer, Offers, Kinds, NoTime
<1> QED
  BY <1>1 DEF DeckIInv, ReturnToCredentials, DeadlineBinds, Detached

\* The session task's own steps leave the controller alone.
LEMMA TaskSteps ==
  ASSUME HostWindows \subseteq Nat, DeckIInv,
         Authenticate \/ Refresh \/ Lose \/ Refuse \/ ReachDeadline
  PROVE  DeckIInv' /\ DeadlineBinds
<1>1. UNCHANGED controller
  BY DEF Authenticate, Refresh, Lose, Refuse, ReachDeadline, Publish, End
<1>2. DeadlineBinds
  BY <1>1 DEF DeadlineBinds, Detached
<1>3. ASSUME NEW cause \in {"lost", "deadline", "terminal"}, End(cause), task.pc # "none"
      PROVE  DeckIInv'
  <2>1. task' = [pc |-> "ended", kind |-> task.kind, deadline |-> task.deadline, end |-> cause,
                 at |-> clock]
    BY Zenon, <1>3 DEF End, DeckIInv, Tasks
  <2>2. task' \in Tasks /\ task'.at = clock /\ task'.kind = task.kind
    BY <1>3, <2>1 DEF DeckIInv, Tasks
  <2> QED
    BY <1>1, <1>3, <2>2 DEF End, DeckIInv, Controller
<1>4. ASSUME NEW kind \in {"Initial", "Resume", "Refresh"}, NEW w \in Nat,
             NEW pc \in {"offered", "streaming"}, Publish(kind, w, pc), task.pc # "none",
             kind = "Refresh" \/ kind = task.kind
      PROVE  DeckIInv'
  <2>1. task' \in Tasks /\ task'.pc = pc /\ task'.kind = task.kind
    BY <1>4 DEF Publish, DeckIInv, Tasks
  <2>2. /\ offer' \in Offers /\ offer'.kind = kind /\ offer'.grant = received' /\ sent' \in Nat
        /\ offer'.window = 0 => offer'.grant = 0
    BY <1>4 DEF Publish, DeckIInv, Offers, Kinds
  <2> QED
    BY <1>1, <1>4, <2>1, <2>2 DEF Publish, DeckIInv, Controller
<1>5. CASE Authenticate
  <2>1. PICK w \in HostWindows : Publish(task.kind, w, "offered")
    BY <1>5 DEF Authenticate
  <2>2. task.kind \in Kinds /\ task.pc # "none" /\ w \in Nat
    BY <1>5 DEF Authenticate, DeckIInv, Tasks
  <2> QED
    BY <1>2, <1>4, <2>1, <2>2 DEF Kinds
<1>6. CASE Refresh
  <2>1. PICK w \in HostWindows : Publish("Refresh", w, "streaming")
    BY <1>6 DEF Refresh
  <2> QED
    BY <1>2, <1>4, <1>6, <2>1 DEF Refresh
<1>7. CASE Lose \/ Refuse \/ ReachDeadline
  BY <1>2, <1>3, <1>7 DEF Lose, Refuse, ReachDeadline, Live
<1> QED
  BY <1>5, <1>6, <1>7

\* One frame's first half: answers first, then the end of the session.
LEMMA SyncBinds ==
  ASSUME DeckIInv, SyncMediaState
  PROVE  DeckIInv' /\ DeadlineBinds
<1>1. UNCHANGED <<clock, sent>>
  BY DEF SyncMediaState
<1>2. CASE UNCHANGED <<controller, task, offer, received>>
  BY <1>1, <1>2 DEF DeckIInv, Controller, DeadlineBinds, Detached
<1>3. CASE ReturnToCredentials
  BY <1>1, <1>3, Returned
<1>4. CASE /\ controller # NoController /\ Answered # NoController /\ task.pc = "ended"
           /\ Closed(Answered) /\ ~ReturnToCredentials
  <2>1. PICK delay \in Delays(Answered) :
          /\ Schedule(Answered, task.at, delay) # NoController
          /\ controller' = Schedule(Answered, task.at, delay)
          /\ task' = NoTask /\ offer' = NoOffer /\ UNCHANGED received
    BY <1>4 DEF Closed
  <2>2. Controller(Answered) /\ task.at \in Nat /\ Answered.grant = received
    BY <1>4, Answering DEF DeckIInv
  <2>3. /\ Controller(controller') /\ controller'.phase = "Reconnecting"
        /\ controller'.window = Answered.window /\ controller'.grant = Answered.grant
        /\ controller'.deadline = IF Answered.phase = "Connected" THEN task.at + Answered.window
                                  ELSE Answered.deadline
    BY <2>1, <2>2, Scheduled
  <2>4. /\ Answered.phase = "Connected" <=> controller.phase = "Connected"
        /\ controller.phase # "Connected" => Answered = controller
    BY <1>4, Answering
  <2>5. DeckIInv'
    <3>1. NoTask \in Tasks /\ NoTask.pc = "none" /\ NoOffer \in Offers /\ NoOffer.kind = "none" /\ NoOffer.grant = 0
      BY DEF NoTask, Tasks, NoOffer, Offers, Kinds, NoTime
    <3> QED
      BY <1>1, <2>1, <2>2, <2>3, <3>1 DEF DeckIInv, Controller
  <2>6. DeadlineBinds
    <3>1. Controller(controller)
      BY <1>4 DEF DeckIInv
    <3> QED
      BY <1>4, <2>3, <2>4, <3>1 DEF DeadlineBinds, Detached, Controller
  <2> QED
    BY <2>5, <2>6
<1>5. CASE /\ controller # NoController /\ Answered # NoController /\ task.pc # "ended"
           /\ controller' = Answered /\ offer' = NoOffer
           /\ task' = [task EXCEPT !.pc = IF @ = "offered" THEN "streaming" ELSE @]
           /\ UNCHANGED received
  <2>1. task' \in Tasks /\ task'.kind = task.kind /\ task'.pc # "ended"
        /\ (task.pc = "none" => task'.pc = "none")
    BY <1>5 DEF DeckIInv, Tasks
  <2>2. NoOffer \in Offers /\ NoOffer.kind = "none" /\ NoOffer.grant = 0
    BY DEF NoOffer, Offers, Kinds
  <2>3. Controller(controller') /\ Controller(controller) /\ controller'.grant = received
    BY <1>5, Answering DEF DeckIInv
  <2>4. \/ controller' = controller
        \/ controller'.phase = "Connected" /\ controller.phase = "Connected"
        \/ controller'.phase = "Connected" /\ controller.phase # "Connected" /\ clock < controller.deadline
    BY <1>5, Answering
  <2>5. DeckIInv'
    BY <1>1, <1>5, <2>1, <2>2, <2>3, <2>4 DEF DeckIInv, Controller
  <2>6. DeadlineBinds
    BY <1>5, <2>3, <2>4 DEF DeadlineBinds, Detached, Controller
  <2> QED
    BY <2>5, <2>6
<1> QED
  BY <1>2, <1>3, <1>4, <1>5 DEF SyncMediaState

\* Its second half: the deadline first, then a retry that is due.
LEMMA DriveBinds ==
  ASSUME DeckIInv, DriveReconnect
  PROVE  DeckIInv' /\ DeadlineBinds
<1>1. UNCHANGED <<clock, sent>>
  BY DEF DriveReconnect
<1>2. CASE UNCHANGED <<controller, task, offer, received>>
  BY <1>1, <1>2 DEF DeckIInv, Controller, DeadlineBinds, Detached
<1>3. CASE ReturnToCredentials
  BY <1>1, <1>3, Returned
<1>4. CASE /\ controller # NoController /\ Due(controller)
           /\ controller' = [controller EXCEPT !.phase = "Resuming"]
           /\ task' = Task("Resume", controller.deadline) /\ offer' = NoOffer /\ UNCHANGED received
  <2>1. Controller(controller) /\ controller.phase = "Reconnecting" /\ controller.grant = received
    BY <1>4 DEF DeckIInv, Due
  <2>2. controller' = [phase |-> "Resuming", grant |-> controller.grant,
                       window |-> controller.window, detachedAt |-> controller.detachedAt,
                       deadline |-> controller.deadline, retry |-> controller.retry,
                       next |-> controller.next]
    BY <1>4, <2>1 DEF Controller
  <2>3. Controller(controller') /\ controller'.phase = "Resuming"
        /\ controller'.deadline = controller.deadline /\ controller'.grant = received
    BY <2>1, <2>2 DEF Controller
  <2>4. task' \in Tasks /\ task'.pc = "connecting" /\ task'.kind = "Resume"
    BY <1>4, <2>1, Starts DEF Kinds, Controller
  <2>5. NoOffer \in Offers /\ NoOffer.kind = "none" /\ NoOffer.grant = 0
    BY DEF NoOffer, Offers, Kinds
  <2>6. DeckIInv'
    BY <1>1, <1>4, <2>3, <2>4, <2>5 DEF DeckIInv, Controller
  <2>7. DeadlineBinds
    BY <1>4, <2>1, <2>3 DEF DeadlineBinds, Detached
  <2> QED
    BY <2>6, <2>7
<1> QED
  BY <1>2, <1>3, <1>4 DEF DriveReconnect

\* Every step keeps the invariant and the deadline.
LEMMA StepBinds ==
  ASSUME HostWindows \subseteq Nat, DeckIInv, DeckNext
  PROVE  DeckIInv' /\ DeadlineBinds
<1>1. CASE Authenticate \/ Refresh \/ Lose \/ Refuse \/ ReachDeadline
  BY <1>1, TaskSteps
<1>2. CASE Connect
  <2>1. Task("Initial", NoTime) \in Tasks /\ Task("Initial", NoTime).pc = "connecting"
        /\ NoOffer \in Offers /\ NoOffer.kind = "none" /\ NoOffer.grant = 0
    BY Starts DEF NoOffer, Offers, Kinds, NoTime
  <2>2. DeckIInv'
    BY <1>2, <2>1, NewConnected DEF Connect, DeckIInv
  <2>3. DeadlineBinds
    BY <1>2, NewConnected DEF Connect, DeadlineBinds, Detached
  <2> QED
    BY <2>2, <2>3
<1>3. CASE Disconnect
  BY <1>3, Returned DEF Disconnect
<1>4. CASE ClockTicks
  BY <1>4 DEF ClockTicks, DeckIInv, Controller, DeadlineBinds, Detached
<1> QED
  BY <1>1, <1>2, <1>3, <1>4, SyncBinds, DriveBinds DEF DeckNext

\* The invariant holds from the start on.
LEMMA DeckAlways ==
  ASSUME HostWindows \subseteq Nat
  PROVE  DeckSpec => []DeckIInv
<1>1. DeckInit => DeckIInv
  BY DEF DeckInit, DeckIInv, NoTask, NoOffer, Tasks, Offers, Kinds, NoTime
<1>2. DeckIInv /\ UNCHANGED deckVars => DeckIInv'
  BY DEF DeckIInv, Controller, deckVars
<1>3. DeckIInv /\ [DeckNext]_deckVars => DeckIInv'
  BY <1>2, StepBinds
<1> QED
  BY <1>1, <1>3, PTL DEF DeckSpec

\* The deadline of a detachment is the loss, as the session task observed it, plus
\* the window: no failed attempt, late frame or refresh moves it, and an answer
\* read at or after it is discarded (schedule_retry, accept_resume and the frame
\* that calls them), for any windows a host may send.
THEOREM DeckDeadlineCorrect ==
  ASSUME HostWindows \subseteq Nat
  PROVE  DeckSpec => DeadlineHolds
<1>1. DeckIInv /\ [DeckNext]_deckVars => [DeadlineBinds]_deckVars
  BY StepBinds
<1> QED
  BY <1>1, DeckAlways, PTL DEF DeckSpec, DeadlineHolds

\* A retry carries the newest grant the session received: a frame reads the last
\* answer before it looks at the end of the session that published it
\* (sync_media_state), for any number of connections, refreshes and losses.
THEOREM DeckGrantCorrect ==
  ASSUME HostWindows \subseteq Nat
  PROVE  DeckSpec => []RetriesWithNewestGrant
<1>1. DeckIInv => RetriesWithNewestGrant
  BY DEF DeckIInv, RetriesWithNewestGrant
<1> QED
  BY <1>1, DeckAlways, PTL
=============================================================================
