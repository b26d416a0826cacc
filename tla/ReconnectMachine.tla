-------------------------- MODULE ReconnectMachine --------------------------
(***************************************************************************)
(* The pure reconnect machine every Pier runs for an attached session       *)
(* (shared/session/src/direct_reconnect.rs): an unexpected transport loss    *)
(* detaches the session for one bounded window, a resume re-attaches it, and *)
(* every terminal event drains it exactly once.                              *)
(*                                                                         *)
(* The machine has no clock and performs nothing: Apply maps a machine, an   *)
(* event and the host's time to the next machine and the directives the host *)
(* must carry out.  DirectReconnect couples it with such a host; PierSession  *)
(* with the Linux Pier's session owner.                                      *)
(***************************************************************************)
EXTENDS Naturals

CONSTANTS Window,         \* reconnect window in ticks; 0 disables reconnect
          MaxGeneration   \* last value of the timer generation counter (u64)

ASSUME WindowAssumption == Window \in Nat
ASSUME GenerationAssumption == MaxGeneration \in Nat \ {0}

Phases == {"Disabled", "Attached", "Detached", "Resuming", "Draining", "Closed"}
Generations == 0 .. MaxGeneration
Machines == [phase : Phases, deadline : Nat, generation : Generations,
             next : 1 .. MaxGeneration]

TerminalEvents == {"ExplicitDisconnect", "NativeSessionEnded", "OwnerCrashed"}
ResumeEvents == {"BeginResume", "ResumeAccepted", "ResumeFailed"}
Event(kind) == [kind |-> kind, generation |-> 0]
DeadlineReached(g) == [kind |-> "DeadlineReached", generation |-> g]

-----------------------------------------------------------------------------
(* The machine: what apply does to the state and the directives it returns. *)

NoTimer == [op |-> "None", deadline |-> 0, generation |-> 0]
Arm(d, g) == [op |-> "Arm", deadline |-> d, generation |-> g]
Cancel(g) == [op |-> "Cancel", deadline |-> 0, generation |-> g]

Outcome(m, directives, timer) == [machine |-> m, do |-> directives, timer |-> timer]

New == [phase |-> IF Window = 0 THEN "Disabled" ELSE "Attached",
        deadline |-> 0, generation |-> 0, next |-> 1]

\* The deadline and the timer generation exist in these two phases only.
Waiting(m) == m.phase \in {"Detached", "Resuming"}
Leave(m, phase) == [phase |-> phase, deadline |-> 0, generation |-> 0, next |-> m.next]

\* Mutants: the last window is accepted; the drain is not idempotent; a callback
\* is not compared with the deadline; a resuming session ignores its timer.
ExpiredOffByOne(m, t) == t > m.deadline
DrainableAgain(m) == m.phase # "Closed"
TimerDueDetachedOnly(m, event, t) ==
    event = DeadlineReached(m.generation) /\ t >= m.deadline /\ m.phase = "Detached"

Expired(m, t) == t >= m.deadline
Drainable(m) == m.phase \notin {"Draining", "Closed"}
TimerDue(m, event, t) == event = DeadlineReached(m.generation) /\ Expired(m, t)

Detach(m, t) ==
    Outcome([phase |-> "Detached", deadline |-> t + Window, generation |-> m.next,
             next |-> IF m.next = MaxGeneration THEN m.next ELSE m.next + 1],
            {"hold_restore_leases", "stop_media", "reset_input", "close_transport"},
            Arm(t + Window, m.next))

BeginDrain(m) ==
    Outcome(Leave(m, "Draining"),
            {"restore_leases", "stop_media", "reset_input", "revoke_grant", "close_transport"},
            IF Waiting(m) THEN Cancel(m.generation) ELSE NoTimer)

\* A failed resume returns to the detached phase under the same deadline.
Redetach(m) ==
    Outcome([m EXCEPT !.phase = "Detached"], {"reset_input", "close_transport"}, NoTimer)

Apply(m, event, t) ==
    IF m.phase = "Attached" /\ event.kind = "UnexpectedLoss" THEN Detach(m, t)
    ELSE IF \/ m.phase = "Disabled" /\ event.kind = "UnexpectedLoss"
            \/ Drainable(m) /\ event.kind \in TerminalEvents
            \/ Waiting(m) /\ event.kind \in ResumeEvents /\ Expired(m, t)
            \/ Waiting(m) /\ TimerDue(m, event, t)
         THEN BeginDrain(m)
    ELSE IF m.phase = "Detached" /\ event.kind = "BeginResume"
         THEN Outcome([m EXCEPT !.phase = "Resuming"], {}, NoTimer)
    ELSE IF m.phase = "Resuming" /\ event.kind = "ResumeAccepted"
         THEN Outcome(Leave(m, "Attached"), {"start_media", "reset_input", "rotate_grant"},
                      Cancel(m.generation))
    ELSE IF m.phase = "Resuming" /\ event.kind = "ResumeFailed" THEN Redetach(m)
    ELSE IF m.phase = "Draining" /\ event.kind = "DrainComplete"
         THEN Outcome([m EXCEPT !.phase = "Closed"], {}, NoTimer)
    ELSE Outcome(m, {}, NoTimer)
=============================================================================
