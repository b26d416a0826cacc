---------------------------- MODULE SessionLanes ----------------------------
(***************************************************************************)
(* The QUIC lanes of one attachment: a registry of lane generations at     *)
(* each end (shared/transport/src/lanes.rs), the lane runtime that admits, *)
(* cancels and hands over streams (quic/lane_runtime/), and the workers    *)
(* that own a role on either side (quic/session_lanes.rs, the Deck's       *)
(* transport/lanes.rs, the Pier's net/lane_workers.rs).                    *)
(*                                                                         *)
(* One end opens a role's lanes (the opener), the other accepts them.      *)
(* QUIC has no order between streams: a new lane may arrive before the     *)
(* reset of the lane it replaces, and both before or after the control     *)
(* lane's grant.  A lane that an end has torn down (reset and stopped, or  *)
(* refused) is noticed by the other end at any later time, or never if it  *)
(* has no reason to look.  Input and bulk lanes are bidirectional: each    *)
(* end then has a reader task and a writer task on one lane, and a failure *)
(* the writer finds cancels the lane before it is reported.                *)
(***************************************************************************)
EXTENDS Naturals

CONSTANTS Roles,        \* roles of this instance
          MaxGen,       \* lane generations per role
          MaxFrames,    \* frames written to one lane
          MaxFaults,    \* failures that are not the echo of another one
          HostWrites    \* the accepting end has a cursor to write on a stopped lane

ASSUME MaxGenAssumption == MaxGen \in Nat

Ends == {"deck", "pier"}
Gens == 1..MaxGen
None == [gen |-> 0, owes |-> FALSE]

Other(e) == CHOOSE f \in Ends : f # e

Opener(r) == IF r = "video" THEN "pier" ELSE "deck"

Acceptor(r) == Other(Opener(r))

Bidirectional(r) == r \in {"input", "bulk"}

\* Failures in a row that reopening may repair.
Budget(r) == IF r = "bulk" THEN 2 ELSE 3

\* What an exhausted role does: the attachment ends, or the role is disabled.
Exhausted(r) == IF r \in {"video", "input"} THEN "end" ELSE "disable"

\* A replaced lane leaves something to undo before the next one is used:
\* held keys to release, or a prediction chain to restart.
HasSteps(r) == r \in {"video", "input"}

VARIABLES phase,    \* per end: awaiting (control lane), unauthorized, authorized, ended
          control,  \* the control lane's stream: none, sent
          grant,    \* the lane_attachment message is on the control lane
          slot,     \* per end and role: the registry's lane
          wire,     \* per role and generation: the stream between the ends
          opener,   \* per role: the worker at the opening end
          accept,   \* per role: the worker at the accepting end
          due,      \* per role: the lane held (before the grant) or awaiting its owner
          cut,      \* per end and role: lanes a writer cancelled and has not reported
          faults

laneVars == <<phase, control, grant, slot, wire, opener, accept, due, cut, faults>>

LaneInit ==
    /\ phase = [e \in Ends |-> "awaiting"]
    /\ control = "none" /\ grant = FALSE
    /\ slot = [e \in Ends |-> [r \in Roles |-> [state |-> "absent", highest |-> 0, fails |-> 0]]]
    /\ wire = [r \in Roles |-> [g \in Gens |->
                 [preface |-> "none", sent |-> 0, got |-> 0, torn |-> {}]]]
    /\ opener = [r \in Roles |-> "open"]
    /\ accept = [r \in Roles |-> [at |-> "wait", gen |-> 0, code |-> "none", chain |-> 0]]
    /\ due = [r \in Roles |-> None]
    /\ cut = [e \in Ends |-> [r \in Roles |-> {}]]
    /\ faults = 0

(***************************************************************************)
(* The registry.                                                           *)
(***************************************************************************)
\* Generation g is the role's open lane; its control is not cancelled by the
\* runtime (a writer that has cut it may still be about to report).
Live(e, r, g) == /\ phase[e] # "ended"
                 /\ slot[e][r].state = "open" /\ slot[e][r].highest = g

Cancelled(e, r, g) == ~Live(e, r, g) \/ g \in cut[e][r]

\* The recovery action of a failure of generation g, as `fails` stands.
VerdictAt(e, r, g, fails) ==
    CASE ~Live(e, r, g) -> "superseded"
      [] Live(e, r, g) /\ fails < Budget(r) -> "reopen"
      [] OTHER -> Exhausted(r)

Verdict(e, r, g) == VerdictAt(e, r, g, slot[e][r].fails)

FailedSlot(e, r, verdict, fails) ==
    [slot[e][r] EXCEPT !.state = IF verdict = "disable" THEN "disabled" ELSE "recovering",
                       !.fails = fails + 1]

\* The lanes of role r that end e holds: those it opened, or took a preface of.
HeldBy(e, r) == {g \in Gens : IF Opener(r) = e THEN wire[r][g].preface # "none"
                                               ELSE wire[r][g].preface = "read"}

TornBy(e, r, gens) == [g \in Gens |-> IF g \in gens
                          THEN [wire[r][g] EXCEPT !.torn = @ \cup {e}] ELSE wire[r][g]]

(* report_failure with its effects: a report about a lane that is no longer
   the open one changes nothing; ending the attachment tears every lane down
   and drops the held and undelivered ones.                                *)
ReportedAt(e, r, g, fails) ==
    LET verdict == VerdictAt(e, r, g, fails) IN
    /\ slot' = IF verdict = "superseded" THEN slot
               ELSE [slot EXCEPT ![e][r] = FailedSlot(e, r, verdict, fails)]
    /\ phase' = IF verdict = "end" THEN [phase EXCEPT ![e] = "ended"] ELSE phase
    /\ due' = [q \in Roles |-> IF verdict = "end" /\ Acceptor(q) = e THEN None ELSE due[q]]

Reported(e, r, g) == ReportedAt(e, r, g, slot[e][r].fails)

TornAtEndOnly(e, r, g, verdict) ==
    [q \in Roles |-> IF verdict = "end" THEN TornBy(e, q, HeldBy(e, q)) ELSE wire[q]]

(* The streams after a failure of lane g: both halves are reset and stopped
   whoever reported it, and with the attachment so are all of e's lanes.   *)
TornAfter(e, r, g, verdict) ==
    [q \in Roles |-> IF verdict = "end" THEN TornBy(e, q, HeldBy(e, q))
                     ELSE IF q = r THEN TornBy(e, r, {g}) ELSE wire[q]]

Healthy(e, r, g) ==
    slot' = IF Live(e, r, g) THEN [slot EXCEPT ![e][r].fails = 0] ELSE slot

Fault == faults < MaxFaults /\ faults' = faults + 1

(***************************************************************************)
(* The control lane and the grant.                                         *)
(***************************************************************************)
DeckOpensControl ==
    /\ phase["deck"] = "awaiting"
    /\ phase' = [phase EXCEPT !["deck"] = "unauthorized"]
    /\ control' = "sent"
    /\ UNCHANGED <<grant, slot, wire, opener, accept, due, cut, faults>>

PierAdmitsControl ==
    /\ control = "sent" /\ phase["pier"] = "awaiting"
    /\ phase' = [phase EXCEPT !["pier"] = "unauthorized"]
    /\ UNCHANGED <<control, grant, slot, wire, opener, accept, due, cut, faults>>

\* The Pier authorizes the attachment, then sends the grant.
GrantAttachment ==
    /\ phase["pier"] = "unauthorized"
    /\ phase' = [phase EXCEPT !["pier"] = "authorized"]
    /\ grant' = TRUE
    /\ UNCHANGED <<control, slot, wire, opener, accept, due, cut, faults>>

\* The Deck takes the grant; lanes it held are registered and await their owner.
AcceptAttachment ==
    /\ grant /\ phase["deck"] = "unauthorized"
    /\ phase' = [phase EXCEPT !["deck"] = "authorized"]
    /\ slot' = [slot EXCEPT !["deck"] = [r \in Roles |->
                  IF Opener(r) = "pier" /\ due[r] # None
                  THEN [@[r] EXCEPT !.state = "open", !.highest = due[r].gen] ELSE @[r]]]
    /\ UNCHANGED <<control, grant, wire, opener, accept, due, cut, faults>>

\* The control lane fails, or the peer has ended: the attachment ends.
EndAttachment(e) ==
    /\ phase[e] # "ended"
    /\ \/ phase[Other(e)] = "ended" /\ UNCHANGED faults
       \/ phase[e] = "authorized" /\ Fault
    /\ phase' = [phase EXCEPT ![e] = "ended"]
    /\ wire' = [r \in Roles |-> TornBy(e, r, HeldBy(e, r))]
    /\ due' = [r \in Roles |-> IF Acceptor(r) = e THEN None ELSE due[r]]
    /\ UNCHANGED <<control, grant, slot, opener, accept, cut>>

(***************************************************************************)
(* The worker at the opening end.                                          *)
(***************************************************************************)
Current(r) == slot[Opener(r)][r].highest

\* open_lane reserves the next generation, unless the registry refuses: the
\* attachment ended, the role is disabled, or its lane still counts as open.
OpenLocal(r) ==
    LET e == Opener(r) IN
    /\ opener[r] = "open" /\ phase[e] \in {"authorized", "ended"}
    /\ \/ /\ phase[e] = "authorized" /\ slot[e][r].state \in {"absent", "recovering"}
          /\ slot[e][r].highest < MaxGen
          /\ slot' = [slot EXCEPT ![e][r].state = "open", ![e][r].highest = @ + 1]
          /\ opener' = [opener EXCEPT ![r] = "opening"]
       \/ /\ phase[e] = "ended" \/ slot[e][r].state \in {"open", "disabled"}
          /\ opener' = [opener EXCEPT ![r] = "stopped"]
          /\ UNCHANGED slot
    /\ UNCHANGED <<phase, control, grant, wire, accept, due, cut, faults>>

\* The stream opens and its preface is written (reset, if the attachment has ended).
OpenStream(r) ==
    LET e == Opener(r) IN
    /\ opener[r] = "opening"
    /\ opener' = [opener EXCEPT ![r] = "run"]
    /\ wire' = [wire EXCEPT ![r][Current(r)].preface = "sent",
                            ![r][Current(r)].torn = IF phase[e] = "ended" THEN {e} ELSE {}]
    /\ UNCHANGED <<phase, control, grant, slot, accept, due, cut, faults>>

AlwaysStops(verdict) == "stopped"

\* What the worker does after a failure was reported.
AfterVerdict(verdict) == IF verdict = "reopen" THEN "open" ELSE "stopped"

OpenTimesOut(r) ==
    LET e == Opener(r)  verdict == Verdict(e, r, Current(r)) IN
    /\ opener[r] = "opening" /\ Fault
    /\ Reported(e, r, Current(r))
    /\ opener' = [opener EXCEPT ![r] = AfterVerdict(verdict)]
    /\ wire' = TornAfter(e, r, Current(r), verdict)
    /\ UNCHANGED <<control, grant, accept, cut>>

\* A record is handed to QUIC, which counts as the lane being healthy.
WriteFrame(r) ==
    LET e == Opener(r)  g == Current(r) IN
    /\ opener[r] = "run" /\ ~Cancelled(e, r, g) /\ wire[r][g].sent < MaxFrames
    /\ wire' = [wire EXCEPT ![r][g].sent = @ + 1]
    /\ Healthy(e, r, g)
    /\ UNCHANGED <<phase, control, grant, opener, accept, due, cut, faults>>

\* The lane end e is working on, when it has a writer there.
Writing(e, r, g) ==
    IF e = Opener(r) THEN opener[r] = "run" /\ g = Current(r)
    ELSE HostWrites /\ Bidirectional(r) /\ accept[r].at = "read" /\ g = accept[r].gen

\* A write finds the stream stopped by the peer: the writer cancels the lane.
WriterStopped(e, r, g) ==
    /\ Writing(e, r, g) /\ ~Cancelled(e, r, g) /\ Other(e) \in wire[r][g].torn
    /\ cut' = [cut EXCEPT ![e][r] = @ \cup {g}]
    /\ wire' = [wire EXCEPT ![r][g].torn = @ \cup {e}]
    /\ accept' = IF e = Acceptor(r) THEN [accept EXCEPT ![r].code = "failed"] ELSE accept
    /\ UNCHANGED <<phase, control, grant, slot, opener, due, faults>>

\* The writer then reports the failure.  On a lane with one direction its owner
\* follows the recovery; otherwise only the reader's exit is followed.
WriterReports(e, r, g) ==
    LET verdict == Verdict(e, r, g) IN
    /\ g \in cut[e][r]
    /\ Reported(e, r, g)
    /\ cut' = [cut EXCEPT ![e][r] = @ \ {g}]
    /\ wire' = TornAfter(e, r, g, verdict)
    /\ opener' = IF Bidirectional(r) THEN opener
                 ELSE [opener EXCEPT ![r] = AfterVerdict(verdict)]
    /\ UNCHANGED <<control, grant, accept, faults>>

\* The opener's reader (bidirectional lanes) meets a reset, or a bad record.
OpenerReaderFails(r) ==
    LET e == Opener(r)  g == Current(r) IN
    /\ Bidirectional(r) /\ opener[r] = "run" /\ Live(e, r, g)
    /\ \E fails \in {0, slot[e][r].fails} :
         /\ \/ Acceptor(r) \in wire[r][g].torn /\ fails = slot[e][r].fails /\ UNCHANGED faults
            \/ Fault
         /\ ReportedAt(e, r, g, fails)
         /\ opener' = [opener EXCEPT ![r] = AfterVerdict(VerdictAt(e, r, g, fails))]
         /\ wire' = TornAfter(e, r, g, VerdictAt(e, r, g, fails))
    /\ UNCHANGED <<control, grant, accept, cut>>

\* It finds the lane cancelled: the attachment ended, or the lane is reopened.
OpenerCancelled(r) ==
    LET e == Opener(r) IN
    /\ opener[r] = "run" /\ Cancelled(e, r, Current(r))
    /\ Bidirectional(r) \/ phase[e] = "ended"
    /\ opener' = [opener EXCEPT ![r] = IF phase[e] = "ended" THEN "stopped" ELSE "open"]
    /\ UNCHANGED <<phase, control, grant, slot, wire, accept, due, cut, faults>>

(***************************************************************************)
(* The accepting end: dispatcher and worker.                               *)
(***************************************************************************)
\* The Deck holds a lane that comes before the grant, the newest only; the one
\* it replaces is reset, and leaves its steps to the newer one.
Hold(r, g) ==
    /\ phase["deck"] = "unauthorized" /\ Acceptor(r) = "deck" /\ g > due[r].gen
    /\ due' = [due EXCEPT ![r] = [gen |-> g, owes |-> @ # None /\ HasSteps(r)]]
    /\ wire' = [wire EXCEPT ![r] = [TornBy("deck", r, {due[r].gen}) EXCEPT ![g].preface = "read"]]
    /\ UNCHANGED <<slot, accept>>

AdmissibleAnyOrder(r, g) ==
    LET e == Acceptor(r) IN
    /\ phase[e] = "authorized" /\ slot[e][r].state # "disabled" /\ g # slot[e][r].highest

Admissible(r, g) ==
    LET e == Acceptor(r) IN
    /\ phase[e] = "authorized" /\ slot[e][r].state # "disabled" /\ g > slot[e][r].highest

\* The steps an admitted lane carries for its owner.
Supersedes(r) == slot[Acceptor(r)][r].state = "open"

\* Admission: the newer lane is open, the open one it supersedes is cancelled.
Install(r, g) ==
    LET e == Acceptor(r)  old == slot[e][r].highest IN
    /\ Admissible(r, g)
    /\ slot' = [slot EXCEPT ![e][r].state = "open", ![e][r].highest = g]
    /\ due' = [due EXCEPT ![r] = [gen |-> g, owes |-> HasSteps(r) /\ (@.owes \/ Supersedes(r))]]
    /\ wire' = [wire EXCEPT ![r] =
                  [TornBy(e, r, IF slot[e][r].state = "open" THEN {old} ELSE {})
                     EXCEPT ![g].preface = "read"]]
    /\ accept' = IF /\ slot[e][r].state = "open" /\ accept[r].at = "read"
                    /\ accept[r].gen = old /\ accept[r].code = "none"
                 THEN [accept EXCEPT ![r].code = "superseded"] ELSE accept

Refuse(r, g) ==
    /\ ~Admissible(r, g)
    /\ ~(phase["deck"] = "unauthorized" /\ Acceptor(r) = "deck" /\ g > due[r].gen)
    /\ wire' = [wire EXCEPT ![r][g].preface = "read", ![r][g].torn = @ \cup {Acceptor(r)}]
    /\ UNCHANGED <<slot, accept, due>>

\* A stream's preface is read.
Admit(r, g) ==
    /\ wire[r][g].preface = "sent"
    /\ Hold(r, g) \/ Install(r, g) \/ Refuse(r, g)
    /\ UNCHANGED <<phase, control, grant, opener, cut, faults>>

\* A reset overtakes the preface: the stream is dropped unread.
PrefaceLost(r, g) ==
    /\ wire[r][g].preface = "sent" /\ Opener(r) \in wire[r][g].torn
    /\ wire' = [wire EXCEPT ![r][g].preface = "read", ![r][g].torn = Ends]
    /\ UNCHANGED <<phase, control, grant, slot, opener, accept, due, cut, faults>>

Waiting(r, chain) == [at |-> "wait", gen |-> 0, code |-> "none", chain |-> chain]

\* The worker's end releases what it held.
StoppedAt(r) == [at |-> "stopped", gen |-> 0, code |-> "none", chain |-> 0]

\* The owner takes the newest lane and applies the steps it carries.
TakeLane(r) ==
    /\ accept[r].at = "wait" /\ due[r] # None /\ phase[Acceptor(r)] = "authorized"
    /\ accept' = [accept EXCEPT ![r] =
                    [at |-> "read", gen |-> due[r].gen, code |-> "none",
                     chain |-> IF due[r].owes THEN 0 ELSE @.chain]]
    /\ due' = [due EXCEPT ![r] = None]
    /\ UNCHANGED <<phase, control, grant, slot, wire, opener, cut, faults>>

\* A frame of the lane changes what the owner holds: keys down, a decoded picture.
ReadFrame(r) ==
    LET e == Acceptor(r)  g == accept[r].gen IN
    /\ accept[r].at = "read" /\ accept[r].code = "none" /\ phase[e] # "ended"
    /\ wire[r][g].got < wire[r][g].sent
    /\ wire' = [wire EXCEPT ![r][g].got = @ + 1]
    /\ accept' = [accept EXCEPT ![r].chain = IF HasSteps(r) THEN g ELSE 0]
    /\ Healthy(e, r, g)
    /\ UNCHANGED <<phase, control, grant, opener, due, cut, faults>>

AfterReaderFailed(r, verdict) == IF verdict = "reopen" THEN Waiting(r, 0) ELSE StoppedAt(r)

\* Reading fails: the peer's reset, or a bad frame (counted healthy first when it
\* was whole).  While the peer is to reopen the role, its steps apply at once.
ReaderFails(r) ==
    LET e == Acceptor(r)  g == accept[r].gen IN
    /\ accept[r].at = "read" /\ Live(e, r, g)
    /\ \E fails \in {0, slot[e][r].fails} :
         /\ \/ Opener(r) \in wire[r][g].torn /\ fails = slot[e][r].fails /\ UNCHANGED faults
            \/ wire[r][g].got < wire[r][g].sent /\ Fault
         /\ ReportedAt(e, r, g, fails)
         /\ accept' = [accept EXCEPT ![r] = AfterReaderFailed(r, VerdictAt(e, r, g, fails))]
         /\ wire' = TornAfter(e, r, g, VerdictAt(e, r, g, fails))
    /\ UNCHANGED <<control, grant, opener, cut>>

(* The reader finds its lane cancelled.  A lane cancelled as failed is
   followed as that failure while the registry says it is recovering;
   otherwise a newer lane is taken to carry the steps.                     *)
FollowedAsFailure(r) ==
    accept[r].code = "failed" /\ slot[Acceptor(r)][r].state = "recovering"

ReaderCancelled(r) ==
    LET e == Acceptor(r) IN
    /\ accept[r].at = "read" /\ (accept[r].code # "none" \/ phase[e] = "ended")
    /\ accept' = [accept EXCEPT ![r] =
                    IF phase[e] = "ended" THEN StoppedAt(r)
                    ELSE Waiting(r, IF FollowedAsFailure(r) THEN 0 ELSE @.chain)]
    /\ UNCHANGED <<phase, control, grant, slot, wire, opener, due, cut, faults>>

\* Waiting for a lane when the attachment ends: held input is released.
WaitEnds(r) ==
    /\ accept[r].at = "wait" /\ phase[Acceptor(r)] = "ended"
    /\ accept' = [accept EXCEPT ![r] = StoppedAt(r)]
    /\ UNCHANGED <<phase, control, grant, slot, wire, opener, due, cut, faults>>

Role(r) ==
    \/ OpenLocal(r) \/ OpenStream(r) \/ WriteFrame(r)
    \/ OpenerCancelled(r) \/ TakeLane(r) \/ ReadFrame(r) \/ ReaderCancelled(r) \/ WaitEnds(r)
    \/ OpenTimesOut(r) \/ OpenerReaderFails(r) \/ ReaderFails(r)
    \/ \E g \in Gens : \/ Admit(r, g) \/ PrefaceLost(r, g)
                       \/ \E e \in Ends : WriterStopped(e, r, g) \/ WriterReports(e, r, g)

Connection ==
    \/ DeckOpensControl \/ PierAdmitsControl \/ GrantAttachment \/ AcceptAttachment
    \/ \E e \in Ends : EndAttachment(e)

LaneNext == Connection \/ \E r \in Roles : Role(r)

LaneSpec == LaneInit /\ [][LaneNext]_laneVars

(* Fairness: spawned tasks of a running Tokio runtime, and a QUIC connection
   that delivers.  A role's sender keeps writing, so the opener meets a
   stopped stream; the accepting end's writer may have nothing to say, and
   faults never have to happen.                                            *)
Echo(r) ==
    \/ OpenerReaderFails(r) /\ faults' = faults
    \/ ReaderFails(r) /\ faults' = faults
    \/ \E g \in Gens : WriterStopped(Opener(r), r, g)

(***************************************************************************)
(* Properties.                                                             *)
(***************************************************************************)

(* Once a newer lane has delivered a frame, no older lane of the role does,
   though streams, resets and prefaces arrive in any order.                *)
NoStepBack ==
    \A r \in Roles, g \in Gens :
        wire'[r][g].got > wire[r][g].got => \A h \in Gens : h > g => wire[r][h].got = 0

FramesNeverGoBack == [][NoStepBack]_laneVars

(* The opening worker of a role only it writes gives the role up only when it
   is disabled or the attachment ended; any other cancelled lane "is reopened
   by it" (clients/macos lanes.rs:507).  Where the other end writes too, its
   failing writer can make the opener's reader ask for a lane too early.   *)
StopsOnlyWhenExhausted ==
    \A r \in Roles \ {"input", "bulk"} :
        opener[r] = "stopped" => \/ slot[Opener(r)][r].state = "disabled"
                                 \/ \E e \in Ends : phase[e] = "ended"

(* After any failure the role serves again on one lane open at both ends, or
   its worker at one end has stopped.                                      *)
Serving(r) ==
    \E g \in Gens :
        /\ \A e \in Ends : ~Cancelled(e, r, g)
        /\ opener[r] = "run" /\ accept[r].at = "read" /\ accept[r].gen = g
Given(r) == opener[r] = "stopped" \/ accept[r].at = "stopped"
=============================================================================
