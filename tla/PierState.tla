------------------------------ MODULE PierState ------------------------------
(***************************************************************************)
(* The shared objects the Linux Pier's connection tasks work on: the         *)
(* capacity-one session slot, the admission gate, the registry of the one    *)
(* persistent desktop and its cleanup (hosts/linux/src/session/lifecycle.rs), *)
(* the incumbent record (shared/transport/src/quic/liveness.rs), the resume   *)
(* registry and the owners' command channels.  PierSession has the tasks.    *)
(*                                                                         *)
(* The slot's permit travels with the display guard (HeldDisplayResources):  *)
(* slot says where the pair is.  A desktop's generation is the constant 1 in  *)
(* the code, so leases are compared by user name only, as here; id is the    *)
(* logind session id that names the desktop in the resume registry.          *)
(***************************************************************************)
EXTENDS Naturals, Sequences

CONSTANTS Conns,          \* connections; each is served by a task of the same name
          Users,          \* the accounts a connection may sign in to
          MaxDesktops, MaxGrantGen, MaxNonce, MaxTime,  \* bounds of the model
          Window, MaxGeneration,                       \* see ReconnectMachine
          MayStop,        \* whether the Pier may be shut down in this model
          NoEntry, Nobody, NoDesktop, NoTime

ASSUME DesktopsAssumption == MaxDesktops \in Nat
ASSUME StopAssumption == MayStop \in BOOLEAN
ASSUME MachineAssumption == Window \in Nat /\ MaxGeneration \in Nat \ {0}
ASSUME GrantAssumption == MaxGrantGen \in Nat \ {0} /\ MaxNonce \in Nat
ASSUME ConnsAssumption == Nobody \notin Conns /\ {"free", "held", "cleanup"} \cap Conns = {}

VARIABLES
    entry, superseded, grants, issued, used,  \* the resume registry
    slot,       \* the session permit: "free", a task, "held" by the desktop, or "cleanup"
    admitted,   \* the task that holds the admission lease
    desktop,    \* SessionRegistry.inner.session
    cleanup,    \* whether a desktop is being torn down (inner.draining)
    created,    \* desktops created so far
    incumbent,  \* the attachment on record: its task and connection
    displaced,  \* the displacement mark of each registration
    link,       \* whether each connection is usable
    inbox,      \* the owner's command channel of each task
    answer,     \* the reply a take-over request received
    task,       \* the local state of each connection's task
    now,        \* monotonic clock, in ticks
    stop        \* progress of the Pier's shutdown

Registry == INSTANCE ResumeRegistry WITH
    Sessions <- 1 .. MaxDesktops, Holders <- Conns, Owners <- Conns
Machine == INSTANCE ReconnectMachine

registryVars == <<entry, superseded, grants, issued, used>>
desktopVars == <<slot, desktop, cleanup, created>>
channelVars == <<inbox, answer>>
peerVars == <<incumbent, displaced, link>>
globalVars == <<now, stop>>
vars == <<registryVars, desktopVars, admitted, peerVars, channelVars, task, globalVars>>

Desktops == [id : 1 .. MaxDesktops, user : Users, client : {"connected", "disconnected"},
             launcher : {"running", "sick", "dead"}]

ASSUME NothingAssumption == NoEntry \notin Registry!Entries /\ NoDesktop \notin Desktops

-----------------------------------------------------------------------------
(* The desktop registry. *)

Serves(c) == desktop # NoDesktop /\ desktop.user = task[c].user

\* validate_native_session: launcher and agent run and logind knows the session.
NativeValid(c) == Serves(c) /\ desktop.launcher = "running"

\* hold_display; the resources are dropped, and the permit with them, when it fails.
CanHold(c) == Serves(c) /\ slot # "held"

TearDownForgetsDisplay ==
    /\ desktop' = NoDesktop
    /\ cleanup' = "running"
    /\ UNCHANGED <<slot, created>>

HoldDisplay(c) == slot' = IF CanHold(c) THEN "held" ELSE "free"

CanTakeHeld(c) == Serves(c) /\ slot = "held"

\* The desktop leaves the registry with whatever display it holds.
TearDown ==
    /\ desktop' = NoDesktop
    /\ cleanup' = "running"
    /\ slot' = IF slot = "held" THEN "cleanup" ELSE slot
    /\ UNCHANGED created

\* start_termination; without a desktop to take it only waits for a running cleanup.
StartTermination(c) ==
    IF cleanup = "none" /\ Serves(c) THEN TearDown ELSE UNCHANGED desktopVars

Disconnected(c) == IF Serves(c) THEN [desktop EXCEPT !.client = "disconnected"] ELSE desktop

\* DesktopSession::shutdown: the held display first, then the launcher.
CleanupRestoresDisplay ==
    /\ slot = "cleanup"
    /\ slot' = "free"
    /\ UNCHANGED <<registryVars, desktop, cleanup, created, admitted, peerVars, channelVars, task,
                   globalVars>>

CleanupCompletes ==
    /\ cleanup = "running" /\ slot # "cleanup"
    /\ cleanup' = "none"
    /\ UNCHANGED <<registryVars, slot, desktop, created, admitted, peerVars, channelVars, task,
                   globalVars>>

\* The launcher or its agent dies, or logind ends the session, at any time.
NativeSessionEnds ==
    /\ desktop # NoDesktop
    /\ \E state \in {"sick", "dead"} \ {desktop.launcher} :
          desktop' = [desktop EXCEPT !.launcher = state]
    /\ desktop.launcher # "dead"
    /\ UNCHANGED <<registryVars, slot, cleanup, created, admitted, peerVars, channelVars, task,
                   globalVars>>

-----------------------------------------------------------------------------
(* The incumbent record and the owners' channels. *)

NoRecord == [task |-> Nobody, conn |-> Nobody]
Record(t, k) == [task |-> t, conn |-> k]

\* replace_connection: a resume moves the record and clears a mark set before.
ReplaceConnection(c, k) ==
    IF incumbent.task = c
    THEN incumbent' = Record(c, k) /\ displaced' = [displaced EXCEPT ![c] = FALSE]
    ELSE UNCHANGED <<incumbent, displaced>>

\* A take-over names the user who asks; other commands come without one.
Command(kind, from) ==
    [kind |-> kind, from |-> from, user |-> IF kind = "TakeOver" THEN task[from].user ELSE Nobody]

\* The receiver lives from issue_initial until the owner's task returns.
Listening(o) == o \in Conns /\ task[o].owns = "slot"

SendTo(o, command) == inbox' = IF Listening(o) THEN [inbox EXCEPT ![o] = Append(@, command)] ELSE inbox

Queued(c, kind) == {inbox[c][i].from : i \in {j \in DOMAIN inbox[c] : inbox[c][j].kind = kind}}
-----------------------------------------------------------------------------
(* Tasks. *)

\* A task's local state.  user: whom it signed in; sock: the connection it serves; session: the desktop
\* its lease or permit names; end, loss: how and when its attachment ended;
\* ref: what it remembers across an await (the record under proof, the owner
\* of its permit, the connection to resume on, or the claimant to answer).
Blank(pc) == [pc |-> pc, seen |-> FALSE, user |-> Nobody, sock |-> Nobody, session |-> 0, lease |-> "none",
              owns |-> "none", fsm |-> Machine!New, end |-> "none", loss |-> NoTime,
              ref |-> NoRecord]

Is(c, pc) == task[c].pc = pc
Goto(c, pc) == task' = [task EXCEPT ![c].pc = pc]
GotoWith(c, pc, ref) == task' = [task EXCEPT ![c].pc = pc, ![c].ref = ref]
Moved(c, kind, t) == Machine!Apply(task[c].fsm, Machine!Event(kind), t).machine
GotoMoved(c, pc, kind, t) == task' = [task EXCEPT ![c].pc = pc, ![c].fsm = Moved(c, kind, t)]

\* run_ws returns or unwinds: lease, display, admission, record and channel drop.
\* A lease that was not terminated disconnects; queued commands die unanswered.
LeaveAs(c, pc) ==
    /\ task' = [task EXCEPT ![c] = Blank(pc)]
    /\ slot' = IF slot = c THEN "free" ELSE slot
    /\ desktop' = IF task[c].lease = "held" THEN Disconnected(c) ELSE desktop
    /\ admitted' = IF admitted = c THEN Nobody ELSE admitted
    /\ incumbent' = IF incumbent.task = c THEN NoRecord ELSE incumbent
    /\ inbox' = [inbox EXCEPT ![c] = <<>>]
    /\ link' = [k \in Conns |->
                   IF k = task[c].sock \/ k \in Queued(c, "Resume") THEN "down" ELSE link[k]]
    /\ UNCHANGED <<cleanup, created, displaced, globalVars>>
Dropped(c) == [d \in Conns |-> IF d \in Queued(c, "TakeOver") THEN "dropped" ELSE answer[d]]
Return(c) == LeaveAs(c, "done") /\ answer' = Dropped(c)

Init ==
    /\ Registry!Init
    /\ slot = "free" /\ desktop = NoDesktop /\ cleanup = "none" /\ created = 0
    /\ admitted = Nobody
    /\ incumbent = NoRecord
    /\ displaced = [c \in Conns |-> FALSE]
    /\ link = [c \in Conns |-> "down"]
    /\ inbox = [c \in Conns |-> <<>>]
    /\ answer = [c \in Conns |-> "none"]
    /\ task = [c \in Conns |-> Blank("idle")]
    /\ now = 0
    /\ stop = "run"
=============================================================================
