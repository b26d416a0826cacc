------------------------- MODULE PierSessionProofs -------------------------
(***************************************************************************)
(* The safety properties of PierSession, proved for every number of          *)
(* connections, users, desktops, grants and generations.                     *)
(*                                                                         *)
(* The inductive invariant has six parts.  TypeOK and Placed are proved       *)
(* together: where a task stands decides what it holds (the admission, the    *)
(* lease, the slot), which is what makes the values it passes on well typed.  *)
(* EntryOwned ties the registry's entry to the one task that owns a session;   *)
(* ChannelsInOrder says what an owner's channel can hold in each state of the *)
(* entry; MarksTrue follows the incumbent record and the displacement marks;  *)
(* StopsInOrder follows the shutdown.                                         *)
(*                                                                         *)
(* A step is first reduced to what it makes of its task's record (Becomes),   *)
(* and the many steps that only move a task on to a table of moves            *)
(* (PlainMoves, QuietMoves); only the steps that touch the part of the state   *)
(* a conjunct speaks of are looked at one by one.                             *)
(*                                                                         *)
(* The records of a task are wide, and the first-order prover follows them    *)
(* much faster than the SMT encoding does: leaves name the one they are for.  *)
(***************************************************************************)
EXTENDS PierSession, TLAPS

-----------------------------------------------------------------------------
(* Where a task may stand, and what it then holds. *)

\* Program counters, by what the task has: before it owns or serves anything; attached or
\* about to detach; resuming; handing its desktop over.
Early == {"idle", "auth", "takeover", "answer", "slot", "proof", "close", "slotwait", "register",
          "admit", "acquire", "create", "setup"}
Attaching == {"send", "attached", "ended", "hold", "mark"}
Resumes == {"validate", "deliver", "rebind", "remark"}
HandingOver == {"retire", "retired", "restore", "release", "depart"}
OwnerPcs == Attaching \cup Resumes \cup HandingOver \cup {"waiting", "drain", "keep"}
TailPcs == {"undo", "terminate", "finish"}

\* From the admission on, with the lease, with the permit of the session slot, and with a
\* desktop to hold a display.
PastAdmit == {"acquire", "create", "setup", "plain", "kept"} \cup TailPcs \cup OwnerPcs
Leased == (PastAdmit \ {"acquire", "create", "finish"})
HasSlot == {"register", "admit", "acquire", "create", "setup", "send", "undo", "plain", "attached",
            "ended", "hold", "deliver", "rebind", "remark"}
MayHaveSlot == HasSlot \cup {"drain", "keep", "retire", "retired", "restore"}
WithDesktop == {"mark", "waiting", "validate", "drain", "keep", "terminate"}
PcSet == PastAdmit \cup Early \cup {"handoff", "notify", "done", "panicked"}
SignedIn == {"takeover", "answer", "slot", "proof", "close", "slotwait", "register",
          "admit"} \cup PastAdmit
PreRegister == Early \ {"admit", "acquire", "create", "setup"}

\* The types of the state.
Anyone == Conns \cup {Nobody}
Refs == [task : Anyone, conn : Anyone]
Tasks == [pc : PcSet, seen : BOOLEAN, user : Users \cup {Nobody}, sock : Anyone,
          session : 0 .. MaxDesktops, lease : {"none", "held"}, owns : {"none", "slot"},
          fsm : Machine!Machines, end : {"none", "loss", "closed", "native"}, loss : Nat \cup {NoTime}, ref : Refs]
Commands == [kind : {"Resume", "Terminal", "TakeOver", "PierShutdown"}, from : Anyone, user : Users \cup {Nobody}]

Owns(c) == task[c].owns = "slot"

\* The type invariant.
TypeOK ==
    /\ entry \in Registry!Entries \cup {NoEntry}
    /\ issued \in 0 .. MaxNonce
    /\ slot \in Conns \cup {"free", "held", "cleanup"}
    /\ admitted \in Anyone
    /\ desktop \in Desktops \cup {NoDesktop}
    /\ cleanup \in {"none", "running"}
    /\ created \in 0 .. MaxDesktops
    /\ incumbent \in Refs
    /\ displaced \in [Conns -> BOOLEAN]
    /\ link \in [Conns -> {"up", "down"}]
    /\ inbox \in [Conns -> Seq(Commands)]
    /\ task \in [Conns -> Tasks]
    /\ now \in Nat

\* What c holds follows from where it stands: past its admission it is the admitted one;
\* an owner is at an owner's step; the lease, the slot and the desktop are its own; only
\* an owner has a channel.
TaskPlaced(c) ==
    /\ task[c].pc \in PastAdmit <=> admitted = c
    /\ task[c].pc \in OwnerPcs => Owns(c)
    /\ Owns(c) => task[c].pc \in OwnerPcs \cup TailPcs
    /\ task[c].lease = "held" <=> task[c].pc \in Leased
    /\ task[c].pc \in HasSlot => slot = c
    /\ slot = c => task[c].pc \in MayHaveSlot
    /\ task[c].lease = "held" /\ desktop # NoDesktop =>
           desktop.id = task[c].session /\ desktop.user = task[c].user /\ desktop.client = "connected"
    /\ Is(c, "create") => cleanup = "none" /\ desktop = NoDesktop
    /\ task[c].pc \in SignedIn => task[c].user \in Users
    /\ ~Owns(c) => inbox[c] = <<>>

\* A held display belongs to a desktop with a running owner, a display in cleanup to a
\* running cleanup.
DisplayPlaced ==
    /\ cleanup = "running" => desktop = NoDesktop
    /\ slot = "held" => desktop # NoDesktop
    /\ slot = "cleanup" => cleanup = "running"
    /\ slot = "held" /\ Unaborted => \E c \in Conns : Owns(c) /\ task[c].pc \in WithDesktop

Placed == DisplayPlaced /\ \A c \in Conns : TaskPlaced(c)

-----------------------------------------------------------------------------
(* Types. *)

\* Every event leaves a reconnect machine in the machine's type
\* (DirectOwnerMachine::apply).
LEMMA MachineType ==
  ASSUME NEW m \in Machine!Machines, NEW event, NEW t \in Nat
  PROVE  Machine!Apply(m, event, t).machine \in Machine!Machines
<1>1. Machine!Detach(m, t).machine \in Machine!Machines
  BY SMTT(60), MachineAssumption DEF Machine!Detach, Machine!Outcome, Machine!Machines, Machine!Phases,
     Machine!Generations
<1>2. Machine!BeginDrain(m).machine \in Machine!Machines
  BY SMTT(60), MachineAssumption DEF Machine!BeginDrain, Machine!Leave, Machine!Outcome, Machine!Machines,
     Machine!Phases, Machine!Generations
<1>3. Machine!Redetach(m).machine \in Machine!Machines
  BY Zenon DEF Machine!Redetach, Machine!Outcome, Machine!Machines, Machine!Phases
<1>4. \A d, tm : \A p \in Machine!Phases : Machine!Outcome([m EXCEPT !.phase = p], d, tm).machine \in Machine!Machines
  BY Zenon DEF Machine!Outcome, Machine!Machines, Machine!Phases
<1>5. \A d, tm : /\ Machine!Outcome(Machine!Leave(m, "Attached"), d, tm).machine \in Machine!Machines
                 /\ Machine!Outcome(m, d, tm).machine \in Machine!Machines
  BY SMTT(60), MachineAssumption DEF Machine!Outcome, Machine!Leave, Machine!Machines, Machine!Phases,
     Machine!Generations
<1> QED
  BY Zenon, <1>1, <1>2, <1>3, <1>4, <1>5 DEF Machine!Apply, Machine!Phases

\* A task that returned or was never started has the type of a task.
LEMMA BlankType ==
  ASSUME NEW pc \in PcSet
  PROVE  Blank(pc) \in Tasks
BY SMTT(60), MachineAssumption, DesktopsAssumption DEF Blank, Tasks, Machine!New, Machine!Machines,
   Machine!Phases, Machine!Generations,
   Anyone, Refs, NoRecord

\* A task's machine stays a machine when the task moves it.
LEMMA MovedType ==
  ASSUME TypeOK, NEW c \in Conns
  PROVE  /\ \A kind : \A t \in Nat : Moved(c, kind, t) \in Machine!Machines
         /\ \A event : \A t \in Nat : Machine!Apply(task[c].fsm, event, t).machine \in Machine!Machines
BY Zenon, MachineType DEF Moved, TypeOK, Tasks

\* What the Pier sends to an owner is a command.
LEMMA CommandType ==
  ASSUME TypeOK, NEW c \in Conns
  PROVE  /\ \A kind \in {"Resume", "Terminal", "TakeOver"} : Command(kind, c) \in Commands
         /\ Command("PierShutdown", Nobody) \in Commands
BY Zenon DEF Command, Commands, TypeOK, Tasks, Anyone

\* Every program counter the actions name is one.
LEMMA Pcs ==
    {"idle", "auth", "takeover", "answer", "slot", "proof", "close", "slotwait", "register",
     "admit", "acquire", "create", "setup", "send", "attached", "ended", "hold", "mark",
     "validate", "deliver", "rebind", "remark", "retire", "retired", "restore", "release", "depart",
     "waiting", "drain", "keep", "undo", "terminate", "finish", "plain", "kept", "handoff", "notify", "done", "panicked"} \subseteq PcSet
BY ZenonT(60) DEF Early, Attaching, Resumes, HandingOver, OwnerPcs, TailPcs, PastAdmit, PcSet

\* A task's record after each kind of change a step makes to it.
LEMMA Update ==
  ASSUME NEW r \in Tasks, NEW p \in PcSet
  PROVE  /\ [r EXCEPT !.pc = p] \in Tasks
         /\ \A m \in Machine!Machines : /\ [r EXCEPT !.pc = p, !.fsm = m] \in Tasks
                                        /\ [r EXCEPT !.fsm = m, !.pc = p] \in Tasks
         /\ \A f \in Refs : [r EXCEPT !.pc = p, !.ref = f] \in Tasks
         /\ \A f \in Refs, m \in Machine!Machines : [r EXCEPT !.pc = p, !.ref = f, !.fsm = m] \in Tasks
         /\ \A k \in Conns, b \in BOOLEAN : [r EXCEPT !.pc = p, !.sock = k, !.seen = b] \in Tasks
         /\ \A k \in Anyone : [r EXCEPT !.pc = p, !.sock = k] \in Tasks
         /\ \A i \in 0 .. MaxDesktops, f \in Refs : [r EXCEPT !.pc = p, !.session = i, !.ref = f] \in Tasks
         /\ \A i \in 0 .. MaxDesktops : [r EXCEPT !.pc = p, !.lease = "held", !.session = i] \in Tasks
         /\ [r EXCEPT !.pc = p, !.lease = "none"] \in Tasks
         /\ [r EXCEPT !.pc = p, !.owns = "slot"] \in Tasks
         /\ \A u \in Users : [r EXCEPT !.user = u, !.pc = p] \in Tasks
         /\ \A e \in {"loss", "closed", "native"}, l \in Nat \cup {NoTime} :
               [r EXCEPT !.pc = p, !.end = e, !.loss = l] \in Tasks
BY ZenonT(60) DEF Tasks, Anyone

\* Replacing one record of the task table keeps the table's type.
LEMMA Put ==
  ASSUME TypeOK, NEW c \in Conns, NEW r \in Tasks, task' = [task EXCEPT ![c] = r]
  PROVE  task' \in [Conns -> Tasks]
BY Zenon DEF TypeOK

\* The elementary moves (Goto, GotoMoved, EndAttachment, StartHandOver, LeaveAs) keep the
\* table's type.
LEMMA GotoType ==
  ASSUME TypeOK, NEW c \in Conns
  PROVE  /\ \A p \in PcSet : Goto(c, p) => task' \in [Conns -> Tasks]
         /\ \A p \in PcSet, f \in Refs : GotoWith(c, p, f) => task' \in [Conns -> Tasks]
         /\ \A kind : \A p \in PcSet, t \in Nat : GotoMoved(c, p, kind, t) => task' \in [Conns -> Tasks]
         /\ \A e \in {"loss", "closed", "native"}, l \in Nat \cup {NoTime} :
              EndAttachment(c, e, l) => task' \in [Conns -> Tasks]
<1>1. task[c] \in Tasks
  BY Zenon DEF TypeOK
<1>2. ASSUME NEW p \in PcSet, Goto(c, p) PROVE task' \in [Conns -> Tasks]
  BY Zenon, <1>1, <1>2, Update, Put DEF Goto
<1>3. ASSUME NEW p \in PcSet, NEW f \in Refs, GotoWith(c, p, f) PROVE task' \in [Conns -> Tasks]
  <2>1. PICK r \in Tasks : r = [task[c] EXCEPT !.pc = p, !.ref = f]
    BY Zenon, <1>1, Update
  <2>2. task' = [task EXCEPT ![c] = r]
    BY Zenon, <1>3, <2>1 DEF GotoWith
  <2> QED
    BY Zenon, <2>2, Put
<1>4. ASSUME NEW p \in PcSet, NEW kind, NEW t \in Nat, GotoMoved(c, p, kind, t) PROVE task' \in [Conns -> Tasks]
  <2>0. Moved(c, kind, t) \in Machine!Machines
    BY Zenon, MovedType
  <2>1. PICK r \in Tasks : r = [task[c] EXCEPT !.pc = p, !.fsm = Moved(c, kind, t)]
    BY Zenon, <1>1, Update, <2>0
  <2>2. task' = [task EXCEPT ![c] = r]
    BY Zenon, <1>4, <2>1 DEF GotoMoved
  <2> QED
    BY Zenon, <2>2, Put
<1>5. ASSUME NEW e \in {"loss", "closed", "native"}, NEW l \in Nat \cup {NoTime}, EndAttachment(c, e, l)
      PROVE  task' \in [Conns -> Tasks]
  <2>1. PICK r \in Tasks : r = [task[c] EXCEPT !.pc = "ended", !.end = e, !.loss = l]
    BY ZenonT(60), <1>1, Update, Pcs
  <2>2. task' = [task EXCEPT ![c] = r]
    BY Zenon, <1>5, <2>1 DEF EndAttachment
  <2> QED
    BY Zenon, <2>2, Put
<1> QED
  BY Zenon, <1>2, <1>3, <1>4, <1>5

\* A grant is only accepted, or ends the session, while the entry is detached.
LEMMA PresentedFacts ==
  ASSUME TypeOK, NEW c \in Conns, PrepareResume(c)
  PROVE  \E g, v : /\ Answered(c, g, v)
                   /\ v \in {"permit", "drained", "exhausted"} => entry # NoEntry /\ entry.state = "Detached"
                   /\ v = "permit" => ~Registry!Exhausted(entry)
                   /\ v \in {"permit", "drained", "exhausted", "gone", "rejected"}
BY Zenon DEF PrepareResume, Registry!Verdict

\* What a connection's step makes of its own record has the type of one.
LEMMA TaskType ==
  ASSUME TypeOK, NEW c \in Conns, Connect(c) \/ TaskStep(c) \/ Served(c) \/ LinkLost(c)
  PROVE  task' \in [Conns -> Tasks]
<1>1. task[c] \in Tasks /\ now \in Nat /\ incumbent \in Refs
  BY Zenon DEF TypeOK
<1>2. \A pc \in {"done", "panicked"} : LeaveAs(c, pc) => task' \in [Conns -> Tasks]
  <2> SUFFICES ASSUME NEW pc \in {"done", "panicked"}, LeaveAs(c, pc)
               PROVE  task' \in [Conns -> Tasks]
    BY Zenon
  <2>1. Blank(pc) \in Tasks
    BY Zenon, Pcs, BlankType
  <2> QED
    BY Zenon, <2>1, Put DEF LeaveAs
<1>3. Return(c) => task' \in [Conns -> Tasks]
  BY Zenon, <1>2 DEF Return
<1>4. ASSUME Connect(c) PROVE task' \in [Conns -> Tasks]
  <2>0. \E b \in BOOLEAN : b = (entry # NoEntry /\ entry.state \in {"Detached", "Resuming"})
    BY Zenon
  <2>1. PICK b \in BOOLEAN : b = (entry # NoEntry /\ entry.state \in {"Detached", "Resuming"})
    BY Zenon, <2>0
  <2>2. PICK r \in Tasks : r = [task[c] EXCEPT !.pc = "auth", !.sock = c, !.seen = b]
    BY ZenonT(60), <1>1, Pcs, Update
  <2>3. task' = [task EXCEPT ![c] = r]
    BY Zenon, <1>4, <2>1, <2>2 DEF Connect
  <2> QED
    BY Zenon, <2>3, Put
<1>5. ASSUME PrepareResume(c) PROVE task' \in [Conns -> Tasks]
  <2>1. PICK g, v : Answered(c, g, v) /\ (v \in {"permit", "drained"} => entry # NoEntry)
    BY Zenon, <1>5, PresentedFacts
  <2>2. CASE Return(c)
    BY Zenon, <2>2, <1>3
  <2>3. CASE ~Return(c)
    <3>1. entry # NoEntry
      BY Zenon, <2>1, <2>3 DEF Answered
    <3>2. entry.session \in 0 .. MaxDesktops /\ Record(entry.owner, Nobody) \in Refs
      BY SMTT(60), <3>1, DesktopsAssumption DEF TypeOK, Registry!Entries, Record, Refs, Anyone
    <3>3. PICK p \in PcSet : p = IF v = "permit" THEN "handoff" ELSE "notify"
      BY Zenon, Pcs
    <3>4. PICK r \in Tasks : r = [task[c] EXCEPT !.pc = p, !.session = entry.session, !.ref = Record(entry.owner, Nobody)]
      BY Zenon, <1>1, <3>2, Update
    <3>5. task' = [task EXCEPT ![c] = r]
      BY Zenon, <2>1, <2>3, <3>3, <3>4 DEF Answered
    <3> QED
      BY Zenon, <3>5, Put
  <2> QED
    BY Zenon, <2>2, <2>3
<1>6. ASSUME Handoff(c) \/ NotifyOwner(c) PROVE task' \in [Conns -> Tasks]
  <2>1. Blank("done") \in Tasks
    BY Zenon, Pcs, BlankType
  <2> QED
    BY Zenon, <1>3, <1>6, <2>1, Put DEF Handoff, NotifyOwner
<1>7. ASSUME SignIn(c) PROVE task' \in [Conns -> Tasks]
  <2>1. PICK u \in Users : task' = [task EXCEPT ![c].user = u, ![c].pc = IF task[c].seen THEN "takeover" ELSE "slot"]
    BY Zenon, <1>7 DEF SignIn
  <2>2. PICK p \in PcSet : p = IF task[c].seen THEN "takeover" ELSE "slot"
    BY Zenon, Pcs
  <2>3. PICK r \in Tasks : r = [task[c] EXCEPT !.user = u, !.pc = p]
    BY Zenon, <1>1, Update
  <2>4. task' = [task EXCEPT ![c] = r]
    BY Zenon, <2>1, <2>2, <2>3
  <2> QED
    BY Zenon, <2>4, Put
<1>8. ASSUME TrySlot(c) \/ SlotFreed(c) \/ IncumbentAlive(c) PROVE task' \in [Conns -> Tasks]
  <2>1. CASE TakeSlot(c) \/ Return(c)
    BY Zenon, <2>1, <1>3, Pcs, GotoType DEF TakeSlot
  <2>2. CASE ~TakeSlot(c) /\ ~Return(c)
    <3>1. PICK p \in PcSet : GotoWith(c, p, incumbent)
      BY Zenon, <1>8, <2>2, Pcs DEF TrySlot, SlotFreed, IncumbentAlive
    <3> QED
      BY Zenon, <3>1, <1>1, GotoType
  <2> QED
    BY Zenon, <2>1, <2>2
<1>9. ASSUME AcquireDesktop(c) PROVE task' \in [Conns -> Tasks]
  <2>1. CASE Return(c) \/ Goto(c, "create") \/ task' = task
    BY Zenon, <1>3, <2>1, Pcs, GotoType DEF TypeOK
  <2>2. CASE desktop # NoDesktop
             /\ task' = [task EXCEPT ![c].pc = "setup", ![c].lease = "held", ![c].session = desktop.id]
    <3>1. desktop.id \in 0 .. MaxDesktops
      BY SMTT(60), <2>2, DesktopsAssumption DEF TypeOK, Desktops
    <3>2. PICK r \in Tasks : r = [task[c] EXCEPT !.pc = "setup", !.lease = "held", !.session = desktop.id]
      BY Zenon, <1>1, <3>1, Pcs, Update
    <3>3. task' = [task EXCEPT ![c] = r]
      BY Zenon, <2>2, <3>2
    <3> QED
      BY Zenon, <3>3, Put
  <2> QED
    BY Zenon, <1>9, <2>1, <2>2 DEF AcquireDesktop
<1>10. ASSUME CreateDesktop(c) PROVE task' \in [Conns -> Tasks]
  <2>1. created + 1 \in 0 .. MaxDesktops
    BY SMTT(60), <1>10, DesktopsAssumption DEF CreateDesktop, TypeOK
  <2>2. PICK r \in Tasks : r = [task[c] EXCEPT !.pc = "setup", !.lease = "held", !.session = created + 1]
    BY Zenon, <1>1, <2>1, Pcs, Update
  <2>3. task' = [task EXCEPT ![c] = r]
    BY Zenon, <1>10, <2>2 DEF CreateDesktop
  <2> QED
    BY Zenon, <2>3, Put
<1>11. ASSUME IssueGrant(c) PROVE task' \in [Conns -> Tasks]
  <2>1. PICK r \in Tasks : r = [task[c] EXCEPT !.pc = "send", !.owns = "slot"]
    BY Zenon, <1>1, Pcs, Update
  <2>2. task' = [task EXCEPT ![c] = r]
    BY Zenon, <1>11, <2>1 DEF IssueGrant
  <2> QED
    BY Zenon, <2>2, Put
<1>12. ASSUME EndLost(c) PROVE task' \in [Conns -> Tasks]
  <2>1. PICK out : /\ out = Machine!Apply(task[c].fsm, Machine!Event("UnexpectedLoss"), task[c].loss)
                   /\ task' = [task EXCEPT ![c].fsm = out.machine,
                         ![c].pc = IF "hold_restore_leases" \in out.do THEN "hold" ELSE "drain"]
    BY Zenon, <1>12 DEF EndLost
  <2>2. task[c].loss \in Nat
    BY Zenon, <1>1, <1>12 DEF EndLost, Tasks
  <2>3. out.machine \in Machine!Machines
    BY Zenon, <2>1, <2>2, MovedType
  <2>4. PICK p \in PcSet : p = IF "hold_restore_leases" \in out.do THEN "hold" ELSE "drain"
    BY Zenon, Pcs
  <2>5. PICK r \in Tasks : r = [task[c] EXCEPT !.fsm = out.machine, !.pc = p]
    BY Zenon, <1>1, <2>3, Update
  <2>6. task' = [task EXCEPT ![c] = r]
    BY Zenon, <2>1, <2>4, <2>5
  <2> QED
    BY Zenon, <2>6, Put
<1>13. ASSUME DeadlineReached(c) PROVE task' \in [Conns -> Tasks]
  <2>1. PICK m \in Machine!Machines :
          m = Machine!Apply(task[c].fsm, Machine!DeadlineReached(task[c].fsm.generation), now).machine
    BY Zenon, <1>1, MovedType
  <2>2. PICK r \in Tasks : r = [task[c] EXCEPT !.pc = "drain", !.fsm = m]
    BY Zenon, <1>1, Pcs, Update
  <2>3. task' = [task EXCEPT ![c] = r]
    BY Zenon, <1>13, <2>1, <2>2 DEF DeadlineReached
  <2> QED
    BY Zenon, <2>3, Put
<1>14. ASSUME NEW k \in Anyone, StartHandOver(c, k) PROVE task' \in [Conns -> Tasks]
  <2>1. PICK m \in Machine!Machines : m = Moved(c, "ExplicitDisconnect", now)
    BY Zenon, <1>1, MovedType
  <2>2. Record(k, Nobody) \in Refs
    BY Zenon DEF Record, Refs, Anyone
  <2>3. PICK r \in Tasks : r = [task[c] EXCEPT !.pc = "retire", !.ref = Record(k, Nobody), !.fsm = m]
    BY Zenon, <1>1, <2>2, Pcs, Update
  <2>4. task' = [task EXCEPT ![c] = r]
    BY Zenon, <1>14, <2>1, <2>3 DEF StartHandOver
  <2> QED
    BY Zenon, <2>4, Put
<1>15. ASSUME inbox[c] # <<>> PROVE Sender(c) \in Anyone
  <2>1. inbox[c] \in Seq(Commands)
    BY Zenon DEF TypeOK
  <2>2. Head(inbox[c]) \in Commands
    BY SMTT(60), <1>15, <2>1
  <2> QED
    BY Zenon, <2>2 DEF Sender, Commands
<1>16. ASSUME WaitDisplaced(c) \/ ReceiveTakeOver(c) PROVE task' \in [Conns -> Tasks]
  <2>1. task' = task \/ StartHandOver(c, Nobody) \/ (inbox[c] # <<>> /\ StartHandOver(c, Sender(c)))
    BY Zenon, <1>16 DEF WaitDisplaced, ReceiveTakeOver, Received
  <2> QED
    BY Zenon, <2>1, <1>14, <1>15 DEF TypeOK, Anyone
<1>17. ASSUME ReceiveResume(c) PROVE task' \in [Conns -> Tasks]
  <2>1. CASE GotoMoved(c, "drain", "ExplicitDisconnect", now)
    BY Zenon, <2>1, <1>1, Pcs, GotoType
  <2>2. CASE task' = [task EXCEPT ![c].pc = "validate", ![c].ref = Record(Nobody, Sender(c)),
                         ![c].fsm = Moved(c, "BeginResume", now)]
    <3>1. PICK m \in Machine!Machines : m = Moved(c, "BeginResume", now)
      BY Zenon, <1>1, MovedType
    <3>2. Record(Nobody, Sender(c)) \in Refs
      BY Zenon, <1>15, <1>17 DEF Record, Refs, Anyone, ReceiveResume, Received
    <3>3. PICK r \in Tasks : r = [task[c] EXCEPT !.pc = "validate", !.ref = Record(Nobody, Sender(c)), !.fsm = m]
      BY Zenon, <1>1, <3>2, Pcs, Update
    <3>4. task' = [task EXCEPT ![c] = r]
      BY Zenon, <2>2, <3>1, <3>3
    <3> QED
      BY Zenon, <3>4, Put
  <2> QED
    BY Zenon, <1>17, <2>1, <2>2 DEF ReceiveResume
<1>18. ASSUME Rebind(c) PROVE task' \in [Conns -> Tasks]
  <2>1. task[c].ref.conn \in Anyone
    BY Zenon, <1>1 DEF Tasks, Refs
  <2>2. PICK r \in Tasks : r = [task[c] EXCEPT !.pc = "remark", !.sock = task[c].ref.conn]
    BY Zenon, <1>1, <2>1, Pcs, Update
  <2>3. task' = [task EXCEPT ![c] = r]
    BY Zenon, <1>18, <2>2 DEF Rebind
  <2> QED
    BY Zenon, <2>3, Put
<1>19. ASSUME Terminate(c) PROVE task' \in [Conns -> Tasks]
  <2>1. PICK r \in Tasks : r = [task[c] EXCEPT !.pc = "finish", !.lease = "none"]
    BY Zenon, <1>1, Pcs, Update
  <2>2. task' = [task EXCEPT ![c] = r]
    BY Zenon, <1>19, <2>1 DEF Terminate
  <2> QED
    BY Zenon, <2>2, Put
<1>20. ASSUME \/ RequestTakeOver(c) \/ TakeOverGranted(c) \/ IncumbentSilent(c) \/ CloseSilent(c)
              \/ Register(c) \/ Admit(c) \/ IssueFails(c) \/ SendGrant(c) \/ SendGrantFails(c)
              \/ ServePlain(c) \/ UndoSetup(c) \/ PlainEnds(c) \/ HoldForResume(c) \/ MarkDetached(c)
              \/ DeliverSuccessor(c) \/ RecordSuperseded(c) \/ DrainForSuccessor(c)
              \/ RestoreForSuccessor(c) \/ ReleaseSlot(c) \/ DrainSlot(c) \/ KeepDisplay(c)
       PROVE  task' \in [Conns -> Tasks]
  <2>1. PICK p \in PcSet : Goto(c, p)
    BY ZenonT(60), <1>20, Pcs DEF RequestTakeOver, TakeOverGranted, IncumbentSilent, CloseSilent, Register, Admit,
       IssueFails, SendGrant, SendGrantFails, ServePlain, UndoSetup, PlainEnds, RestoreDisplay, HoldForResume,
       MarkDetached, DeliverSuccessor, RecordSuperseded, DrainForSuccessor, RestoreForSuccessor,
       ReleaseSlot, DrainSlot, KeepDisplay
  <2> QED
    BY Zenon, <2>1, GotoType
<1>21. ASSUME \/ EndDisplaced(c) \/ EndTerminal(c) \/ ReceiveTerminal(c) \/ MonitorFails(c)
              \/ ValidateResume(c) \/ DeliveryFails(c) \/ MarkAttached(c)
       PROVE  task' \in [Conns -> Tasks]
  <2>1. \/ \E p \in PcSet : Goto(c, p)
        \/ \E p \in PcSet, kind \in {"ExplicitDisconnect", "NativeSessionEnded", "OwnerCrashed", "ResumeAccepted"} :
              GotoMoved(c, p, kind, now)
    BY Zenon, <1>21, Pcs DEF EndDisplaced, EndTerminal, ReceiveTerminal, MonitorFails, ValidateResume,
       DeliveryFails, MarkAttached
  <2> QED
    BY Zenon, <2>1, <1>1, GotoType
<1>22. ASSUME \/ AttachmentLost(c) \/ SetupWriterEnds(c) \/ AttachmentCloses(c)
              \/ AttachmentCommanded(c) \/ RefreshFails(c)
       PROVE  task' \in [Conns -> Tasks]
  <2>1. PICK e \in {"loss", "closed", "native"}, l \in Nat \cup {NoTime} : EndAttachment(c, e, l)
    BY Zenon, <1>1, <1>22 DEF AttachmentLost, SetupWriterEnds, AttachmentCloses, AttachmentCommanded, RefreshFails
  <2> QED
    BY Zenon, <2>1, GotoType
<1>23. ASSUME \/ SignInFails(c) \/ TakeOverRefused(c) \/ SlotTimeout(c) \/ AdmitTimeout(c)
              \/ SetupFails(c) \/ PlainReturns(c) \/ OwnerPanics(c) \/ HandOver(c) \/ Finish(c) \/ Abort(c)
       PROVE  task' \in [Conns -> Tasks]
  BY Zenon, <1>2, <1>23 DEF SignInFails, TakeOverRefused, SlotTimeout, AdmitTimeout, SetupFails,
     PlainReturns, OwnerPanics, HandOver, Finish, Abort, Return
<1>24. ASSUME RefreshGrant(c) \/ LinkLost(c) PROVE task' \in [Conns -> Tasks]
  BY Zenon, <1>24 DEF RefreshGrant, LinkLost, TypeOK
<1> QED
  BY Zenon, <1>4, <1>5, <1>6, <1>7, <1>8, <1>9, <1>10, <1>11, <1>12, <1>13, <1>16, <1>17, <1>18, <1>19,
     <1>20, <1>21, <1>22, <1>23, <1>24 DEF TaskStep, Served

\* The types of the shared objects.
SharedTypeOK ==
    /\ entry \in Registry!Entries \cup {NoEntry}
    /\ issued \in 0 .. MaxNonce
    /\ slot \in Conns \cup {"free", "held", "cleanup"}
    /\ admitted \in Anyone
    /\ desktop \in Desktops \cup {NoDesktop}
    /\ cleanup \in {"none", "running"}
    /\ created \in 0 .. MaxDesktops
    /\ incumbent \in Refs
    /\ displaced \in [Conns -> BOOLEAN]
    /\ link \in [Conns -> {"up", "down"}]
    /\ now \in Nat

\* Everything but the registry's own variables.
LEMMA LeaveShared ==
  ASSUME TypeOK, NEW c \in Conns, NEW pc, LeaveAs(c, pc)
  PROVE /\ slot' \in Conns \cup {"free", "held", "cleanup"}
        /\ admitted' \in Anyone
        /\ desktop' \in Desktops \cup {NoDesktop}
        /\ cleanup' \in {"none", "running"}
        /\ created' \in 0 .. MaxDesktops
        /\ incumbent' \in Refs
        /\ displaced' \in [Conns -> BOOLEAN]
        /\ link' \in [Conns -> {"up", "down"}]
        /\ now' \in Nat
        /\ desktop = NoDesktop => desktop' = NoDesktop
        /\ desktop # NoDesktop => desktop' # NoDesktop
<1>1. Disconnected(c) \in Desktops \cup {NoDesktop}
  BY Zenon DEF Disconnected, Serves, TypeOK, Desktops
<1>2. link' \in [Conns -> {"up", "down"}]
  BY Zenon DEF LeaveAs, TypeOK
<1>3. NoRecord \in Refs
  BY Zenon DEF NoRecord, Refs, Anyone
<1>4. Disconnected(c) = NoDesktop <=> desktop = NoDesktop
  BY Zenon, NothingAssumption DEF Disconnected, TypeOK, Desktops, Serves
<1> QED
  BY Zenon, <1>1, <1>2, <1>3, <1>4 DEF LeaveAs, TypeOK, Anyone, globalVars

\* Connections and displacement marks keep their types when one is closed, set or cleared.
LEMMA FlagType ==
  ASSUME TypeOK
  PROVE  /\ \A k : [link EXCEPT ![k] = "down"] \in [Conns -> {"up", "down"}]
         /\ \A k : \A b \in BOOLEAN : [displaced EXCEPT ![k] = b] \in [Conns -> BOOLEAN]
<1>1. ASSUME NEW k PROVE [link EXCEPT ![k] = "down"] \in [Conns -> {"up", "down"}]
  BY Zenon DEF TypeOK
<1>2. ASSUME NEW k, NEW b \in BOOLEAN PROVE [displaced EXCEPT ![k] = b] \in [Conns -> BOOLEAN]
  <2>1. displaced \in [Conns -> BOOLEAN]
    BY Zenon DEF TypeOK
  <2> QED
    BY <2>1, Zenon
<1> QED
  BY Zenon, <1>1, <1>2

\* The registry's operations build entries (resume.rs).
LEMMA EntryType ==
  ASSUME TypeOK, entry # NoEntry
  PROVE  /\ Registry!Revoked(entry) \in Registry!Entries
         /\ issued < MaxNonce /\ ~Registry!Exhausted(entry) =>
              \A state \in Registry!EntryStates : Registry!Rotated(entry, issued + 1, state) \in Registry!Entries
         /\ \A state \in Registry!EntryStates : [entry EXCEPT !.state = state] \in Registry!Entries
<1> USE GrantAssumption DEF Registry!Entries, Registry!GrantGens, Registry!EntryStates
<1>1. Registry!Revoked(entry) \in Registry!Entries
  BY SMTT(60) DEF Registry!Revoked, TypeOK
<1>2. ASSUME NEW state \in Registry!EntryStates, issued < MaxNonce, ~Registry!Exhausted(entry)
      PROVE  Registry!Rotated(entry, issued + 1, state) \in Registry!Entries
  BY SMTT(60), <1>2 DEF Registry!Rotated, Registry!Exhausted, TypeOK
<1>3. ASSUME NEW state \in Registry!EntryStates
      PROVE  [entry EXCEPT !.state = state] \in Registry!Entries
  BY Zenon, <1>3 DEF TypeOK
<1> QED
  BY ZenonT(60), <1>1, <1>2, <1>3

\* Channels stay sequences of commands when sent to, consumed or dropped.
LEMMA InboxType ==
  ASSUME TypeOK
  PROVE  /\ \A o : \A m \in Commands : SendTo(o, m) => inbox' \in [Conns -> Seq(Commands)]
         /\ \A c \in Conns : inbox[c] # <<>> => [inbox EXCEPT ![c] = Tail(@)] \in [Conns -> Seq(Commands)]
         /\ \A c \in Conns : [inbox EXCEPT ![c] = <<>>] \in [Conns -> Seq(Commands)]
<1>1. inbox \in [Conns -> Seq(Commands)]
  BY Zenon DEF TypeOK
<1>2. ASSUME NEW o, NEW m \in Commands, SendTo(o, m) PROVE inbox' \in [Conns -> Seq(Commands)]
  BY SMTT(60), <1>1, <1>2 DEF SendTo, Listening
<1>3. ASSUME NEW c \in Conns, inbox[c] # <<>> PROVE [inbox EXCEPT ![c] = Tail(@)] \in [Conns -> Seq(Commands)]
  BY SMTT(60), <1>1, <1>3
<1>4. ASSUME NEW c \in Conns PROVE [inbox EXCEPT ![c] = <<>>] \in [Conns -> Seq(Commands)]
  BY SMTT(60), <1>1, <1>4
<1> QED
  BY Zenon, <1>2, <1>3, <1>4

\* The shared objects keep their types at every step of a connection's task.
LEMMA SharedType ==
  ASSUME TypeOK, Placed, NEW c \in Conns, Connect(c) \/ TaskStep(c) \/ Served(c) \/ LinkLost(c)
  PROVE  SharedTypeOK'
<1> USE DEF TypeOK, SharedTypeOK, registryVars, desktopVars, peerVars, channelVars, globalVars
<1>1. ASSUME UNCHANGED <<registryVars, desktopVars, admitted, globalVars>>, UNCHANGED incumbent,
             \/ UNCHANGED <<displaced, link>>
             \/ \E k : displaced' = [displaced EXCEPT ![k] = TRUE] /\ UNCHANGED link
             \/ \E k : UNCHANGED displaced /\ link' = [link EXCEPT ![k] = "down"]
             \/ \E k : UNCHANGED displaced /\ link' = [link EXCEPT ![k] = "up"]
      PROVE  SharedTypeOK'
  BY Zenon, <1>1, FlagType
<1>2. CASE \/ Connect(c) \/ NotifyOwner(c) \/ SignIn(c) \/ RequestTakeOver(c) \/ TakeOverGranted(c)
           \/ IncumbentSilent(c) \/ CloseSilent(c) \/ IssueFails(c) \/ SendGrant(c) \/ ServePlain(c)
           \/ EndDisplaced(c) \/ EndTerminal(c) \/ EndLost(c) \/ DeadlineReached(c) \/ ReceiveTerminal(c)
           \/ MonitorFails(c) \/ ReceiveResume(c) \/ DeliverSuccessor(c)
           \/ AttachmentLost(c) \/ SetupWriterEnds(c) \/ AttachmentCloses(c) \/ AttachmentCommanded(c)
           \/ LinkLost(c)
  BY Zenon, <1>1, <1>2 DEF Connect, NotifyOwner, SignIn, RequestTakeOver, TakeOverGranted, IncumbentSilent,
     CloseSilent, IssueFails, SendGrant, ServePlain, EndDisplaced, EndTerminal, EndLost, DeadlineReached,
     ReceiveTerminal, MonitorFails, ReceiveResume, Hangup, DeliverSuccessor, AttachmentLost,
     SetupWriterEnds, AttachmentCloses, AttachmentCommanded, LinkLost
<1>3. CASE \/ SignInFails(c) \/ TakeOverRefused(c) \/ SlotTimeout(c) \/ AdmitTimeout(c) \/ SetupFails(c)
           \/ PlainReturns(c) \/ OwnerPanics(c) \/ HandOver(c) \/ Abort(c)
  BY Zenon, <1>3, LeaveShared DEF SignInFails, TakeOverRefused, SlotTimeout, AdmitTimeout, SetupFails,
     PlainReturns, OwnerPanics, HandOver, Abort, Return
<1>4. CASE TrySlot(c) \/ IncumbentAlive(c) \/ SlotFreed(c)
  BY Zenon, <1>4, LeaveShared DEF TrySlot, IncumbentAlive, SlotFreed, TakeSlot, Return
<1>5. CASE \/ UndoSetup(c) \/ PlainEnds(c) \/ RestoreForSuccessor(c) \/ HoldForResume(c) \/ KeepDisplay(c)
           \/ WaitDisplaced(c) \/ ReceiveTakeOver(c) \/ Admit(c)
  BY Zenon, <1>5 DEF UndoSetup, PlainEnds, RestoreForSuccessor, RestoreDisplay, HoldForResume, KeepDisplay,
     HoldDisplay, WaitDisplaced, ReceiveTakeOver, StartHandOver, Admit, Anyone
<1>6. CASE \/ SendGrantFails(c) \/ RefreshFails(c) \/ DeliveryFails(c) \/ DrainForSuccessor(c) \/ DrainSlot(c)
           \/ MarkDetached(c) \/ MarkAttached(c) \/ RecordSuperseded(c) \/ ReleaseSlot(c)
  BY Zenon, <1>6, EntryType, FlagType DEF SendGrantFails, RefreshFails, DeliveryFails, DrainForSuccessor,
     DrainSlot,
     MarkDetached, MarkAttached, RecordSuperseded, ReleaseSlot, Registry!BeginDrain, Registry!Owned, Hangup,
     Registry!MarkDetached, Registry!MarkAttached, Registry!Mark, Registry!MayMark, Registry!EntryStates,
     Registry!RecordSuperseded, Registry!CompleteDrain
<1>7. CASE RefreshGrant(c)
  BY SMTT(60), <1>7, EntryType, GrantAssumption DEF RefreshGrant, Registry!RefreshGrant, Registry!MayRefresh,
     Registry!Owned,
     Registry!Sign, Registry!EntryStates
<1>8. CASE ValidateResume(c)
  BY Zenon, <1>8, FlagType DEF ValidateResume, Hangup
<1>9. CASE Rebind(c)
  <2>1. task[c].ref.conn \in Anyone
    BY Zenon DEF Tasks, Refs
  <2>2. Record(c, task[c].ref.conn) \in Refs
    BY Zenon, <2>1 DEF Record, Refs, Anyone
  <2>3. incumbent' \in Refs /\ displaced' \in [Conns -> BOOLEAN]
    BY Zenon, <1>9, <2>2, FlagType DEF Rebind, ReplaceConnection
  <2> QED
    BY Zenon, <1>9, <2>3 DEF Rebind
<1>10. CASE Register(c)
  BY Zenon, <1>10 DEF Register, Record, Refs, Anyone
<1>11. CASE Terminate(c)
  BY Zenon, <1>11 DEF Terminate, StartTermination, TearDown
<1>12. CASE AcquireDesktop(c)
  <2>1. desktop # NoDesktop => [desktop EXCEPT !.client = "connected"] \in Desktops
    BY Zenon DEF Desktops
  <2> QED
    BY Zenon, <1>12, <2>1, LeaveShared DEF AcquireDesktop, TearDown, Return
<1>13. CASE CreateDesktop(c)
  <2>1. task[c].user \in Users
    BY Zenon, <1>13 DEF CreateDesktop, Is, Placed, TaskPlaced, SignedIn, PastAdmit
  <2>2. desktop' \in Desktops /\ created' \in 0 .. MaxDesktops
    BY SMTT(60), <1>13, <2>1, DesktopsAssumption DEF CreateDesktop, Desktops
  <2> QED
    BY Zenon, <1>13, <2>2 DEF CreateDesktop
<1>14. CASE IssueGrant(c)
  <2>1. task[c].session \in 1 .. MaxDesktops
    BY Zenon, <1>14 DEF IssueGrant, NativeValid, Serves, Is, Placed, TaskPlaced, Leased, PastAdmit, Desktops
  <2>2. entry' \in Registry!Entries /\ issued' \in 0 .. MaxNonce
    BY SMTT(60), <1>14, <2>1, GrantAssumption DEF IssueGrant, Registry!IssueInitial, Registry!MayIssue,
       Registry!Sign,
       Registry!Entries, Registry!GrantGens, Registry!EntryStates
  <2> QED
    BY Zenon, <1>14, <2>2 DEF IssueGrant
<1>15. CASE PrepareResume(c)
  <2>1. PICK g, v : /\ Answered(c, g, v)
                    /\ v \in {"permit", "drained", "exhausted"} => entry # NoEntry
                    /\ v = "permit" => ~Registry!Exhausted(entry)
    BY Zenon, <1>15, PresentedFacts
  <2>2. entry' \in Registry!Entries \cup {NoEntry} /\ issued' \in 0 .. MaxNonce
    BY SMTT(60), <2>1, EntryType, GrantAssumption DEF Answered, Registry!ApplyVerdict, Registry!Sign,
       Registry!EntryStates,
       Registry!registryVars
  <2> QED
    BY Zenon, <2>1, <2>2, LeaveShared DEF Answered, Return
<1>16. CASE Handoff(c) \/ Finish(c)
  BY Zenon, <1>16, LeaveShared, EntryType DEF Handoff, Finish, Return, Registry!BeginDrain,
     Registry!CompleteDrain, Registry!Owned
<1> QED
  BY ZenonT(60), <1>2, <1>3, <1>4, <1>5, <1>6, <1>7, <1>8, <1>9, <1>10, <1>11, <1>12, <1>13, <1>14, <1>15, <1>16
     DEF TaskStep, Served

\* The channels keep their type: what is sent is a command, the rest is consumed or dropped.
LEMMA ChannelType ==
  ASSUME TypeOK, NEW c \in Conns, Connect(c) \/ TaskStep(c) \/ Served(c) \/ LinkLost(c)
  PROVE  inbox' \in [Conns -> Seq(Commands)]
<1>0. UNCHANGED inbox => inbox' \in [Conns -> Seq(Commands)]
  BY Zenon DEF TypeOK
<1>1. \A pc : LeaveAs(c, pc) => inbox' \in [Conns -> Seq(Commands)]
  BY ZenonT(60), InboxType DEF LeaveAs
<1>2. CASE Handoff(c) \/ NotifyOwner(c)
  BY Zenon, <1>1, <1>2, InboxType, CommandType DEF Handoff, NotifyOwner, Return
<1>3. CASE RequestTakeOver(c)
  <2>1. CASE MayTakeOver
    <3>1. SendTo(entry.owner, Command("TakeOver", c))
      BY Zenon, <1>3, <2>1 DEF RequestTakeOver, MayTakeOver, SendTo
    <3> QED
      BY Zenon, <3>1, InboxType, CommandType
  <2> QED
    BY Zenon, <1>0, <1>3, <2>1 DEF RequestTakeOver
<1>4. CASE AttachmentCommanded(c) \/ ReceiveTakeOver(c) \/ ReceiveTerminal(c) \/ ReceiveResume(c)
  BY Zenon, <1>4, InboxType DEF AttachmentCommanded, ReceiveTakeOver, ReceiveTerminal, ReceiveResume, Received,
     Consume
<1>5. CASE \/ SignInFails(c) \/ TakeOverRefused(c) \/ SlotTimeout(c) \/ AdmitTimeout(c) \/ SetupFails(c)
           \/ PlainReturns(c) \/ OwnerPanics(c) \/ HandOver(c) \/ Abort(c) \/ Finish(c)
  BY Zenon, <1>1, <1>5 DEF SignInFails, TakeOverRefused, SlotTimeout, AdmitTimeout, SetupFails,
     PlainReturns, OwnerPanics, HandOver, Abort, Finish, Return
<1>6. CASE PrepareResume(c) \/ TrySlot(c) \/ IncumbentAlive(c) \/ SlotFreed(c) \/ AcquireDesktop(c)
  BY ZenonT(60), <1>0, <1>1, <1>6 DEF PrepareResume, Answered, TrySlot, IncumbentAlive, SlotFreed, TakeSlot,
     AcquireDesktop,
     Return, channelVars
<1>7. CASE \/ Connect(c) \/ SignIn(c) \/ TakeOverGranted(c) \/ IncumbentSilent(c) \/ CloseSilent(c) \/ Register(c)
           \/ Admit(c) \/ CreateDesktop(c) \/ IssueGrant(c) \/ IssueFails(c) \/ SendGrant(c) \/ SendGrantFails(c)
           \/ ServePlain(c) \/ UndoSetup(c) \/ PlainEnds(c) \/ EndDisplaced(c) \/ EndTerminal(c) \/ EndLost(c)
           \/ HoldForResume(c) \/ MarkDetached(c) \/ DeadlineReached(c) \/ WaitDisplaced(c) \/ MonitorFails(c)
           \/ ValidateResume(c) \/ DeliverSuccessor(c) \/ DeliveryFails(c) \/ Rebind(c) \/ MarkAttached(c)
           \/ RecordSuperseded(c) \/ DrainForSuccessor(c) \/ RestoreForSuccessor(c) \/ ReleaseSlot(c)
           \/ DrainSlot(c) \/ KeepDisplay(c) \/ Terminate(c)
           \/ AttachmentLost(c) \/ SetupWriterEnds(c) \/ AttachmentCloses(c) \/ RefreshGrant(c) \/ RefreshFails(c)
           \/ LinkLost(c)
  BY Zenon, <1>0, <1>7 DEF Connect, SignIn, TakeOverGranted, IncumbentSilent, CloseSilent, Register, Admit,
     CreateDesktop,
     IssueGrant, IssueFails, SendGrant, SendGrantFails, ServePlain, UndoSetup, PlainEnds, RestoreDisplay,
     EndDisplaced, EndTerminal, EndLost, HoldForResume, MarkDetached, DeadlineReached, WaitDisplaced, MonitorFails,
     ValidateResume, DeliverSuccessor, DeliveryFails, Rebind, MarkAttached, RecordSuperseded, DrainForSuccessor,
     RestoreForSuccessor, ReleaseSlot, DrainSlot, KeepDisplay, Terminate, AttachmentLost, SetupWriterEnds,
     AttachmentCloses, RefreshGrant, RefreshFails, LinkLost, channelVars
<1> QED
  BY Zenon, <1>2, <1>3, <1>4, <1>5, <1>6, <1>7 DEF TaskStep, Served

\* The initial state is well typed.
LEMMA TypeInit ==
  ASSUME Init
  PROVE  TypeOK
<1>1. Blank("idle") \in Tasks
  BY Zenon, Pcs, BlankType
<1>2. task \in [Conns -> Tasks]
  BY Zenon, <1>1 DEF Init
<1>3. inbox \in [Conns -> Seq(Commands)]
  BY SMTT(60) DEF Init
<1> QED
  BY SMTT(60), <1>2, <1>3, DesktopsAssumption, GrantAssumption DEF Init, TypeOK, Registry!Init, Anyone, Refs,
     NoRecord

\* Every step keeps the types; Placed supplies the values a step passes on (the user of a
\* new desktop, the session of a new entry).
LEMMA TypeStep ==
  ASSUME TypeOK, Placed, [Next]_vars
  PROVE  TypeOK'
<1> USE DEF TypeOK, registryVars, desktopVars, peerVars, channelVars, globalVars
<1>1. ASSUME NEW c \in Conns, Connect(c) \/ TaskStep(c) \/ Served(c) \/ LinkLost(c)
      PROVE  TypeOK'
  BY Zenon, <1>1, TaskType, SharedType, ChannelType DEF SharedTypeOK
<1>2. CASE CleanupStep \/ Tick
  BY SMTT(60), <1>2 DEF CleanupStep, CleanupRestoresDisplay, CleanupCompletes, Tick
<1>3. CASE NativeSessionEnds
  <2>1. desktop' \in Desktops
    BY Zenon, <1>3 DEF NativeSessionEnds, Desktops
  <2> QED
    BY Zenon, <1>3, <2>1 DEF NativeSessionEnds
<1>4. CASE StopEndpoint \/ StopTimeout \/ StopJoined
  BY Zenon, <1>4 DEF StopEndpoint, StopTimeout, StopJoined, StopTo
<1>5. CASE StopRequest
  <2>0. Command("PierShutdown", Nobody) \in Commands
    BY Zenon DEF Command, Commands, Anyone
  <2>1. inbox' \in [Conns -> Seq(Commands)]
    BY Zenon, <1>5, <2>0, InboxType DEF StopRequest
  <2> QED
    BY Zenon, <1>5, <2>1, EntryType DEF StopRequest, StopTo, Registry!Shutdown
<1>6. CASE StopDesktop \/ StopComplete
  BY Zenon, <1>6, EntryType DEF StopDesktop, StopComplete, StopTo, Registry!Shutdown,
     Registry!CompleteShutdown, TearDown
<1>7. CASE UNCHANGED vars
  BY Zenon, <1>7 DEF vars
<1> QED
  BY Zenon, <1>1, <1>2, <1>3, <1>4, <1>5, <1>6, <1>7 DEF Next, Stopping

-----------------------------------------------------------------------------
(* What a step makes of its task. *)

\* What a step makes of the parts of c's record that the invariants speak of.
Becomes(c, pc, user, session, lease, owns, ref) ==
    /\ \A d \in Conns \ {c} : task'[d] = task[d]
    /\ task'[c].pc = pc /\ task'[c].user = user /\ task'[c].session = session
    /\ task'[c].lease = lease /\ task'[c].owns = owns /\ task'[c].ref = ref
Steps(c, pc) == Becomes(c, pc, task[c].user, task[c].session, task[c].lease, task[c].owns, task[c].ref)
StepsWith(c, pc, ref) == Becomes(c, pc, task[c].user, task[c].session, task[c].lease, task[c].owns, ref)

\* Replacing c's record gives its fields and nobody else's.
LEMMA PutFields ==
  ASSUME TypeOK, NEW c \in Conns, NEW r, task' = [task EXCEPT ![c] = r]
  PROVE  Becomes(c, r.pc, r.user, r.session, r.lease, r.owns, r.ref)
BY Zenon DEF TypeOK, Becomes

\* The elementary moves, by the fields they leave.
LEMMA Fields ==
  ASSUME TypeOK, NEW c \in Conns
  PROVE  /\ \A p : Goto(c, p) => Steps(c, p)
         /\ \A p, kind, t : GotoMoved(c, p, kind, t) => Steps(c, p)
         /\ \A p, f : GotoWith(c, p, f) => StepsWith(c, p, f)
         /\ \A e, l : EndAttachment(c, e, l) => Steps(c, "ended")
         /\ \A k : StartHandOver(c, k) => StepsWith(c, "retire", Record(k, Nobody))
         /\ \A p : LeaveAs(c, p) => Becomes(c, p, Nobody, 0, "none", "none", NoRecord)
<1> DEFINE t == task[c]
<1>0. t \in Tasks
  BY Zenon DEF TypeOK
<1>1. ASSUME NEW p, Goto(c, p) PROVE Steps(c, p)
  <2>1. PICK r : r = [task[c] EXCEPT !.pc = p]
    BY Zenon
  <2>2. r.pc = p /\ r.user = t.user /\ r.session = t.session /\ r.lease = t.lease /\ r.owns = t.owns /\ r.ref = t.ref
    BY Zenon, <1>0, <2>1 DEF Tasks
  <2>3. task' = [task EXCEPT ![c] = r]
    BY Zenon, <1>1, <2>1 DEF Goto
  <2> QED
    BY Zenon, <2>2, <2>3, PutFields DEF Steps
<1>2. ASSUME NEW p, NEW kind, NEW time, GotoMoved(c, p, kind, time) PROVE Steps(c, p)
  <2>1. PICK r : r = [task[c] EXCEPT !.pc = p, !.fsm = Moved(c, kind, time)]
    BY Zenon
  <2>2. r.pc = p /\ r.user = t.user /\ r.session = t.session /\ r.lease = t.lease /\ r.owns = t.owns /\ r.ref = t.ref
    BY Zenon, <1>0, <2>1 DEF Tasks
  <2>3. task' = [task EXCEPT ![c] = r]
    BY Zenon, <1>2, <2>1 DEF GotoMoved
  <2> QED
    BY Zenon, <2>2, <2>3, PutFields DEF Steps
<1>3. ASSUME NEW p, NEW f, GotoWith(c, p, f) PROVE StepsWith(c, p, f)
  <2>1. PICK r : r = [task[c] EXCEPT !.pc = p, !.ref = f]
    BY Zenon
  <2>2. r.pc = p /\ r.user = t.user /\ r.session = t.session /\ r.lease = t.lease /\ r.owns = t.owns /\ r.ref = f
    BY Zenon, <1>0, <2>1 DEF Tasks
  <2>3. task' = [task EXCEPT ![c] = r]
    BY Zenon, <1>3, <2>1 DEF GotoWith
  <2> QED
    BY Zenon, <2>2, <2>3, PutFields DEF StepsWith
<1>4. ASSUME NEW e, NEW l, EndAttachment(c, e, l) PROVE Steps(c, "ended")
  <2>1. PICK r : r = [task[c] EXCEPT !.pc = "ended", !.end = e, !.loss = l]
    BY Zenon
  <2>2. r.pc = "ended" /\ r.user = t.user /\ r.session = t.session /\ r.lease = t.lease /\ r.owns = t.owns /\ r.ref = t.ref
    BY Zenon, <1>0, <2>1 DEF Tasks
  <2>3. task' = [task EXCEPT ![c] = r]
    BY Zenon, <1>4, <2>1 DEF EndAttachment
  <2> QED
    BY Zenon, <2>2, <2>3, PutFields DEF Steps
<1>5. ASSUME NEW k, StartHandOver(c, k) PROVE StepsWith(c, "retire", Record(k, Nobody))
  <2>1. PICK r : r = [task[c] EXCEPT !.pc = "retire", !.ref = Record(k, Nobody), !.fsm = Moved(c, "ExplicitDisconnect", now)]
    BY Zenon
  <2>2. r.pc = "retire" /\ r.user = t.user /\ r.session = t.session /\ r.lease = t.lease /\ r.owns = t.owns /\ r.ref = Record(k, Nobody)
    BY Zenon, <1>0, <2>1 DEF Tasks
  <2>3. task' = [task EXCEPT ![c] = r]
    BY Zenon, <1>5, <2>1 DEF StartHandOver
  <2> QED
    BY Zenon, <2>2, <2>3, PutFields DEF StepsWith
<1>6. ASSUME NEW p, LeaveAs(c, p) PROVE Becomes(c, p, Nobody, 0, "none", "none", NoRecord)
  <2>1. task' = [task EXCEPT ![c] = Blank(p)]
    BY Zenon, <1>6 DEF LeaveAs
  <2>2. /\ Blank(p).pc = p /\ Blank(p).user = Nobody /\ Blank(p).session = 0 /\ Blank(p).lease = "none"
        /\ Blank(p).owns = "none" /\ Blank(p).ref = NoRecord
    BY Zenon DEF Blank
  <2> QED
    BY Zenon, <2>1, <2>2, PutFields
<1> QED
  BY Zenon, <1>1, <1>2, <1>3, <1>4, <1>5, <1>6

\* The steps that update several fields, by the fields they leave.
LEMMA StepFields ==
  ASSUME TypeOK, NEW c \in Conns
  PROVE  /\ Connect(c) => Steps(c, "auth")
         /\ EndLost(c) => \E p \in {"hold", "drain"} : Steps(c, p)
         /\ DeadlineReached(c) => Steps(c, "drain")
         /\ Rebind(c) => Steps(c, "remark")
         /\ SignIn(c) => \E p \in {"takeover", "slot"}, u \in Users :
              Becomes(c, p, u, task[c].session, task[c].lease, task[c].owns, task[c].ref)
         /\ ReceiveResume(c) => \/ StepsWith(c, "validate", Record(Nobody, Sender(c)))
                                \/ Steps(c, "drain")
         /\ IssueGrant(c) => Becomes(c, "send", task[c].user, task[c].session, task[c].lease, "slot", task[c].ref)
         /\ CreateDesktop(c) =>
              Becomes(c, "setup", task[c].user, created + 1, "held", task[c].owns, task[c].ref)
         /\ Terminate(c) => Becomes(c, "finish", task[c].user, task[c].session, "none", task[c].owns, task[c].ref)
         /\ \A g, v : Answered(c, g, v) /\ (~Return(c) \/ v \in {"permit", "drained"}) =>
              Becomes(c, IF v = "permit" THEN "handoff" ELSE "notify", task[c].user, entry.session,
                      task[c].lease, task[c].owns, Record(entry.owner, Nobody))
<1> DEFINE t == task[c]
<1>0. t \in Tasks
  BY Zenon DEF TypeOK
<1>1. ASSUME Connect(c) PROVE Steps(c, "auth")
  <2>1. PICK r : r = [task[c] EXCEPT !.pc = "auth", !.sock = c, !.seen = entry # NoEntry /\ entry.state \in {"Detached", "Resuming"}]
    BY Zenon
  <2>2. r.pc = "auth" /\ r.user = t.user /\ r.session = t.session /\ r.lease = t.lease /\ r.owns = t.owns /\ r.ref = t.ref
    BY Zenon, <1>0, <2>1 DEF Tasks
  <2>3. task' = [task EXCEPT ![c] = r]
    BY Zenon, <1>1, <2>1 DEF Connect
  <2> QED
    BY Zenon, <2>2, <2>3, PutFields DEF Steps
<1>2. ASSUME EndLost(c) PROVE \E p \in {"hold", "drain"} : Steps(c, p)
  <2>0. PICK m, p : /\ p \in {"hold", "drain"}
                    /\ task' = [task EXCEPT ![c].fsm = m, ![c].pc = p]
    BY Zenon, <1>2 DEF EndLost
  <2>1. PICK r : r = [task[c] EXCEPT !.fsm = m, !.pc = p]
    BY Zenon
  <2>2. r.pc = p /\ r.user = t.user /\ r.session = t.session /\ r.lease = t.lease /\ r.owns = t.owns /\ r.ref = t.ref
    BY Zenon, <1>0, <2>1 DEF Tasks
  <2>3. task' = [task EXCEPT ![c] = r]
    BY Zenon, <2>0, <2>1
  <2> QED
    BY Zenon, <2>0, <2>2, <2>3, PutFields DEF Steps
<1>3. ASSUME DeadlineReached(c) PROVE Steps(c, "drain")
  <2>1. PICK r : r = [task[c] EXCEPT !.pc = "drain", !.fsm = Machine!Apply(task[c].fsm, Machine!DeadlineReached(task[c].fsm.generation), now).machine]
    BY Zenon
  <2>2. r.pc = "drain" /\ r.user = t.user /\ r.session = t.session /\ r.lease = t.lease /\ r.owns = t.owns /\ r.ref = t.ref
    BY Zenon, <1>0, <2>1 DEF Tasks
  <2>3. task' = [task EXCEPT ![c] = r]
    BY Zenon, <1>3, <2>1 DEF DeadlineReached
  <2> QED
    BY Zenon, <2>2, <2>3, PutFields DEF Steps
<1>4. ASSUME Rebind(c) PROVE Steps(c, "remark")
  <2>1. PICK r : r = [task[c] EXCEPT !.pc = "remark", !.sock = task[c].ref.conn]
    BY Zenon
  <2>2. r.pc = "remark" /\ r.user = t.user /\ r.session = t.session /\ r.lease = t.lease /\ r.owns = t.owns /\ r.ref = t.ref
    BY Zenon, <1>0, <2>1 DEF Tasks
  <2>3. task' = [task EXCEPT ![c] = r]
    BY Zenon, <1>4, <2>1 DEF Rebind
  <2> QED
    BY Zenon, <2>2, <2>3, PutFields DEF Steps
<1>5. ASSUME SignIn(c)
      PROVE  \E p \in {"takeover", "slot"}, u \in Users :
               Becomes(c, p, u, task[c].session, task[c].lease, task[c].owns, task[c].ref)
  <2>0. PICK p \in {"takeover", "slot"}, u \in Users : task' = [task EXCEPT ![c].user = u, ![c].pc = p]
    BY Zenon, <1>5 DEF SignIn
  <2>1. PICK r : r = [task[c] EXCEPT !.user = u, !.pc = p]
    BY Zenon
  <2>2. r.pc = p /\ r.user = u /\ r.session = t.session /\ r.lease = t.lease /\ r.owns = t.owns /\ r.ref = t.ref
    BY Zenon, <1>0, <2>1 DEF Tasks
  <2>3. task' = [task EXCEPT ![c] = r]
    BY Zenon, <2>0, <2>1
  <2>4. Becomes(c, p, u, task[c].session, task[c].lease, task[c].owns, task[c].ref)
    BY Zenon, <2>2, <2>3, PutFields
  <2> QED
    BY Zenon, <2>0, <2>4
<1>6. ASSUME ReceiveResume(c)
      PROVE  StepsWith(c, "validate", Record(Nobody, Sender(c))) \/ Steps(c, "drain")
  <2>1. CASE task' = [task EXCEPT ![c].pc = "validate", ![c].ref = Record(Nobody, Sender(c)),
                         ![c].fsm = Moved(c, "BeginResume", now)]
    <3>1. PICK r : r = [task[c] EXCEPT !.pc = "validate", !.ref = Record(Nobody, Sender(c)), !.fsm = Moved(c, "BeginResume", now)]
      BY Zenon
    <3>2. /\ r.pc = "validate" /\ r.user = t.user /\ r.session = t.session /\ r.lease = t.lease
          /\ r.owns = t.owns /\ r.ref = Record(Nobody, Sender(c))
      BY Zenon, <1>0, <3>1 DEF Tasks
    <3>3. task' = [task EXCEPT ![c] = r]
      BY Zenon, <2>1, <3>1
    <3> QED
      BY Zenon, <3>2, <3>3, PutFields DEF StepsWith
  <2>2. CASE GotoMoved(c, "drain", "ExplicitDisconnect", now)
    BY Zenon, <2>2, Fields
  <2> QED
    BY Zenon, <1>6, <2>1, <2>2 DEF ReceiveResume
<1>7. ASSUME IssueGrant(c) PROVE Becomes(c, "send", task[c].user, task[c].session, task[c].lease, "slot", task[c].ref)
  <2>1. PICK r : r = [task[c] EXCEPT !.pc = "send", !.owns = "slot"]
    BY Zenon
  <2>2. r.pc = "send" /\ r.user = t.user /\ r.session = t.session /\ r.lease = t.lease /\ r.owns = "slot" /\ r.ref = t.ref
    BY Zenon, <1>0, <2>1 DEF Tasks
  <2>3. task' = [task EXCEPT ![c] = r]
    BY Zenon, <1>7, <2>1 DEF IssueGrant
  <2> QED
    BY Zenon, <2>2, <2>3, PutFields DEF Steps
<1>8. ASSUME CreateDesktop(c) PROVE Becomes(c, "setup", task[c].user, created + 1, "held", task[c].owns, task[c].ref)
  <2>1. PICK r : r = [task[c] EXCEPT !.pc = "setup", !.lease = "held", !.session = created + 1]
    BY Zenon
  <2>2. r.pc = "setup" /\ r.user = t.user /\ r.session = created + 1 /\ r.lease = "held" /\ r.owns = t.owns /\ r.ref = t.ref
    BY Zenon, <1>0, <2>1 DEF Tasks
  <2>3. task' = [task EXCEPT ![c] = r]
    BY Zenon, <1>8, <2>1 DEF CreateDesktop
  <2> QED
    BY Zenon, <2>2, <2>3, PutFields DEF Steps
<1>9. ASSUME Terminate(c) PROVE Becomes(c, "finish", task[c].user, task[c].session, "none", task[c].owns, task[c].ref)
  <2>1. PICK r : r = [task[c] EXCEPT !.pc = "finish", !.lease = "none"]
    BY Zenon
  <2>2. r.pc = "finish" /\ r.user = t.user /\ r.session = t.session /\ r.lease = "none" /\ r.owns = t.owns /\ r.ref = t.ref
    BY Zenon, <1>0, <2>1 DEF Tasks
  <2>3. task' = [task EXCEPT ![c] = r]
    BY Zenon, <1>9, <2>1 DEF Terminate
  <2> QED
    BY Zenon, <2>2, <2>3, PutFields DEF Steps
<1>10. ASSUME NEW g, NEW v, Answered(c, g, v), ~Return(c) \/ v \in {"permit", "drained"}
       PROVE  Becomes(c, IF v = "permit" THEN "handoff" ELSE "notify", task[c].user, entry.session,
                      task[c].lease, task[c].owns, Record(entry.owner, Nobody))
  <2>0. PICK p : p = IF v = "permit" THEN "handoff" ELSE "notify"
    BY Zenon
  <2>1. PICK r : r = [task[c] EXCEPT !.pc = p, !.session = entry.session, !.ref = Record(entry.owner, Nobody)]
    BY Zenon
  <2>2. /\ r.pc = p /\ r.user = t.user /\ r.session = entry.session /\ r.lease = t.lease
        /\ r.owns = t.owns /\ r.ref = Record(entry.owner, Nobody)
    BY Zenon, <1>0, <2>1 DEF Tasks
  <2>3. task' = [task EXCEPT ![c] = r]
    BY Zenon, <1>10, <2>0, <2>1 DEF Answered
  <2> QED
    BY Zenon, <2>0, <2>2, <2>3, PutFields
<1> QED
  BY Zenon, <1>1, <1>2, <1>3, <1>4, <1>5, <1>6, <1>7, <1>8, <1>9, <1>10

\* The moves of a task that change nothing but its own record and the record
\* of incumbents, by program counter.
PlainMoves ==
    {<<"idle", "auth">>, <<"answer", "slot">>, <<"slot", "slotwait">>, <<"slot", "proof">>, <<"proof", "close">>,
     <<"proof", "slotwait">>, <<"close", "slotwait">>, <<"register", "admit">>, <<"setup", "undo">>,
     <<"setup", "plain">>, <<"send", "attached">>, <<"attached", "ended">>, <<"ended", "retire">>,
     <<"ended", "hold">>, <<"ended", "drain">>, <<"waiting", "drain">>, <<"deliver", "rebind">>,
     <<"rebind", "remark">>, <<"retire", "retired">>}
PlainMove(c) ==
    /\ \E m \in PlainMoves, ref \in Refs : task[c].pc = m[1] /\ StepsWith(c, m[2], ref)
    /\ UNCHANGED <<entry, slot, desktop, cleanup, admitted, inbox, stop>>
    /\ Is(c, "idle") => stop = "run"

\* These steps of run_ws, of the slot and of the owner's loop are plain moves.
LEMMA PlainMovesAre ==
  ASSUME TypeOK, NEW c \in Conns,
         \/ Connect(c) \/ TakeOverGranted(c) \/ IncumbentSilent(c) \/ CloseSilent(c) \/ Register(c)
         \/ IssueFails(c) \/ SendGrant(c) \/ ServePlain(c) \/ EndDisplaced(c) \/ EndTerminal(c) \/ EndLost(c)
         \/ DeadlineReached(c) \/ MonitorFails(c) \/ DeliverSuccessor(c) \/ Rebind(c) \/ RecordSuperseded(c)
         \/ AttachmentLost(c) \/ SetupWriterEnds(c) \/ AttachmentCloses(c)
         \/ TrySlot(c) /\ ~TakeSlot(c) /\ ~Return(c)
  PROVE  PlainMove(c)
<1> USE DEF Is, registryVars, desktopVars, peerVars, channelVars, globalVars
<1> DEFINE From(p, q) == task[c].pc = p /\ Steps(c, q)
<1>0. ASSUME NEW p, NEW q, <<p, q>> \in PlainMoves, From(p, q)
      PROVE  \E m \in PlainMoves, ref \in Refs : task[c].pc = m[1] /\ StepsWith(c, m[2], ref)
  <2>1. task[c].ref \in Refs
    BY Zenon DEF TypeOK, Tasks
  <2>2. StepsWith(c, q, task[c].ref)
    BY Zenon, <1>0 DEF Steps, StepsWith
  <2> QED
    BY Zenon, <1>0, <2>1, <2>2
<1> HIDE DEF From
<1>1. CASE Connect(c) \/ TakeOverGranted(c) \/ CloseSilent(c) \/ Register(c) \/ DeadlineReached(c)
           \/ MonitorFails(c)
  <2>1. From("idle", "auth") \/ From("answer", "slot") \/ From("close", "slotwait") \/ From("register", "admit")
        \/ From("waiting", "drain")
    BY Zenon, <1>1, Fields, StepFields DEF From, Connect, TakeOverGranted, CloseSilent, Register,
       DeadlineReached, MonitorFails
  <2>2. UNCHANGED <<entry, slot, desktop, cleanup, admitted, inbox, stop>> /\ (Is(c, "idle") => stop = "run")
    BY Zenon, <1>1 DEF Connect, TakeOverGranted, CloseSilent, Register, DeadlineReached, MonitorFails
  <2> QED
    BY SMTT(60), <1>0, <2>1, <2>2 DEF PlainMove, PlainMoves
<1>2. CASE IssueFails(c) \/ SendGrant(c) \/ ServePlain(c) \/ DeliverSuccessor(c) \/ Rebind(c) \/ RecordSuperseded(c)
  <2>1. From("setup", "undo") \/ From("send", "attached") \/ From("setup", "plain") \/ From("deliver", "rebind")
        \/ From("rebind", "remark") \/ From("retire", "retired")
    BY Zenon, <1>2, Fields, StepFields DEF From, IssueFails, SendGrant, ServePlain, DeliverSuccessor, Rebind,
       RecordSuperseded
  <2>2. UNCHANGED <<entry, slot, desktop, cleanup, admitted, inbox, stop>> /\ ~Is(c, "idle")
    BY Zenon, <1>2 DEF IssueFails, SendGrant, ServePlain, DeliverSuccessor, Rebind, RecordSuperseded,
       Registry!RecordSuperseded
  <2> QED
    BY SMTT(60), <1>0, <2>1, <2>2 DEF PlainMove, PlainMoves
<1>3. CASE \/ EndDisplaced(c) \/ EndTerminal(c) \/ EndLost(c) \/ AttachmentLost(c) \/ SetupWriterEnds(c)
           \/ AttachmentCloses(c) \/ IncumbentSilent(c)
  <2>1. From("ended", "retire") \/ From("ended", "drain") \/ From("ended", "hold") \/ From("attached", "ended")
        \/ From("proof", "close") \/ From("proof", "slotwait")
    BY Zenon, <1>3, Fields, StepFields DEF From, EndDisplaced, EndTerminal, EndLost, AttachmentLost,
       SetupWriterEnds,
       AttachmentCloses, IncumbentSilent
  <2>2. UNCHANGED <<entry, slot, desktop, cleanup, admitted, inbox, stop>> /\ ~Is(c, "idle")
    BY Zenon, <1>3 DEF EndDisplaced, EndTerminal, EndLost, AttachmentLost, SetupWriterEnds, AttachmentCloses,
       IncumbentSilent
  <2> QED
    BY SMTT(60), <1>0, <2>1, <2>2 DEF PlainMove, PlainMoves
<1>4. CASE TrySlot(c) /\ ~TakeSlot(c) /\ ~Return(c)
  <2>1. Is(c, "slot") /\ incumbent \in Refs
    BY Zenon, <1>4 DEF TrySlot, TypeOK
  <2>2. GotoWith(c, "slotwait", incumbent) \/ GotoWith(c, "proof", incumbent)
    BY Zenon, <1>4 DEF TrySlot
  <2>3. StepsWith(c, "slotwait", incumbent) \/ StepsWith(c, "proof", incumbent)
    BY Zenon, <2>2, Fields
  <2>4. UNCHANGED <<entry, slot, desktop, cleanup, admitted, inbox, stop>>
    BY Zenon, <1>4 DEF TrySlot
  <2>5. <<"slot", "slotwait">> \in PlainMoves /\ <<"slot", "proof">> \in PlainMoves
    BY Zenon DEF PlainMoves
  <2> QED
    BY Zenon, <2>1, <2>3, <2>4, <2>5 DEF PlainMove
<1> QED
  BY Zenon, <1>1, <1>2, <1>3, <1>4

-----------------------------------------------------------------------------
(* Placed: what a task holds follows from where it stands. *)

\* A plain move keeps everybody in place.
LEMMA PlainPlace ==
  ASSUME TypeOK, TypeOK', Placed, NEW c \in Conns, PlainMove(c)
  PROVE  Placed'
<1>1. PICK m \in PlainMoves, ref \in Refs : task[c].pc = m[1] /\ StepsWith(c, m[2], ref)
  BY Zenon DEF PlainMove
<1>2. PICK p, q : <<p, q>> \in PlainMoves /\ task[c].pc = p /\ StepsWith(c, q, ref)
  BY SMTT(60), SMTT(90), <1>1 DEF PlainMoves
<1> USE DEF Is, Owns, Over, Unaborted, Early, Attaching, Resumes, HandingOver, OwnerPcs, TailPcs, PastAdmit, Leased, HasSlot,
            MayHaveSlot, WithDesktop, SignedIn
<1>3. ASSUME NEW d \in Conns PROVE TaskPlaced(d)'
  BY SMTT(60), <1>2 DEF PlainMoves, PlainMove, Placed, TaskPlaced, StepsWith, Becomes
<1>4. DisplayPlaced'
  BY ZenonT(60), <1>2 DEF PlainMoves, PlainMove, Placed, DisplayPlaced, StepsWith, Becomes
<1> QED
  BY Zenon, <1>3, <1>4 DEF Placed

\* A task that returns or unwinds gives back everything it holds (the drop guards of
\* run_ws).
LEMMA LeavePlace ==
  ASSUME TypeOK, TypeOK', Placed, NEW c \in Conns, NEW pc \in {"done", "panicked"}, LeaveAs(c, pc),
         task[c].pc \notin WithDesktop \/ ~Unaborted
  PROVE  Placed'
<1>1. Becomes(c, pc, Nobody, 0, "none", "none", NoRecord)
  BY Zenon, Fields
<1>2. /\ slot' = IF slot = c THEN "free" ELSE slot
      /\ admitted' = IF admitted = c THEN Nobody ELSE admitted
      /\ inbox'[c] = <<>> /\ \A d \in Conns \ {c} : inbox'[d] = inbox[d]
      /\ UNCHANGED <<cleanup, stop>>
  BY Zenon DEF LeaveAs, TypeOK, globalVars
<1>3. /\ desktop = NoDesktop <=> desktop' = NoDesktop
      /\ task[c].lease = "none" => desktop' = desktop
  BY Zenon, LeaveShared DEF LeaveAs
<1> USE DEF Is, Owns, Over, Unaborted, Early, Attaching, Resumes, HandingOver, OwnerPcs, TailPcs, PastAdmit, Leased, HasSlot,
            MayHaveSlot, WithDesktop, SignedIn
<1>4. ASSUME NEW d \in Conns PROVE TaskPlaced(d)'
  <2>1. CASE d = c
    BY Zenon, <1>1, <1>2, <2>1, ConnsAssumption DEF TaskPlaced, Becomes
  <2>2. CASE d # c
    <3>1. task'[d] = task[d]
      BY Zenon, <1>1, <2>2 DEF Becomes
    <3>2. desktop' = desktop \/ task[d].lease = "none"
      BY SMTT(60), <1>3, <2>2 DEF Placed, TaskPlaced, TypeOK, Tasks
    <3>3. TaskPlaced(d)
      BY Zenon DEF Placed
    <3>4. admitted' = d <=> admitted = d
      BY Zenon, <1>2, <2>2, ConnsAssumption
    <3>5. slot' = d <=> slot = d
      BY Zenon, <1>2, <2>2, ConnsAssumption
    <3> QED
      BY ZenonT(60), <1>2, <1>3, <2>2, <3>1, <3>2, <3>3, <3>4, <3>5 DEF TaskPlaced
  <2> QED
    BY Zenon, <2>1, <2>2
<1>5. DisplayPlaced'
  BY Zenon, <1>1, <1>2, <1>3, ConnsAssumption DEF Becomes, Placed, DisplayPlaced
<1> QED
  BY Zenon, <1>4, <1>5 DEF Placed

\* A command only ever reaches a task that owns a session.
LEMMA Sends ==
  ASSUME TypeOK, NEW o, NEW m, SendTo(o, m)
  PROVE  \A d \in Conns : Owns(d) \/ inbox'[d] = inbox[d]
BY Zenon DEF TypeOK, SendTo, Listening, Owns

\* Receiving touches only the receiver's channel.
LEMMA Consumes ==
  ASSUME TypeOK, NEW c \in Conns, Consume(c)
  PROVE  \A d \in Conns \ {c} : inbox'[d] = inbox[d]
BY Zenon DEF TypeOK, Consume

\* A reattached desktop gives the task its lease and session (SessionRegistry::acquire).
LEMMA Reattaches ==
  ASSUME TypeOK, NEW c \in Conns, NEW i,
         task' = [task EXCEPT ![c].pc = "setup", ![c].lease = "held", ![c].session = i]
  PROVE  Becomes(c, "setup", task[c].user, i, "held", task[c].owns, task[c].ref)
<1>1. PICK r : r = [task[c] EXCEPT !.pc = "setup", !.lease = "held", !.session = i]
  BY Zenon
<1>2. /\ r.pc = "setup" /\ r.user = task[c].user /\ r.session = i /\ r.lease = "held"
      /\ r.owns = task[c].owns /\ r.ref = task[c].ref
  BY SMTT(60), <1>1 DEF TypeOK, Tasks
<1>3. task' = [task EXCEPT ![c] = r]
  BY Zenon, <1>1
<1> QED
  BY ZenonT(60), <1>2, <1>3, PutFields DEF Becomes

\* Before it holds the slot a task has no place in the shared objects.
EarlyMoves == {<<"auth", "handoff">>, <<"auth", "notify">>, <<"handoff", "done">>, <<"notify", "done">>,
               <<"auth", "takeover">>, <<"auth", "slot">>, <<"takeover", "answer">>, <<"takeover", "slot">>}

\* A step of a task that holds nothing yet keeps everybody in place.
LEMMA EarlyPlace ==
  ASSUME TypeOK, TypeOK', Placed, NEW c \in Conns, NEW p, NEW u, NEW s, NEW f,
         <<task[c].pc, p>> \in EarlyMoves, Becomes(c, p, u, s, task[c].lease, task[c].owns, f),
         u \in Users \/ p \in {"handoff", "notify", "done"},
         UNCHANGED <<slot, desktop, cleanup, admitted, stop>>,
         \A d \in Conns : Owns(d) \/ inbox'[d] = inbox[d]
  PROVE  Placed'
<1> USE DEF Is, Owns, Over, Unaborted, Early, Attaching, Resumes, HandingOver, OwnerPcs, TailPcs, PastAdmit, Leased, HasSlot,
            MayHaveSlot, WithDesktop, SignedIn
<1>1. TaskPlaced(c)'
  BY ZenonT(60) DEF EarlyMoves, Placed, TaskPlaced, Becomes
<1>2. ASSUME NEW d \in Conns, d # c PROVE TaskPlaced(d)'
  BY SMTT(60), <1>2 DEF Placed, TaskPlaced, Becomes
<1>3. DisplayPlaced'
  BY Zenon DEF EarlyMoves, Placed, DisplayPlaced, Becomes
<1> QED
  BY Zenon, <1>1, <1>2, <1>3 DEF Placed

\* Every step of a connection keeps everybody in place.
LEMMA TaskPlace ==
  ASSUME TypeOK, TypeOK', Placed, NEW c \in Conns, Connect(c) \/ TaskStep(c) \/ Served(c) \/ LinkLost(c)
  PROVE  Placed'
<1>1. CASE \/ Connect(c) \/ TakeOverGranted(c) \/ IncumbentSilent(c) \/ CloseSilent(c) \/ Register(c)
           \/ IssueFails(c) \/ SendGrant(c) \/ ServePlain(c) \/ EndDisplaced(c) \/ EndTerminal(c) \/ EndLost(c)
           \/ DeadlineReached(c) \/ MonitorFails(c) \/ DeliverSuccessor(c) \/ Rebind(c) \/ RecordSuperseded(c)
           \/ AttachmentLost(c) \/ SetupWriterEnds(c) \/ AttachmentCloses(c)
           \/ TrySlot(c) /\ ~TakeSlot(c) /\ ~Return(c)
  BY Zenon, <1>1, PlainMovesAre, PlainPlace
<1> USE DEF Is, registryVars, desktopVars, peerVars, channelVars, globalVars
<1>2. CASE \/ SignInFails(c) \/ TakeOverRefused(c) \/ SlotTimeout(c) \/ AdmitTimeout(c) \/ SetupFails(c)
           \/ PlainReturns(c) \/ OwnerPanics(c) \/ HandOver(c) \/ Abort(c) \/ Finish(c)
           \/ Return(c) /\ (\/ PrepareResume(c) \/ Handoff(c) \/ TrySlot(c) \/ IncumbentAlive(c) \/ AcquireDesktop(c))
  <2>1. LeaveAs(c, "done") \/ LeaveAs(c, "panicked")
    BY Zenon, <1>2 DEF SignInFails, TakeOverRefused, SlotTimeout, AdmitTimeout, SetupFails, PlainReturns,
       OwnerPanics,
       HandOver, Abort, Finish, Return
  <2>2. task[c].pc \notin WithDesktop \/ ~Unaborted
    BY Zenon, <1>2 DEF SignInFails, TakeOverRefused, SlotTimeout, AdmitTimeout, SetupFails, PlainReturns,
       OwnerPanics,
       HandOver, Abort, Finish, PrepareResume, Handoff, TrySlot, IncumbentAlive, AcquireDesktop, WithDesktop,
       Unaborted
  <2> QED
    BY Zenon, <2>1, <2>2, LeavePlace
<1>15. CASE PrepareResume(c) /\ ~Return(c)
  <2>1. PICK g, v : Answered(c, g, v)
    BY Zenon, <1>15 DEF PrepareResume
  <2>2. PICK p \in {"handoff", "notify"} :
          Becomes(c, p, task[c].user, entry.session, task[c].lease, task[c].owns, Record(entry.owner, Nobody))
    BY Zenon, <1>15, <2>1, StepFields
  <2>3. UNCHANGED <<slot, desktop, cleanup, admitted, inbox, stop>> /\ Is(c, "auth")
    BY Zenon, <1>15, <2>1 DEF Answered, PrepareResume
  <2>4. <<task[c].pc, p>> \in EarlyMoves
    BY Zenon, <2>3 DEF EarlyMoves
  <2> QED
    BY Zenon, <2>2, <2>3, <2>4, EarlyPlace
<1>16. CASE NotifyOwner(c) \/ (Handoff(c) /\ ~Return(c))
  <2>1. task' = [task EXCEPT ![c] = Blank("done")] /\ task[c].pc \in {"handoff", "notify"}
    BY Zenon, <1>16 DEF Handoff, NotifyOwner
  <2>2. UNCHANGED <<slot, desktop, cleanup, admitted, stop>>
    BY Zenon, <1>16 DEF Handoff, NotifyOwner
  <2>3. \A d \in Conns : Owns(d) \/ inbox'[d] = inbox[d]
    BY Zenon, <1>16, Sends DEF Handoff, NotifyOwner
  <2>4. task[c].lease = "none" /\ task[c].owns = "none"
    BY ZenonT(60), <2>1 DEF Placed, TaskPlaced, TypeOK, Tasks, Owns, Leased, PastAdmit, OwnerPcs, TailPcs,
       Attaching, Resumes, HandingOver
  <2>5. Becomes(c, "done", Nobody, 0, task[c].lease, task[c].owns, NoRecord)
    <3>1. /\ Blank("done").pc = "done" /\ Blank("done").user = Nobody /\ Blank("done").session = 0
          /\ Blank("done").lease = "none" /\ Blank("done").owns = "none" /\ Blank("done").ref = NoRecord
      BY Zenon DEF Blank
    <3> QED
      BY ZenonT(60), <2>1, <2>4, <3>1, PutFields DEF Becomes
  <2>6. <<task[c].pc, "done">> \in EarlyMoves
    BY Zenon, <2>1 DEF EarlyMoves
  <2> QED
    BY Zenon, <2>2, <2>3, <2>5, <2>6, EarlyPlace
<1>17. CASE SignIn(c)
  <2>1. PICK p \in {"takeover", "slot"}, u \in Users :
          Becomes(c, p, u, task[c].session, task[c].lease, task[c].owns, task[c].ref)
    BY Zenon, <1>17, StepFields
  <2>2. UNCHANGED <<slot, desktop, cleanup, admitted, inbox, stop>> /\ Is(c, "auth")
    BY Zenon, <1>17 DEF SignIn
  <2>3. <<task[c].pc, p>> \in EarlyMoves
    BY Zenon, <2>2 DEF EarlyMoves
  <2> QED
    BY Zenon, <2>1, <2>2, <2>3, EarlyPlace
<1>18. CASE RequestTakeOver(c)
  <2>1. PICK p \in {"answer", "slot"} : Steps(c, p)
    BY Zenon, <1>18, Fields DEF RequestTakeOver
  <2>2. UNCHANGED <<slot, desktop, cleanup, admitted, stop>> /\ Is(c, "takeover")
    BY Zenon, <1>18 DEF RequestTakeOver
  <2>3. \A d \in Conns : Owns(d) \/ inbox'[d] = inbox[d]
    BY Zenon, <1>18 DEF RequestTakeOver, MayTakeOver, Listening, Owns, TypeOK
  <2>4. <<task[c].pc, p>> \in EarlyMoves /\ task[c].user \in Users
    BY ZenonT(60), <2>2 DEF EarlyMoves, Placed, TaskPlaced, SignedIn
  <2> QED
    BY Zenon, <2>1, <2>2, <2>3, <2>4, EarlyPlace DEF Steps
<1> USE ConnsAssumption, NothingAssumption DEF TypeOK, Tasks, Placed, TaskPlaced, DisplayPlaced, Owns, Over, Unaborted, Anyone,
      Early, Attaching, Resumes, HandingOver, OwnerPcs, TailPcs, PastAdmit, Leased, HasSlot, MayHaveSlot,
      WithDesktop,
      SignedIn

<1>4. CASE TakeSlot(c) /\ task[c].pc \in {"slot", "proof", "slotwait"}
  BY SMTT(60), SMTT(90), <1>4 DEF TakeSlot, Goto
<1>5. CASE Admit(c)
  BY SMTT(60), SMTT(90), <1>5 DEF Admit, MayAdmit, Goto
<1>6. CASE SendGrantFails(c) \/ DrainForSuccessor(c) \/ DrainSlot(c) \/ ReleaseSlot(c)
  BY SMTT(60), SMTT(90), <1>6 DEF SendGrantFails, DrainForSuccessor, DrainSlot, ReleaseSlot, Goto
<1>7. CASE MarkDetached(c)
  BY SMTT(60), SMTT(90), <1>7 DEF MarkDetached, Goto
<1>8. CASE RefreshFails(c)
  <2>1. Steps(c, "ended")
    BY ZenonT(60), <1>8, Fields DEF RefreshFails
  <2> QED
    BY SMTT(60), <1>8, <2>1 DEF RefreshFails, Steps, Becomes
<1>9. CASE DeliveryFails(c)
  <2>1. Steps(c, "drain")
    BY ZenonT(60), <1>9, Fields DEF DeliveryFails
  <2> QED
    BY SMTT(60), <1>9, <2>1 DEF DeliveryFails, Steps, Becomes
<1>10. CASE MarkAttached(c)
  <2>1. Steps(c, "attached") \/ Steps(c, "drain")
    BY ZenonT(60), <1>10, Fields DEF MarkAttached
  <2> QED
    BY SMTT(60), <1>10, <2>1 DEF MarkAttached, Steps, Becomes
<1>11. CASE RefreshGrant(c) \/ LinkLost(c)
  BY SMTT(60), SMTT(90), <1>11 DEF RefreshGrant, LinkLost
<1>12. CASE UndoSetup(c) \/ PlainEnds(c) \/ RestoreForSuccessor(c)
  <2>1. PICK p, q : RestoreDisplay(c, p, q) /\ <<p, q>> \in {<<"undo", "terminate">>, <<"plain", "kept">>,
                        <<"plain", "terminate">>, <<"restore", "release">>}
    BY Zenon, <1>12 DEF UndoSetup, PlainEnds, RestoreForSuccessor
  <2> QED
    BY SMTT(60), <2>1 DEF RestoreDisplay, Goto
<1>13. CASE HoldForResume(c)
  <2>1. CASE CanHold(c)
    BY SMTT(60), SMTT(90), <1>13, <2>1 DEF HoldForResume, HoldDisplay, CanHold, Serves, Goto
  <2>2. CASE ~CanHold(c)
    BY SMTT(60), SMTT(90), <1>13, <2>2 DEF HoldForResume, HoldDisplay, Goto
  <2> QED
    BY ZenonT(60), <2>1, <2>2
<1>14. CASE KeepDisplay(c)
  BY SMTT(60), <1>14 DEF KeepDisplay, HoldDisplay, CanHold, Serves, Goto
<1>19. CASE AcquireDesktop(c) /\ ~Return(c)
  <2>0. Is(c, "acquire") /\ cleanup = "none" /\ UNCHANGED <<admitted, inbox, stop>>
    BY ZenonT(60), <1>19 DEF AcquireDesktop, MayDecide
  <2>1. CASE desktop = NoDesktop /\ Goto(c, "create") /\ UNCHANGED desktopVars
    <3>1. Steps(c, "create")
      BY ZenonT(60), <2>1, Fields
    <3> QED
      BY SMTT(60), <2>0, <2>1, <3>1 DEF Steps, Becomes
  <2>2. CASE desktop # NoDesktop /\ TearDown /\ UNCHANGED task
    <3>1. /\ UNCHANGED <<task, admitted, inbox, stop>> /\ desktop' = NoDesktop /\ cleanup' = "running"
          /\ slot' = (IF slot = "held" THEN "cleanup" ELSE slot) /\ Is(c, "acquire")
      BY ZenonT(60), <2>0, <2>2 DEF TearDown
    <3>2. ASSUME NEW d \in Conns PROVE TaskPlaced(d)'
      BY SMTT(60), SMTT(90), <2>0, <3>1, <3>2
    <3>3. DisplayPlaced'
      BY SMTT(60), SMTT(90), <2>0, <3>1
    <3> HIDE DEF TypeOK, TaskPlaced, DisplayPlaced
    <3> QED
      BY Zenon, <3>2, <3>3
  <2>3. CASE /\ Serves(c) /\ desktop' = [desktop EXCEPT !.client = "connected"]
             /\ task' = [task EXCEPT ![c].pc = "setup", ![c].lease = "held", ![c].session = desktop.id]
             /\ UNCHANGED <<slot, cleanup>>
    <3>1. Becomes(c, "setup", task[c].user, desktop.id, "held", task[c].owns, task[c].ref)
      BY Zenon, <2>3, Reattaches
    <3>2. desktop' # NoDesktop /\ desktop'.id = desktop.id /\ desktop'.user = desktop.user /\ desktop'.client = "connected"
      BY SMTT(60), SMTT(90), <2>3 DEF Serves, Desktops
    <3>3. TaskPlaced(c)'
      <4>1. UNCHANGED <<slot, cleanup, admitted, inbox>> /\ desktop.user = task[c].user
        BY ZenonT(60), <2>0, <2>3 DEF Serves
      <4>2. /\ task'[c].pc = "setup" /\ task'[c].user = task[c].user /\ task'[c].session = desktop.id
            /\ task'[c].lease = "held" /\ task'[c].owns = task[c].owns
        BY ZenonT(60), <3>1 DEF Becomes
      <4>3. TaskPlaced(c)
        <5> HIDE DEF TypeOK, TaskPlaced, DisplayPlaced
        <5> QED
          BY Zenon
      <4> HIDE DEF TypeOK, Placed
      <4>4. /\ admitted = c /\ slot = c /\ task[c].owns # "slot" /\ task[c].user \in Users
            /\ inbox[c] = <<>>
        BY SMTT(60), SMTT(90), <2>0, <4>3
      <4> QED
        BY SMTT(60), SMTT(90), <3>2, <4>1, <4>2, <4>4
    <3>4. ASSUME NEW d \in Conns, d # c PROVE TaskPlaced(d)'
      BY SMTT(60), SMTT(90), <2>0, <2>3, <3>1, <3>4 DEF Becomes
    <3>5. DisplayPlaced'
      BY ZenonT(60), <2>0, <2>3, <3>1, <3>2 DEF Becomes
    <3>6. TaskPlaced(c)' /\ \A d \in Conns : d # c => TaskPlaced(d)'
      <4> HIDE DEF TypeOK, Placed, TaskPlaced, DisplayPlaced
      <4> QED
        BY Zenon, <3>3, <3>4
    <3> HIDE DEF TypeOK, TaskPlaced, DisplayPlaced
    <3> QED
      BY Zenon, <3>5, <3>6
  <2> HIDE DEF Placed, TaskPlaced, DisplayPlaced, TypeOK
  <2>4. Reconnects(c) => Serves(c)
    BY Zenon DEF Reconnects
  <2>5. \/ desktop = NoDesktop /\ Goto(c, "create") /\ UNCHANGED desktopVars
        \/ desktop # NoDesktop /\ TearDown /\ UNCHANGED task
        \/ /\ Serves(c) /\ desktop' = [desktop EXCEPT !.client = "connected"]
           /\ task' = [task EXCEPT ![c].pc = "setup", ![c].lease = "held", ![c].session = desktop.id]
           /\ UNCHANGED <<slot, cleanup>>
    BY Zenon, <1>19, <2>4 DEF AcquireDesktop
  <2> QED
    BY Zenon, <2>1, <2>2, <2>3, <2>5
<1>20. CASE CreateDesktop(c)
  <2>1. Becomes(c, "setup", task[c].user, created + 1, "held", task[c].owns, task[c].ref)
    BY Zenon, <1>20, StepFields
  <2>2. /\ UNCHANGED <<slot, cleanup, admitted, inbox, stop>> /\ Is(c, "create")
        /\ desktop'.id = created + 1 /\ desktop'.user = task[c].user /\ desktop'.client = "connected"
    BY ZenonT(60), <1>20 DEF CreateDesktop
  <2>3. desktop' # NoDesktop
    BY SMTT(60), SMTT(90), <1>20, <2>2 DEF CreateDesktop, Desktops
  <2> QED
    BY SMTT(60), SMTT(90), <2>1, <2>2, <2>3 DEF Becomes
<1>21. CASE IssueGrant(c)
  <2>1. Becomes(c, "send", task[c].user, task[c].session, task[c].lease, "slot", task[c].ref)
    BY Zenon, <1>21, StepFields
  <2>2. UNCHANGED <<slot, desktop, cleanup, admitted, inbox, stop>> /\ Is(c, "setup")
    BY Zenon, <1>21 DEF IssueGrant
  <2> QED
    BY SMTT(60), <2>1, <2>2 DEF Becomes
<1>22. CASE WaitDisplaced(c) \/ ReceiveTakeOver(c)
  <2>1. UNCHANGED <<desktop, cleanup, admitted, stop>> /\ Is(c, "waiting")
    BY Zenon, <1>22 DEF WaitDisplaced, ReceiveTakeOver, Received
  <2>2. \A d \in Conns \ {c} : inbox'[d] = inbox[d]
    BY ZenonT(60), <1>22, Consumes DEF WaitDisplaced, ReceiveTakeOver
  <2>3. CASE UNCHANGED <<slot, task>>
    <3>1. ASSUME NEW d \in Conns PROVE TaskPlaced(d)'
      BY SMTT(60), SMTT(90), <2>1, <2>2, <2>3, <3>1
    <3>2. DisplayPlaced'
      BY SMTT(60), SMTT(90), <2>1, <2>3
    <3> HIDE DEF TypeOK, TaskPlaced, DisplayPlaced
    <3> QED
      BY Zenon, <3>1, <3>2
  <2>4. CASE \E k : StartHandOver(c, k)
    <3>1. PICK f : StepsWith(c, "retire", f)
      BY Zenon, <2>4, Fields
    <3>2. slot' = IF CanTakeHeld(c) THEN c ELSE slot
      BY Zenon, <2>4 DEF StartHandOver
    <3>3. CanTakeHeld(c) <=> slot = "held"
      BY ZenonT(60), <2>1 DEF CanTakeHeld, Serves
    <3> QED
      BY SMTT(60), SMTT(90), <2>1, <2>2, <3>1, <3>2, <3>3 DEF StepsWith, Becomes
  <2> QED
    BY Zenon, <1>22, <2>3, <2>4 DEF WaitDisplaced, ReceiveTakeOver
<1>23. CASE AttachmentCommanded(c) \/ ReceiveTerminal(c) \/ ReceiveResume(c)
  <2>1. UNCHANGED <<slot, desktop, cleanup, admitted, stop>>
    BY Zenon, <1>23 DEF AttachmentCommanded, ReceiveTerminal, ReceiveResume
  <2>2. \A d \in Conns \ {c} : inbox'[d] = inbox[d]
    BY Zenon, <1>23, Consumes DEF AttachmentCommanded, ReceiveTerminal, ReceiveResume, Consume
  <2>3. \/ Is(c, "attached") /\ Steps(c, "ended")
        \/ Is(c, "waiting") /\ \E f : StepsWith(c, "validate", f)
        \/ Is(c, "waiting") /\ Steps(c, "drain")
    BY ZenonT(60), <1>23, Fields, StepFields DEF AttachmentCommanded, ReceiveTerminal, ReceiveResume, Received
  <2>4. CASE Is(c, "attached") /\ Steps(c, "ended")
    BY SMTT(60), SMTT(90), <2>1, <2>2, <2>4 DEF Steps, Becomes
  <2>5. CASE Is(c, "waiting") /\ Steps(c, "drain")
    BY SMTT(60), SMTT(90), <2>1, <2>2, <2>5 DEF Steps, Becomes
  <2>6. CASE Is(c, "waiting") /\ \E f : StepsWith(c, "validate", f)
    BY SMTT(60), SMTT(90), <2>1, <2>2, <2>6 DEF StepsWith, Becomes
  <2> HIDE DEF TypeOK, Placed
  <2> QED
    BY Zenon, <2>3, <2>4, <2>5, <2>6
<1>24. CASE ValidateResume(c)
  <2>1. UNCHANGED <<desktop, cleanup, admitted, inbox, stop>> /\ Is(c, "validate")
    BY Zenon, <1>24 DEF ValidateResume
  <2>2. \/ Steps(c, "drain") /\ slot' = slot
        \/ slot = "held" /\ Steps(c, "drain") /\ slot' = "free"
        \/ slot = "held" /\ Steps(c, "deliver") /\ slot' = c
    BY ZenonT(60), <1>24, Fields DEF ValidateResume, CanTakeHeld
  <2> QED
    BY SMTT(60), <2>1, <2>2 DEF Steps, Becomes
<1>25. CASE Terminate(c)
  <2>1. Becomes(c, "finish", task[c].user, task[c].session, "none", task[c].owns, task[c].ref)
    BY Zenon, <1>25, StepFields
  <2>2. UNCHANGED <<admitted, inbox, stop>> /\ Is(c, "terminate")
    BY Zenon, <1>25 DEF Terminate
  <2>3. \/ cleanup = "none" /\ Serves(c) /\ TearDown
        \/ ~(cleanup = "none" /\ Serves(c)) /\ UNCHANGED <<slot, desktop, cleanup>>
    BY Zenon, <1>25 DEF Terminate, StartTermination
  <2>4. slot # c
    BY Zenon, <2>2
  <2> QED
    BY SMTT(60), SMTT(90), <2>1, <2>2, <2>3, <2>4 DEF Becomes, TearDown, Serves
<1> HIDE DEF Is, TypeOK, Tasks, Placed, TaskPlaced, DisplayPlaced, Owns, Over, Unaborted, Anyone,
      Early, Attaching, Resumes, HandingOver, OwnerPcs, TailPcs, PastAdmit, Leased, HasSlot, MayHaveSlot,
      WithDesktop,
      SignedIn, registryVars, desktopVars, peerVars, channelVars, globalVars
<1>26. CASE TrySlot(c) \/ IncumbentAlive(c) \/ SlotFreed(c)
  <2>1. CASE TakeSlot(c)
    BY Zenon, <1>4, <1>26, <2>1 DEF TrySlot, IncumbentAlive, SlotFreed, Is
  <2>2. CASE Return(c)
    BY Zenon, <1>2, <1>26, <2>1, <2>2 DEF SlotFreed
  <2> QED
    BY Zenon, <1>1, <1>26, <2>1, <2>2 DEF IncumbentAlive, SlotFreed
<1> QED
  BY Zenon, <1>1, <1>2, <1>5, <1>6, <1>7, <1>8, <1>9, <1>10, <1>11, <1>12, <1>13, <1>14, <1>15, <1>16, <1>17,
     <1>18,
     <1>19, <1>20, <1>21, <1>22, <1>23, <1>24, <1>25, <1>26 DEF TaskStep, Served

\* In the initial state nobody holds anything.
LEMMA PlaceInit ==
  ASSUME Init
  PROVE  Placed
BY ZenonT(60), ConnsAssumption DEF Init, Placed, TaskPlaced, DisplayPlaced, Blank, Owns, Is, Early, Attaching,
   Resumes, HandingOver, OwnerPcs, TailPcs,
   PastAdmit, Leased, HasSlot, MayHaveSlot, SignedIn, Unaborted, WithDesktop

\* Every step keeps everybody in place.
LEMMA PlaceStep ==
  ASSUME TypeOK, TypeOK', Placed, [Next]_vars
  PROVE  Placed'
<1>1. ASSUME NEW c \in Conns, Connect(c) \/ TaskStep(c) \/ Served(c) \/ LinkLost(c)
      PROVE  Placed'
  BY Zenon, <1>1, TaskPlace
<1> USE ConnsAssumption DEF Placed, TaskPlaced, DisplayPlaced, registryVars, desktopVars, peerVars, channelVars, globalVars, Owns, Is, Unaborted
<1>2. CASE CleanupStep \/ Tick
  BY ZenonT(60), <1>2 DEF CleanupStep, CleanupRestoresDisplay, CleanupCompletes, Tick, TypeOK
<1>3. CASE NativeSessionEnds
  <2>1. PICK s \in {"sick", "dead"} : desktop # NoDesktop /\ desktop' = [desktop EXCEPT !.launcher = s]
    BY Zenon, <1>3 DEF NativeSessionEnds
  <2>2. /\ desktop' # NoDesktop
        /\ desktop'.id = desktop.id /\ desktop'.user = desktop.user /\ desktop'.client = desktop.client
    BY Zenon, <2>1, NothingAssumption DEF TypeOK, Desktops
  <2>3. UNCHANGED <<slot, cleanup, admitted, inbox, task, stop>>
    BY Zenon, <1>3 DEF NativeSessionEnds
  <2> QED
    BY ZenonT(60), <2>1, <2>2, <2>3
<1>4. CASE StopEndpoint \/ StopTimeout \/ StopJoined \/ StopComplete
  BY ZenonT(60), <1>4 DEF StopEndpoint, StopTimeout, StopJoined, StopComplete, StopTo
<1>5. CASE StopRequest
  <2>1. \A d \in Conns : Owns(d) \/ inbox'[d] = inbox[d]
    BY Zenon, <1>5, Sends DEF StopRequest
  <2> QED
    BY ZenonT(60), <1>5, <2>1 DEF StopRequest, StopTo
<1>6. CASE StopDesktop
  BY ZenonT(60), <1>6 DEF StopDesktop, StopTo, TearDown, TypeOK
<1>7. CASE UNCHANGED vars
  BY Zenon, <1>7 DEF vars
<1> QED
  BY Zenon, <1>1, <1>2, <1>3, <1>4, <1>5, <1>6, <1>7 DEF Next, Stopping

-----------------------------------------------------------------------------
(* The shutdown. *)

\* What each stage of the server's tail has established.
StopsInOrder ==
    /\ stop \in {"joined", "taken", "done"} => \A c \in Conns : Over(c)
    /\ stop \in {"taken", "done"} => desktop = NoDesktop /\ (entry # NoEntry => entry.state = "Draining")
    /\ stop = "done" => entry = NoEntry /\ cleanup = "none"
    /\ stop # "run" => \A c \in Conns : link[c] = "down"

\* A task that is over does nothing, and no task opens a connection or moves the shutdown on.
LEMMA Acts ==
  ASSUME TypeOK, NEW c \in Conns, TaskStep(c) \/ Served(c)
  PROVE  ~Over(c) /\ stop' = stop /\ \A k \in Conns : link'[k] \in {link[k], "down"}
<1> DEFINE Ok == ~Over(c) /\ stop' = stop /\ \A k \in Conns : link'[k] \in {link[k], "down"}
<1> USE DEF Is, Over, peerVars, globalVars
<1>1. ASSUME NEW pc, LeaveAs(c, pc) PROVE stop' = stop /\ \A k \in Conns : link'[k] \in {link[k], "down"}
  BY Zenon, <1>1 DEF LeaveAs
<1>2. \A k : Hangup(k) => \A d \in Conns : link'[d] \in {link[d], "down"}
  BY Zenon DEF Hangup, TypeOK
<1>3. CASE \/ SignInFails(c) \/ TakeOverRefused(c) \/ SlotTimeout(c) \/ AdmitTimeout(c) \/ SetupFails(c)
           \/ PlainReturns(c) \/ OwnerPanics(c) \/ HandOver(c) \/ Abort(c) \/ Finish(c)
  BY Zenon, <1>1, <1>3 DEF SignInFails, TakeOverRefused, SlotTimeout, AdmitTimeout, SetupFails,
     PlainReturns, OwnerPanics, HandOver, Abort, Finish, Return
<1>4. CASE PrepareResume(c) \/ Handoff(c) \/ TrySlot(c) \/ IncumbentAlive(c) \/ SlotFreed(c) \/ AcquireDesktop(c)
  BY ZenonT(60), <1>1, <1>4 DEF PrepareResume, Answered, Handoff, TrySlot, IncumbentAlive, SlotFreed, TakeSlot,
     AcquireDesktop, Return
<1>5. CASE NotifyOwner(c) \/ CloseSilent(c) \/ ReceiveResume(c) \/ ValidateResume(c) \/ DeliveryFails(c)
  BY Zenon, <1>2, <1>5 DEF NotifyOwner, CloseSilent, ReceiveResume, ValidateResume, DeliveryFails, Received, Hangup
<1>6. CASE \/ SignIn(c) \/ RequestTakeOver(c) \/ TakeOverGranted(c) \/ IncumbentSilent(c) \/ Register(c)
           \/ Admit(c) \/ CreateDesktop(c) \/ IssueGrant(c) \/ IssueFails(c) \/ SendGrant(c) \/ SendGrantFails(c)
           \/ ServePlain(c) \/ UndoSetup(c) \/ PlainEnds(c) \/ EndDisplaced(c) \/ EndTerminal(c) \/ EndLost(c)
           \/ HoldForResume(c) \/ MarkDetached(c) \/ DeadlineReached(c) \/ WaitDisplaced(c) \/ MonitorFails(c)
           \/ ReceiveTakeOver(c) \/ ReceiveTerminal(c)
  BY Zenon, <1>6 DEF SignIn, RequestTakeOver, TakeOverGranted, IncumbentSilent, Register, Admit, CreateDesktop,
     IssueGrant, IssueFails, SendGrant, SendGrantFails, ServePlain, UndoSetup, PlainEnds, RestoreDisplay,
     EndDisplaced, EndTerminal, EndLost, HoldForResume, MarkDetached, DeadlineReached, WaitDisplaced, MonitorFails,
     ReceiveTakeOver, ReceiveTerminal, Received
<1>7. CASE \/ DeliverSuccessor(c) \/ Rebind(c) \/ MarkAttached(c)
           \/ RecordSuperseded(c) \/ DrainForSuccessor(c) \/ RestoreForSuccessor(c) \/ ReleaseSlot(c)
           \/ DrainSlot(c) \/ KeepDisplay(c) \/ Terminate(c)
           \/ AttachmentLost(c) \/ SetupWriterEnds(c) \/ AttachmentCloses(c) \/ AttachmentCommanded(c)
           \/ RefreshGrant(c) \/ RefreshFails(c)
  BY Zenon, <1>7 DEF DeliverSuccessor, Rebind, MarkAttached, RecordSuperseded, DrainForSuccessor,
     RestoreForSuccessor, RestoreDisplay, ReleaseSlot, DrainSlot, KeepDisplay, Terminate, AttachmentLost,
     SetupWriterEnds,
     AttachmentCloses, AttachmentCommanded, RefreshGrant, RefreshFails
<1> QED
  BY Zenon, <1>3, <1>4, <1>5, <1>6, <1>7 DEF TaskStep, Served

\* No step undoes what a stage of the shutdown established.
LEMMA StopStep ==
  ASSUME TypeOK, TypeOK', Placed, StopsInOrder, [Next]_vars
  PROVE  StopsInOrder'
<1> USE DEF registryVars, desktopVars, peerVars, channelVars, globalVars
<1>1. ASSUME NEW c \in Conns, TaskStep(c) \/ Served(c)
      PROVE  StopsInOrder'
  BY Zenon, <1>1, Acts DEF StopsInOrder
<1>2. ASSUME NEW c \in Conns, Connect(c) \/ LinkLost(c)
      PROVE  StopsInOrder'
  BY Zenon, <1>2 DEF StopsInOrder, Connect, LinkLost, Over, TypeOK
<1>3. CASE CleanupStep \/ Tick \/ NativeSessionEnds
  BY Zenon, <1>3 DEF StopsInOrder, Over, CleanupStep, CleanupRestoresDisplay, CleanupCompletes, Tick,
     NativeSessionEnds
<1>4. CASE StopEndpoint \/ StopTimeout \/ StopJoined \/ StopRequest
  BY Zenon, <1>4 DEF StopsInOrder, Over, StopEndpoint, StopTimeout, StopJoined, StopRequest, StopTo
<1>5. CASE StopDesktop
  <2>1. desktop' = NoDesktop
    BY Zenon, <1>5 DEF StopDesktop, TearDown, TypeOK, Placed, DisplayPlaced
  <2>2. entry' # NoEntry => entry'.state = "Draining"
    BY Zenon, <1>5 DEF StopDesktop, Registry!Shutdown, Registry!Revoked
  <2> QED
    BY Zenon, <1>5, <2>1, <2>2 DEF StopsInOrder, Over, StopDesktop, StopTo
<1>6. CASE StopComplete
  BY Zenon, <1>6 DEF StopsInOrder, Over, StopComplete, StopTo, Registry!CompleteShutdown
<1>7. CASE UNCHANGED vars
  BY Zenon, <1>7 DEF vars, StopsInOrder, Over
<1> QED
  BY Zenon, <1>1, <1>2, <1>3, <1>4, <1>5, <1>6, <1>7 DEF Next, Stopping

\* The moves of a task that touch neither the registry's entry nor a channel.
QuietMoves == PlainMoves \cup
    {<<"auth", "takeover">>, <<"auth", "slot">>, <<"slot", "register">>, <<"proof", "register">>,
     <<"slotwait", "register">>, <<"admit", "acquire">>, <<"acquire", "create">>, <<"acquire", "setup">>,
     <<"create", "setup">>, <<"undo", "terminate">>, <<"plain", "kept">>, <<"plain", "terminate">>,
     <<"restore", "release">>, <<"hold", "mark">>, <<"hold", "drain">>, <<"waiting", "retire">>,
     <<"validate", "drain">>, <<"validate", "deliver">>, <<"keep", "terminate">>, <<"terminate", "finish">>}
Others(c) == \A d \in Conns \ {c} : task'[d] = task[d]
QuietMove(c) ==
    /\ Others(c)
    /\ \E m \in QuietMoves : task[c].pc = m[1] /\ task'[c].pc = m[2]
    /\ task'[c].owns = task[c].owns /\ (Owns(c) => task'[c].session = task[c].session)
    /\ UNCHANGED <<entry, inbox, stop>>

\* These steps are quiet moves.
LEMMA QuietMovesAre ==
  ASSUME TypeOK, Placed, NEW c \in Conns,
         \/ TakeSlot(c) /\ task[c].pc \in {"slot", "proof", "slotwait"}
         \/ PlainMove(c) \/ SignIn(c) \/ Admit(c) \/ CreateDesktop(c) \/ UndoSetup(c) \/ PlainEnds(c) \/ RestoreForSuccessor(c)
         \/ HoldForResume(c) \/ WaitDisplaced(c) \/ ValidateResume(c) \/ KeepDisplay(c) \/ Terminate(c)
         \/ AcquireDesktop(c) /\ ~Return(c) /\ task' # task
  PROVE  QuietMove(c)
<1> USE DEF Is, registryVars, desktopVars, peerVars, channelVars, globalVars
<1> DEFINE From(p, q) == /\ <<p, q>> \in QuietMoves /\ task[c].pc = p
                         /\ \E u, s, l, f : Becomes(c, q, u, s, l, task[c].owns, f) /\ (Owns(c) => s = task[c].session)
<1>0. ASSUME NEW p, NEW q, From(p, q), UNCHANGED <<entry, inbox, stop>>
      PROVE  QuietMove(c)
  BY Zenon, <1>0 DEF QuietMove, Others, Becomes
<1>01. ASSUME NEW p, NEW q, <<p, q>> \in QuietMoves, task[c].pc = p, Steps(c, q) \/ \E f : StepsWith(c, q, f)
       PROVE  From(p, q)
  BY Zenon, <1>01 DEF Steps, StepsWith
<1> HIDE DEF From
<1>1. CASE PlainMove(c)
  <2>1. PICK m \in PlainMoves, f \in Refs : task[c].pc = m[1] /\ StepsWith(c, m[2], f)
    BY ZenonT(60), <1>1 DEF PlainMove
  <2>2. PICK p, q : m = <<p, q>> /\ m[1] = p /\ m[2] = q
    BY SMTT(60) DEF PlainMoves
  <2>3. From(p, q)
    BY Zenon, <1>01, <2>1, <2>2 DEF QuietMoves
  <2> QED
    BY Zenon, <1>0, <1>1, <2>3 DEF PlainMove
<1>2. CASE SignIn(c)
  <2>1. PICK p \in {"takeover", "slot"}, u \in Users :
          Becomes(c, p, u, task[c].session, task[c].lease, task[c].owns, task[c].ref)
    BY Zenon, <1>2, StepFields
  <2>2. From("auth", p)
    BY Zenon, <1>2, <2>1 DEF SignIn, QuietMoves, From
  <2> QED
    BY Zenon, <1>0, <1>2, <2>2 DEF SignIn
<1>3. CASE TakeSlot(c) /\ task[c].pc \in {"slot", "proof", "slotwait"}
  <2>1. Steps(c, "register")
    BY Zenon, <1>3, Fields DEF TakeSlot
  <2>2. From(task[c].pc, "register")
    BY Zenon, <1>01, <1>3, <2>1 DEF QuietMoves
  <2> QED
    BY Zenon, <1>0, <1>3, <2>2 DEF TakeSlot
<1>4. CASE Admit(c) \/ UndoSetup(c) \/ PlainEnds(c) \/ RestoreForSuccessor(c) \/ HoldForResume(c) \/ KeepDisplay(c)
  <2>0. \/ task[c].pc = "admit" /\ Goto(c, "acquire")
        \/ task[c].pc = "undo" /\ Goto(c, "terminate")
        \/ task[c].pc = "plain" /\ (Goto(c, "kept") \/ Goto(c, "terminate"))
        \/ task[c].pc = "restore" /\ Goto(c, "release")
        \/ task[c].pc = "hold" /\ (Goto(c, "mark") \/ Goto(c, "drain"))
        \/ task[c].pc = "keep" /\ Goto(c, "terminate")
    BY ZenonT(60), <1>4 DEF Admit, UndoSetup, PlainEnds, RestoreForSuccessor, RestoreDisplay, HoldForResume,
       KeepDisplay, Is
  <2>1. PICK p, q : /\ <<p, q>> \in {<<"admit", "acquire">>, <<"undo", "terminate">>, <<"plain", "kept">>,
                          <<"plain", "terminate">>, <<"restore", "release">>, <<"hold", "mark">>, <<"hold", "drain">>,
                          <<"keep", "terminate">>}
                    /\ task[c].pc = p /\ Goto(c, q)
    BY SMTT(60), <2>0
  <2>2. Steps(c, q)
    BY Zenon, <2>1, Fields
  <2>3. From(p, q)
    BY Zenon, <1>01, <2>1, <2>2 DEF QuietMoves
  <2>4. UNCHANGED <<entry, inbox, stop>>
    BY Zenon, <1>4 DEF Admit, UndoSetup, PlainEnds, RestoreForSuccessor, RestoreDisplay, HoldForResume, KeepDisplay
  <2> QED
    BY ZenonT(60), <1>0, <2>3, <2>4
<1>5. CASE ValidateResume(c)
  <2>1. \E q \in {"drain", "deliver"} : Steps(c, q)
    BY Zenon, <1>5, Fields DEF ValidateResume
  <2>2. From("validate", "drain") \/ From("validate", "deliver")
    BY Zenon, <1>01, <1>5, <2>1 DEF ValidateResume, QuietMoves
  <2> QED
    BY Zenon, <1>0, <1>5, <2>2 DEF ValidateResume
<1>6. CASE WaitDisplaced(c)
  <2>1. \E f : StepsWith(c, "retire", f)
    BY Zenon, <1>6, Fields DEF WaitDisplaced
  <2>2. From("waiting", "retire")
    BY Zenon, <1>01, <1>6, <2>1 DEF WaitDisplaced, QuietMoves
  <2> QED
    BY Zenon, <1>0, <1>6, <2>2 DEF WaitDisplaced
<1>7. CASE Terminate(c)
  <2>1. Becomes(c, "finish", task[c].user, task[c].session, "none", task[c].owns, task[c].ref)
    BY Zenon, <1>7, StepFields
  <2>2. From("terminate", "finish")
    BY Zenon, <1>7, <2>1 DEF Terminate, From, QuietMoves
  <2> QED
    BY Zenon, <1>0, <1>7, <2>2 DEF Terminate
<1>8. CASE CreateDesktop(c)
  <2>1. Becomes(c, "setup", task[c].user, created + 1, "held", task[c].owns, task[c].ref)
    BY Zenon, <1>8, StepFields
  <2>2. ~Owns(c)
    BY Zenon, <1>8 DEF CreateDesktop, Placed, TaskPlaced, OwnerPcs, TailPcs, Attaching, Resumes, HandingOver
  <2>3. From("create", "setup")
    BY Zenon, <1>8, <2>1, <2>2 DEF CreateDesktop, From, QuietMoves
  <2> QED
    BY Zenon, <1>0, <1>8, <2>3 DEF CreateDesktop
<1>9. CASE AcquireDesktop(c) /\ ~Return(c) /\ task' # task
  <2>1. CASE Goto(c, "create")
    <3>1. Steps(c, "create")
      BY Zenon, <2>1, Fields
    <3>2. From("acquire", "create")
      BY Zenon, <1>01, <1>9, <3>1 DEF AcquireDesktop, QuietMoves
    <3> QED
      BY Zenon, <1>0, <1>9, <3>2 DEF AcquireDesktop
  <2>2. CASE task' = [task EXCEPT ![c].pc = "setup", ![c].lease = "held", ![c].session = desktop.id]
    <3>1. Becomes(c, "setup", task[c].user, desktop.id, "held", task[c].owns, task[c].ref)
      BY Zenon, <2>2, Reattaches
    <3>2. ~Owns(c)
      BY Zenon, <1>9 DEF AcquireDesktop, Placed, TaskPlaced, OwnerPcs, TailPcs, Attaching, Resumes, HandingOver
    <3>3. From("acquire", "setup")
      BY Zenon, <1>9, <3>1, <3>2 DEF AcquireDesktop, From, QuietMoves
    <3> QED
      BY Zenon, <1>0, <1>9, <3>3 DEF AcquireDesktop
  <2> QED
    BY Zenon, <1>9, <2>1, <2>2 DEF AcquireDesktop
<1> QED
  BY ZenonT(60), <1>1, <1>2, <1>3, <1>4, <1>5, <1>6, <1>7, <1>8, <1>9

-----------------------------------------------------------------------------
(* EntryOwned: the entry of the resume registry and its owner. *)

Draining == entry # NoEntry /\ entry.state = "Draining"
Drained == TailPcs \cup {"keep", "restore", "release"}
Keeps(c) == Owns(c) /\ ~Is(c, "depart")

\* A task that owns a session, until it has released it for a successor, is the owner the
\* entry names; in an orderly run the entry has such an owner; and past begin_drain the
\* entry drains.
EntryOwned ==
    /\ \A c \in Conns : Keeps(c) => entry # NoEntry /\ entry.owner = c /\ entry.session = task[c].session
    /\ Orderly /\ entry # NoEntry => Keeps(entry.owner)
    /\ \A c \in Conns : Owns(c) /\ task[c].pc \in Drained => Draining

\* The entry keeps its session and owner, and does not come back from draining.
EntryLives ==
    /\ entry = NoEntry => entry' = NoEntry
    /\ entry # NoEntry => /\ entry' # NoEntry /\ entry'.owner = entry.owner /\ entry'.session = entry.session
                          /\ Draining => Draining'

\* At most one task owns a session: it is the admitted one.
LEMMA OneOwner ==
  ASSUME Placed, NEW c \in Conns, NEW d \in Conns, Owns(c), Owns(d)
  PROVE  c = d
BY Zenon DEF Placed, TaskPlaced, PastAdmit, OwnerPcs, TailPcs, Attaching, Resumes, HandingOver

\* A step keeps EntryOwned when the entry lives on and c keeps its session, unless c
\* reaches a step past begin_drain while the entry does not drain.
LEMMA EntryKept ==
  ASSUME TypeOK, TypeOK', Placed, EntryOwned, NEW c \in Conns, Others(c), EntryLives, stop' = stop,
         task'[c].owns = task[c].owns, Owns(c) => task'[c].session = task[c].session,
         task'[c].pc = "depart" <=> task[c].pc = "depart", task[c].pc # "panicked",
         Owns(c) /\ task'[c].pc \in Drained => Draining'
  PROVE  EntryOwned'
<1>1. Draining => Draining'
  BY Zenon DEF EntryLives, Draining
<1>2. entry' # NoEntry => entry.owner \in Conns
  BY Zenon DEF EntryLives, TypeOK, Registry!Entries
<1>3. Orderly' => Orderly
  BY Zenon DEF Orderly, Unaborted, Others, Is
<1> QED
  BY ZenonT(60), <1>1, <1>2, <1>3 DEF EntryOwned, EntryLives, Keeps, Owns, Is, Others

\* A quiet move keeps EntryOwned.
LEMMA EntryQuiet ==
  ASSUME TypeOK, TypeOK', Placed, EntryOwned, NEW c \in Conns, QuietMove(c)
  PROVE  EntryOwned'
<1>1. EntryLives /\ (Draining => Draining')
  BY Zenon DEF QuietMove, EntryLives, Draining
<1>2. PICK p, q : <<p, q>> \in QuietMoves /\ task[c].pc = p /\ task'[c].pc = q
  BY SMTT(60) DEF QuietMove, QuietMoves, PlainMoves
<1>3. /\ p # "panicked" /\ p # "depart" /\ q # "depart"
      /\ q \in Drained => p \in Drained \/ p \in {"setup", "plain"}
  BY Zenon, <1>2 DEF QuietMoves, PlainMoves, Drained, TailPcs
<1>4. p \in {"setup", "plain"} => ~Owns(c)
  BY Zenon, <1>2 DEF Placed, TaskPlaced, OwnerPcs, TailPcs, Attaching, Resumes, HandingOver
<1>5. Owns(c) /\ q \in Drained => Draining'
  BY Zenon, <1>1, <1>2, <1>3, <1>4 DEF EntryOwned
<1> QED
  BY Zenon, <1>1, <1>2, <1>3, <1>5, EntryKept DEF QuietMove

\* A task may leave when it takes its entry with it, has none, panicked or was aborted.
LEMMA EntryLeaves ==
  ASSUME TypeOK, TypeOK', Placed, EntryOwned, NEW c \in Conns, NEW pc \in {"done", "panicked"}, LeaveAs(c, pc),
         ~Is(c, "panicked"),
         \/ entry' = NoEntry /\ Owns(c)
         \/ EntryLives /\ (Owns(c) /\ ~Is(c, "depart") => pc = "panicked" \/ ~Unaborted)
  PROVE  EntryOwned'
<1>1. Becomes(c, pc, Nobody, 0, "none", "none", NoRecord) /\ stop' = stop
  BY Zenon, Fields DEF LeaveAs, globalVars
<1>2. \A d \in Conns : Owns(c) /\ Owns(d) => d = c
  BY Zenon, OneOwner
<1>3. entry # NoEntry => entry.owner \in Conns
  BY Zenon DEF TypeOK, Registry!Entries
<1>4. ASSUME NEW d \in Conns, Owns(d)' PROVE d # c /\ Owns(d) /\ ~Owns(c) /\ task'[d] = task[d]
  BY Zenon, <1>1, <1>2, <1>4 DEF Owns, Becomes
<1>5. CASE entry' = NoEntry /\ Owns(c)
  BY Zenon, <1>4, <1>5 DEF EntryOwned, Keeps
<1>6. CASE EntryLives /\ (Owns(c) /\ ~Is(c, "depart") => pc = "panicked" \/ ~Unaborted)
  <2>1. \A d \in Conns : Keeps(d)' => entry' # NoEntry /\ entry'.owner = d /\ entry'.session = task'[d].session
    BY Zenon, <1>4, <1>6 DEF EntryOwned, Keeps, EntryLives, Is
  <2>2. \A d \in Conns : Owns(d)' /\ task'[d].pc \in Drained => Draining'
    BY Zenon, <1>4, <1>6 DEF EntryOwned, EntryLives, Draining
  <2>3. ASSUME Orderly', entry' # NoEntry PROVE Keeps(entry.owner)'
    <3>1. pc # "panicked" /\ Unaborted
      BY Zenon, <1>1, <2>3 DEF Orderly, Unaborted, Is, Becomes
    <3>2. entry # NoEntry /\ entry'.owner = entry.owner
      BY Zenon, <1>6, <2>3 DEF EntryLives
    <3>3. CASE Orderly
      <4>1. Keeps(entry.owner)
        BY Zenon, <3>2, <3>3 DEF EntryOwned
      <4>2. entry.owner # c
        BY Zenon, <1>6, <3>1, <4>1 DEF Keeps
      <4> QED
        BY Zenon, <1>1, <1>3, <3>2, <4>1, <4>2 DEF Keeps, Owns, Is, Becomes
    <3>4. CASE ~Orderly
      <4>1. PICK d \in Conns : Is(d, "panicked")
        BY Zenon, <3>1, <3>4 DEF Orderly
      <4>2. d = c
        BY Zenon, <1>1, <2>3, <4>1 DEF Orderly, Is, Becomes
      <4> QED
        BY Zenon, <1>1, <4>1, <4>2
    <3> QED
      BY Zenon, <3>3, <3>4
  <2> QED
    BY Zenon, <2>1, <2>2, <2>3 DEF EntryOwned
<1> QED
  BY Zenon, <1>5, <1>6

\* The registry's operations on a live entry, and what BeginDrain leaves.
LEMMA Lives ==
  ASSUME TypeOK
  PROVE  /\ UNCHANGED entry => EntryLives
         /\ Registry!Shutdown => EntryLives
         /\ \A s : Registry!BeginDrain(s) => EntryLives
         /\ \A s : \A state \in Registry!EntryStates : Registry!Mark(s, state) => EntryLives
         /\ \A s, f : Registry!RefreshGrant(s, f) => EntryLives
         /\ \A s : Registry!BeginDrain(s) /\ Registry!Owned(s) => Draining'
<1>1. entry # NoEntry => entry \in Registry!Entries
  BY Zenon DEF TypeOK
<1>2. entry # NoEntry => Registry!Revoked(entry) # NoEntry
  BY Zenon, EntryType, NothingAssumption
<1>3. entry # NoEntry /\ entry' = Registry!Revoked(entry) => EntryLives /\ Draining'
  BY SMTT(60), <1>1, <1>2 DEF EntryLives, Draining, Registry!Revoked
<1>4. UNCHANGED entry => EntryLives
  BY Zenon DEF EntryLives, Draining
<1>5. \A s : Registry!BeginDrain(s) => EntryLives /\ (Registry!Owned(s) => Draining')
  BY Zenon, <1>3, <1>4 DEF Registry!BeginDrain, Registry!Owned
<1>6. Registry!Shutdown => EntryLives
  BY Zenon, <1>3, <1>4 DEF Registry!Shutdown
<1>7. ASSUME NEW s, NEW state \in Registry!EntryStates, Registry!Mark(s, state) PROVE EntryLives
  <2>1. CASE Registry!MayMark(s)
    <3>1. entry # NoEntry /\ entry.state # "Draining"
      BY Zenon, <2>1 DEF Registry!MayMark, Registry!Owned
    <3>2. entry' = [entry EXCEPT !.state = state]
      BY Zenon, <1>7, <2>1 DEF Registry!Mark
    <3>3. entry' # NoEntry
      BY Zenon, <3>1, <3>2, EntryType, NothingAssumption
    <3> QED
      BY Zenon, <1>1, <3>1, <3>2, <3>3 DEF EntryLives, Draining, Registry!Entries
  <2> QED
    BY Zenon, <1>4, <1>7, <2>1 DEF Registry!Mark
<1>8. ASSUME NEW s, NEW f, Registry!RefreshGrant(s, f) PROVE EntryLives
  <2>1. entry # NoEntry /\ entry.state = "Attached"
    BY Zenon, <1>8 DEF Registry!RefreshGrant, Registry!MayRefresh, Registry!Owned
  <2>2. CASE entry' = Registry!Revoked(entry)
    BY Zenon, <1>3, <2>1, <2>2
  <2>3. CASE issued < MaxNonce /\ ~Registry!Exhausted(entry) /\ entry' = Registry!Rotated(entry, issued + 1, "Attached")
    <3>1. entry' # NoEntry
      BY Zenon, <2>1, <2>3, EntryType, NothingAssumption DEF Registry!EntryStates
    <3> QED
      BY Zenon, <2>1, <2>3, <3>1 DEF EntryLives, Draining, Registry!Rotated
  <2> QED
    BY Zenon, <1>8, <2>2, <2>3 DEF Registry!RefreshGrant, Registry!Sign
<1> QED
  BY Zenon, <1>4, <1>5, <1>6, <1>7, <1>8

\* What prepare_resume makes of the entry, by its answer.
LEMMA AnsweredEntry ==
  ASSUME TypeOK, NEW c \in Conns, NEW g, NEW v, Answered(c, g, v),
         v \in {"permit", "drained", "exhausted"} => entry # NoEntry /\ entry.state = "Detached",
         v = "permit" => ~Registry!Exhausted(entry)
  PROVE  /\ EntryLives
         /\ v = "permit" => entry'.state = "Resuming"
         /\ v \in {"drained", "exhausted"} => Draining'
         /\ v \in {"gone", "rejected"} => entry' = entry
<1>1. CASE v = "permit"
  <2>1. issued < MaxNonce /\ entry' = Registry!Rotated(entry, issued + 1, "Resuming")
    BY Zenon, <1>1 DEF Answered, Registry!ApplyVerdict, Registry!Sign
  <2>2. entry' # NoEntry
    BY Zenon, <1>1, <2>1, EntryType, NothingAssumption DEF Registry!EntryStates
  <2> QED
    BY Zenon, <1>1, <2>1, <2>2 DEF EntryLives, Draining, Registry!Rotated
<1>2. CASE v \in {"drained", "exhausted"}
  <2>1. entry' = Registry!Revoked(entry)
    BY Zenon, <1>2 DEF Answered, Registry!ApplyVerdict
  <2>2. entry' # NoEntry
    BY Zenon, <1>2, <2>1, EntryType, NothingAssumption
  <2> QED
    BY Zenon, <1>2, <2>1, <2>2 DEF EntryLives, Draining, Registry!Revoked
<1>3. CASE v \in {"gone", "rejected"}
  <2>1. entry' = entry
    BY Zenon, <1>3 DEF Answered, Registry!ApplyVerdict, Registry!registryVars
  <2> QED
    BY Zenon, <1>3, <2>1, Lives
<1> QED
  BY Zenon, <1>1, <1>2, <1>3 DEF Answered

\* Every step of a connection keeps EntryOwned.
LEMMA EntryTask ==
  ASSUME TypeOK, TypeOK', Placed, Placed', EntryOwned, NEW c \in Conns, Connect(c) \/ TaskStep(c) \/ Served(c) \/ LinkLost(c)
  PROVE  EntryOwned'
<1>1. CASE QuietMove(c)
  BY Zenon, <1>1, EntryQuiet
<1> USE DEF Is, registryVars, desktopVars, peerVars, channelVars, globalVars
<1>2. CASE UNCHANGED <<task, entry, stop>>
  BY Zenon, <1>2 DEF EntryOwned, Keeps, Owns, Orderly, Unaborted, Draining
<1>3. CASE \/ SignInFails(c) \/ TakeOverRefused(c) \/ SlotTimeout(c) \/ AdmitTimeout(c) \/ SetupFails(c)
           \/ PlainReturns(c) \/ OwnerPanics(c) \/ HandOver(c) \/ Abort(c)
           \/ Return(c) /\ (TrySlot(c) \/ IncumbentAlive(c) \/ AcquireDesktop(c))
  <2>1. PICK pc \in {"done", "panicked"} : LeaveAs(c, pc) /\ (OwnerPanics(c) => pc = "panicked")
    BY Zenon, <1>3 DEF SignInFails, TakeOverRefused, SlotTimeout, AdmitTimeout, SetupFails, PlainReturns,
       OwnerPanics,
       HandOver, Abort, Return
  <2>2. UNCHANGED entry
    BY Zenon, <1>3 DEF SignInFails, TakeOverRefused, SlotTimeout, AdmitTimeout, SetupFails, PlainReturns,
       OwnerPanics,
       HandOver, Abort, TrySlot, TakeSlot, IncumbentAlive, AcquireDesktop
  <2>3. /\ ~Is(c, "panicked")
        /\ \/ OwnerPanics(c) \/ ~Unaborted \/ Is(c, "depart")
           \/ task[c].pc \in {"auth", "answer", "slotwait", "admit", "create", "setup", "kept", "slot", "proof", "acquire"}
    BY Zenon, <1>3 DEF SignInFails, TakeOverRefused, SlotTimeout, AdmitTimeout, SetupFails, PlainReturns,
       OwnerPanics,
       HandOver, Abort, TrySlot, IncumbentAlive, AcquireDesktop, Unaborted, Over
  <2>4. task[c].pc \in {"auth", "answer", "slotwait", "admit", "create", "setup", "kept", "slot", "proof", "acquire"}
          => ~Owns(c)
    BY Zenon DEF Placed, TaskPlaced, OwnerPcs, TailPcs, Attaching, Resumes, HandingOver
  <2>5. EntryLives
    BY Zenon, <2>2, Lives
  <2> QED
    BY Zenon, <2>1, <2>3, <2>4, <2>5, EntryLeaves
<1>4. CASE PrepareResume(c)
  <2>1. PICK g, v : /\ Answered(c, g, v)
                    /\ v \in {"permit", "drained", "exhausted"} => entry # NoEntry /\ entry.state = "Detached"
                    /\ v = "permit" => ~Registry!Exhausted(entry)
    BY Zenon, <1>4, PresentedFacts
  <2>2. EntryLives /\ Is(c, "auth")
    BY Zenon, <1>4, <2>1, AnsweredEntry DEF PrepareResume
  <2>3. ~Owns(c)
    BY Zenon, <2>2 DEF Placed, TaskPlaced, OwnerPcs, TailPcs, Attaching, Resumes, HandingOver
  <2>4. CASE Return(c)
    BY Zenon, <2>2, <2>3, <2>4, EntryLeaves DEF Return
  <2>5. CASE ~Return(c)
    <3>0. Becomes(c, IF v = "permit" THEN "handoff" ELSE "notify", task[c].user, entry.session,
                  task[c].lease, task[c].owns, Record(entry.owner, Nobody))
      BY Zenon, <2>1, <2>5, StepFields
    <3>1. PICK p, s, f : p \in {"handoff", "notify"} /\ Becomes(c, p, task[c].user, s, task[c].lease, task[c].owns, f)
      BY SMTT(60), <3>0
    <3>2. stop' = stop
      BY Zenon, <2>1, <2>5 DEF Answered
    <3> QED
      BY ZenonT(60), <2>2, <2>3, <3>1, <3>2, EntryKept DEF Becomes, Others
  <2> QED
    BY Zenon, <2>4, <2>5
<1>5. CASE Handoff(c) \/ NotifyOwner(c)
  <2>1. ~Owns(c) /\ task[c].owns = "none" /\ task[c].pc \in {"handoff", "notify"}
    BY ZenonT(60), <1>5 DEF Handoff, NotifyOwner, Placed, TaskPlaced, OwnerPcs, TailPcs, Attaching, Resumes,
       HandingOver, TypeOK, Tasks, Owns
  <2>2. EntryLives
    BY Zenon, <1>5, Lives DEF Handoff, NotifyOwner
  <2>3. CASE Return(c)
    BY Zenon, <2>1, <2>2, <2>3, EntryLeaves DEF Return
  <2>4. CASE task' = [task EXCEPT ![c] = Blank("done")]
    <3>1. Others(c) /\ task'[c].pc = "done" /\ task'[c].owns = "none"
      BY Zenon, <2>4 DEF Others, TypeOK, Blank
    <3>2. stop' = stop
      BY Zenon, <1>5 DEF Handoff, NotifyOwner, Return, LeaveAs
    <3> QED
      BY Zenon, <2>1, <2>2, <3>1, <3>2, EntryKept
  <2> QED
    BY Zenon, <1>5, <2>3, <2>4 DEF Handoff, NotifyOwner
<1>6. CASE SendGrantFails(c) \/ RefreshFails(c) \/ DeliveryFails(c) \/ DrainForSuccessor(c) \/ DrainSlot(c)
  <2>1. PICK q \in {"undo", "ended", "drain", "restore", "keep"} : Steps(c, q)
    BY Zenon, <1>6, Fields DEF SendGrantFails, RefreshFails, DeliveryFails, DrainForSuccessor, DrainSlot
  <2>2. task[c].pc \in {"send", "attached", "deliver", "retired", "drain"} /\ stop' = stop
        /\ Registry!BeginDrain(task[c].session)
    BY Zenon, <1>6 DEF SendGrantFails, RefreshFails, DeliveryFails, DrainForSuccessor, DrainSlot, Session
  <2>3. Keeps(c)
    BY Zenon, <2>2 DEF Keeps, Placed, TaskPlaced, OwnerPcs, Attaching, Resumes, HandingOver
  <2>4. Registry!Owned(task[c].session)
    BY Zenon, <2>3 DEF EntryOwned, Registry!Owned
  <2>5. EntryLives /\ Draining'
    BY Zenon, <2>2, <2>4, Lives
  <2> QED
    BY Zenon, <2>1, <2>2, <2>5, EntryKept DEF Steps, Becomes, Others
<1>7. CASE \/ MarkDetached(c) \/ MarkAttached(c) \/ RequestTakeOver(c) \/ AttachmentCommanded(c)
           \/ ReceiveTerminal(c) \/ ReceiveResume(c)
           \/ ReceiveTakeOver(c) /\ ~UNCHANGED task
  <2>1. PICK q \in {"waiting", "drain", "attached", "answer", "slot", "ended", "validate", "retire"} :
           Steps(c, q) \/ \E f : StepsWith(c, q, f)
    BY Zenon, <1>7, Fields, StepFields DEF MarkDetached, MarkAttached, RequestTakeOver, AttachmentCommanded,
       ReceiveTerminal,
       ReceiveResume, ReceiveTakeOver
  <2>2. task[c].pc \in {"mark", "remark", "takeover", "attached", "waiting"} /\ stop' = stop
    BY Zenon, <1>7 DEF MarkDetached, MarkAttached, RequestTakeOver, AttachmentCommanded, ReceiveTerminal,
       ReceiveResume,
       ReceiveTakeOver, Received
  <2>3. EntryLives
    BY Zenon, <1>7, Lives DEF MarkDetached, MarkAttached, RequestTakeOver, AttachmentCommanded,
       ReceiveTerminal, ReceiveResume,
       ReceiveTakeOver, Registry!MarkDetached, Registry!MarkAttached, Registry!EntryStates
  <2>4. q \notin Drained
    BY Zenon DEF Drained, TailPcs
  <2> QED
    BY Zenon, <2>1, <2>2, <2>3, <2>4, EntryKept DEF Steps, StepsWith, Becomes, Others
<1>8. CASE RefreshGrant(c)
  <2>1. EntryLives /\ UNCHANGED <<task, stop>> /\ Is(c, "attached")
    BY Zenon, <1>8, Lives DEF RefreshGrant
  <2>2. "attached" \notin Drained
    BY Zenon DEF Drained, TailPcs
  <2> QED
    BY Zenon, <2>1, <2>2, EntryKept DEF Others
<1>9. CASE IssueGrant(c)
  <2>1. Becomes(c, "send", task[c].user, task[c].session, task[c].lease, "slot", task[c].ref) /\ Is(c, "setup")
    BY Zenon, <1>9, StepFields DEF IssueGrant
  <2>2. /\ entry' # NoEntry /\ entry'.owner = c /\ entry'.session = task[c].session
    <3>1. entry' = [session |-> task[c].session, holder |-> c, owner |-> c, generation |-> 1,
             nonce |-> issued + 1, slot |-> "active", state |-> "Attached"]
      BY Zenon, <1>9 DEF IssueGrant, Registry!IssueInitial, Registry!Sign
    <3>2. task[c].session \in 1 .. MaxDesktops /\ issued < MaxNonce
      BY Zenon, <1>9 DEF IssueGrant, NativeValid, Serves, Placed, TaskPlaced, Leased, PastAdmit, Desktops, TypeOK,
         Registry!IssueInitial, Registry!MayIssue
    <3>3. entry' \in Registry!Entries
      <4>1. issued \in Nat
        BY SMTT(60), SMTT(90) DEF TypeOK
      <4>2. issued + 1 \in 0 .. MaxNonce /\ 1 \in Registry!GrantGens
        BY SMTT(60), <3>2, <4>1, GrantAssumption DEF Registry!GrantGens
      <4> QED
        BY Zenon, <3>1, <3>2, <4>2 DEF Registry!Entries, Registry!EntryStates
    <3> QED
      BY Zenon, <3>1, <3>3, NothingAssumption
  <2>3. \A d \in Conns : Owns(d)' => d = c
    <3>1. "send" \in PastAdmit /\ \A pc \in OwnerPcs \cup TailPcs : pc \in PastAdmit
      BY Zenon DEF PastAdmit, OwnerPcs, Attaching
    <3>2. \A d \in Conns : /\ task'[d].pc \in PastAdmit => admitted' = d
                           /\ task'[d].owns = "slot" => task'[d].pc \in OwnerPcs \cup TailPcs
      BY Zenon DEF Placed, TaskPlaced, Owns
    <3>3. admitted' = c
      BY Zenon, <2>1, <3>1, <3>2 DEF Becomes
    <3> QED
      BY Zenon, <3>1, <3>2, <3>3 DEF Owns
  <2>4. "send" \notin Drained
    BY Zenon DEF Drained, TailPcs
  <2> QED
    BY ZenonT(60), <2>1, <2>2, <2>3, <2>4 DEF EntryOwned, Keeps, Owns, Becomes
<1>10. CASE ReleaseSlot(c)
  <2>1. Steps(c, "depart") /\ Is(c, "release")
    BY Zenon, <1>10, Fields DEF ReleaseSlot
  <2>2. Keeps(c)
    BY Zenon, <2>1 DEF Keeps, Placed, TaskPlaced, OwnerPcs, Attaching, Resumes, HandingOver
  <2>3. entry' = NoEntry
    BY Zenon, <1>10, <2>2 DEF EntryOwned, ReleaseSlot, Registry!CompleteDrain, Registry!Owned, Session
  <2>4. \A d \in Conns : Owns(d)' => d = c
    BY Zenon, <2>1, <2>2, OneOwner DEF Keeps, Owns, Steps, Becomes
  <2>5. "depart" \notin Drained
    BY Zenon DEF Drained, TailPcs
  <2> QED
    BY Zenon, <2>1, <2>3, <2>4, <2>5 DEF EntryOwned, Keeps, Steps, Becomes
<1>11. CASE Finish(c)
  <2>1. LeaveAs(c, "done") /\ Is(c, "finish")
    BY Zenon, <1>11 DEF Finish, Return
  <2>2. CASE Owns(c)
    <3>1. entry' = NoEntry
      BY Zenon, <1>11, <2>1, <2>2 DEF EntryOwned, Keeps, Finish, Owns, Registry!CompleteDrain, Registry!Owned,
         Session
    <3> QED
      BY Zenon, <2>1, <2>2, <3>1, EntryLeaves
  <2>3. CASE ~Owns(c)
    <3>1. EntryLives
      BY Zenon, <1>11, <2>3, Lives DEF Finish, Owns
    <3> QED
      BY Zenon, <2>1, <2>3, <3>1, EntryLeaves
  <2> QED
    BY Zenon, <2>2, <2>3
<1> HIDE DEF Is, registryVars, desktopVars, peerVars, channelVars, globalVars
<1>12. CASE TrySlot(c) \/ IncumbentAlive(c) \/ SlotFreed(c)
  <2>1. CASE TakeSlot(c)
    BY Zenon, <1>1, <1>12, <2>1, QuietMovesAre DEF TrySlot, IncumbentAlive, SlotFreed, Is
  <2>2. CASE Return(c)
    BY Zenon, <1>3, <1>12, <2>1, <2>2 DEF SlotFreed
  <2>3. CASE TrySlot(c) /\ ~TakeSlot(c) /\ ~Return(c)
    BY Zenon, <1>1, <2>3, PlainMovesAre, QuietMovesAre
  <2> QED
    BY Zenon, <1>12, <2>1, <2>2, <2>3 DEF IncumbentAlive, SlotFreed
<1>13. CASE \/ Connect(c) \/ TakeOverGranted(c) \/ IncumbentSilent(c) \/ CloseSilent(c) \/ Register(c)
            \/ IssueFails(c) \/ SendGrant(c) \/ ServePlain(c) \/ EndDisplaced(c) \/ EndTerminal(c) \/ EndLost(c)
            \/ DeadlineReached(c) \/ MonitorFails(c) \/ DeliverSuccessor(c) \/ Rebind(c) \/ RecordSuperseded(c)
            \/ AttachmentLost(c) \/ SetupWriterEnds(c) \/ AttachmentCloses(c)
  BY Zenon, <1>1, <1>13, PlainMovesAre, QuietMovesAre
<1>14. CASE \/ SignIn(c) \/ Admit(c) \/ CreateDesktop(c) \/ UndoSetup(c) \/ PlainEnds(c) \/ RestoreForSuccessor(c)
            \/ HoldForResume(c) \/ WaitDisplaced(c) \/ ValidateResume(c) \/ KeepDisplay(c) \/ Terminate(c)
            \/ AcquireDesktop(c) /\ ~Return(c) /\ task' # task
  BY Zenon, <1>1, <1>14, QuietMovesAre
<1>15. CASE LinkLost(c) \/ (ReceiveTakeOver(c) /\ UNCHANGED task)
  BY Zenon, <1>2, <1>15 DEF LinkLost, ReceiveTakeOver, registryVars, globalVars
<1>16. CASE AcquireDesktop(c)
  <2>1. UNCHANGED <<entry, stop>> \/ Return(c)
    BY Zenon, <1>16 DEF AcquireDesktop, registryVars, globalVars
  <2>2. CASE task' = task /\ UNCHANGED <<entry, stop>>
    BY Zenon, <1>2, <2>2
  <2> QED
    BY Zenon, <1>3, <1>14, <1>16, <2>1, <2>2
<1> QED
  BY ZenonT(60), <1>3, <1>4, <1>5, <1>6, <1>7, <1>8, <1>9, <1>10, <1>11, <1>12, <1>13, <1>14, <1>15, <1>16
     DEF TaskStep, Served

\* Initially no stage of the shutdown is reached.
LEMMA StopInit ==
  ASSUME Init
  PROVE  StopsInOrder
BY Zenon DEF Init, StopsInOrder, Registry!Init

\* Initially nobody owns a session.
LEMMA EntryInit ==
  ASSUME Init
  PROVE  EntryOwned
BY Zenon DEF Init, Registry!Init, EntryOwned, Keeps, Owns, Blank

\* Every step keeps EntryOwned.
LEMMA EntryStep ==
  ASSUME TypeOK, TypeOK', Placed, Placed', StopsInOrder, EntryOwned, [Next]_vars
  PROVE  EntryOwned'
<1>1. ASSUME NEW c \in Conns, Connect(c) \/ TaskStep(c) \/ Served(c) \/ LinkLost(c)
      PROVE  EntryOwned'
  BY Zenon, <1>1, EntryTask
<1> USE DEF registryVars, desktopVars, peerVars, channelVars, globalVars
<1>2. ASSUME UNCHANGED task, EntryLives, Orderly' => Orderly
      PROVE  EntryOwned'
  <2>1. entry # NoEntry => entry.owner \in Conns
    BY Zenon DEF TypeOK, Registry!Entries
  <2> QED
    BY Zenon, <1>2, <2>1 DEF EntryOwned, Keeps, Owns, Is, EntryLives, Draining
<1>3. CASE CleanupStep \/ Tick \/ NativeSessionEnds \/ UNCHANGED vars
  <2>1. UNCHANGED <<task, entry, stop>>
    BY Zenon, <1>3 DEF CleanupStep, CleanupRestoresDisplay, CleanupCompletes, Tick, NativeSessionEnds, vars
  <2>2. EntryLives /\ (Orderly' => Orderly)
    BY Zenon, <2>1, Lives DEF Orderly, Unaborted, Is
  <2> QED
    BY Zenon, <1>2, <2>1, <2>2
<1>4. CASE StopEndpoint \/ StopTimeout \/ StopJoined \/ StopRequest \/ StopDesktop
  <2>1. UNCHANGED task /\ (Unaborted' => Unaborted)
    BY Zenon, <1>4 DEF StopEndpoint, StopTimeout, StopJoined, StopRequest, StopDesktop, StopTo, Unaborted
  <2>2. EntryLives
    BY Zenon, <1>4, Lives DEF StopEndpoint, StopTimeout, StopJoined, StopRequest, StopDesktop
  <2>3. Orderly' => Orderly
    BY Zenon, <2>1 DEF Orderly, Is
  <2> QED
    BY Zenon, <1>2, <2>1, <2>2, <2>3
<1>5. CASE StopComplete
  <2>1. \A c \in Conns : ~Owns(c)
    BY Zenon, <1>5 DEF StopComplete, StopsInOrder, Over, Placed, TaskPlaced, OwnerPcs, TailPcs, Attaching,
       Resumes, HandingOver
  <2> QED
    BY Zenon, <1>5, <2>1 DEF StopComplete, StopTo, EntryOwned, Keeps, Owns, Orderly, Unaborted
<1> QED
  BY Zenon, <1>1, <1>3, <1>4, <1>5 DEF Next, Stopping

-----------------------------------------------------------------------------
(* ChannelsInOrder: what an owner's channel holds. *)

\* An owner that serves no attachment and has not drained yet.
Parked == {"waiting", "drain", "retire", "retired"}

\* Task d is about to send to o: a permit's socket (handoff) or the news of a drained
\* session (notify).
Asks(d, kind, o) == Is(d, kind) /\ task[d].ref.task = o
Unasked(o) == \A d \in Conns : ~Asks(d, "handoff", o) /\ ~Asks(d, "notify", o)
Silent(o) == inbox[o] = <<>> /\ Unasked(o)
Only(o, kinds) == \A i \in DOMAIN inbox[o] : inbox[o][i].kind \in kinds

\* The entry's resume is on its way exactly once: as the last command of the channel, or
\* with the one task that holds the permit.
OneResume(o) ==
    /\ \A i \in DOMAIN inbox[o] : inbox[o][i].kind = "Resume" =>
           i = Len(inbox[o]) /\ \A d \in Conns : ~Asks(d, "handoff", o)
    /\ \A d, e \in Conns : Asks(d, "handoff", o) /\ Asks(e, "handoff", o) => d = e
    /\ Unaborted => \/ \E d \in Conns : Asks(d, "handoff", o)
                    \/ \E i \in DOMAIN inbox[o] : inbox[o][i].kind = "Resume"

\* The channel of the owner o, by the state of its entry: silent while attached, only
\* take-overs while detached, one resume while resuming; nothing is promised once it
\* drains.
ChannelInOrder(o) ==
    /\ task[o].pc \in Attaching /\ stop \in {"run", "closed"} => Silent(o)
    /\ entry.state = "Attached" => task[o].pc \in Attaching \cup {"drain", "retire", "retired"} /\ Silent(o)
    /\ entry.state = "Detached" => task[o].pc \in Parked /\ Only(o, {"TakeOver"}) /\ Unasked(o)
    /\ entry.state = "Resuming" =>
        /\ task[o].pc \in Parked \cup Resumes
        /\ \A d \in Conns : ~Asks(d, "notify", o)
        /\ task[o].pc \in Resumes => Silent(o)
        /\ Only(o, {"TakeOver", "Resume"})
        /\ task[o].pc \in Parked \ {"drain"} => OneResume(o)

\* A permit and an entry name a task that got past its setup.
Addressed ==
    /\ \A d \in Conns : task[d].pc \in {"handoff", "notify"} =>
           task[d].ref.task \in Conns /\ task[task[d].ref.task].pc \notin Early
    /\ entry # NoEntry => task[entry.owner].pc \notin Early
ChannelsInOrder == Addressed /\ \A o \in Conns : Keeps(o) => ChannelInOrder(o)

\* What a step of c that sends nothing leaves as it was.
Moves(c) ==
    /\ Others(c) /\ task'[c].pc \notin {"handoff", "notify"}
    /\ task'[c].pc \in Early => task[c].pc \in Early

\* A step of c that sends nothing keeps the addresses.
LEMMA AddressedKept ==
  ASSUME TypeOK, TypeOK', Addressed, NEW c \in Conns, Moves(c),
         entry' # NoEntry => entry # NoEntry /\ entry'.owner = entry.owner
  PROVE  Addressed'
<1>1. \A d \in Conns : task[d].pc \notin Early => task'[d].pc \notin Early
  BY Zenon DEF Moves, Others
<1>2. \A d \in Conns : task'[d].pc \in {"handoff", "notify"} => task'[d] = task[d]
  BY Zenon DEF Moves, Others
<1>3. entry' # NoEntry => entry.owner \in Conns
  BY Zenon DEF TypeOK, Registry!Entries
<1> QED
  BY Zenon, <1>1, <1>2, <1>3 DEF Addressed

\* Nobody else's mail changes when c neither was nor is a sender.
LEMMA AsksKept ==
  ASSUME NEW c \in Conns, Others(c), task[c].pc \notin {"handoff", "notify"}, task'[c].pc \notin {"handoff", "notify"}
  PROVE  \A d \in Conns, o \in Conns : /\ Asks(d, "handoff", o)' <=> Asks(d, "handoff", o)
                                       /\ Asks(d, "notify", o)' <=> Asks(d, "notify", o)
BY Zenon DEF Asks, Is, Others

\* An owner whose entry only drains, and whom nobody new addresses, keeps its channel in
\* order.
LEMMA ChannelStays ==
  ASSUME NEW o \in Conns, ChannelInOrder(o), task'[o].pc = task[o].pc, inbox'[o] = inbox[o], stop' = stop,
         entry'.state \in {entry.state, "Draining"},
         \A d \in Conns : /\ Asks(d, "handoff", o)' <=> Asks(d, "handoff", o)
                          /\ Asks(d, "notify", o)' <=> Asks(d, "notify", o)
  PROVE  ChannelInOrder(o)'
<1> HIDE DEF Asks
<1> QED
  BY ZenonT(60) DEF ChannelInOrder, Silent, Unasked, Only, OneResume, Unaborted

\* A quiet move keeps the channels in order.
LEMMA ChannelQuiet ==
  ASSUME TypeOK, TypeOK', Placed, ChannelsInOrder, NEW c \in Conns, QuietMove(c)
  PROVE  ChannelsInOrder'
<1>1. PICK p, q : <<p, q>> \in QuietMoves /\ task[c].pc = p /\ task'[c].pc = q
  BY SMTT(60) DEF QuietMove, QuietMoves, PlainMoves
<1>2. Moves(c) /\ task[c].pc \notin {"handoff", "notify"} /\ Others(c) /\ UNCHANGED <<entry, inbox, stop>>
  BY Zenon, <1>1 DEF Moves, QuietMove, QuietMoves, PlainMoves, Early
<1>3. Addressed'
  BY Zenon, <1>2, AddressedKept DEF ChannelsInOrder
<1>4. \A d \in Conns, o \in Conns : /\ Asks(d, "handoff", o)' <=> Asks(d, "handoff", o)
                                    /\ Asks(d, "notify", o)' <=> Asks(d, "notify", o)
  BY Zenon, <1>2, AsksKept DEF Moves
<1>5. ASSUME NEW o \in Conns, o # c, Keeps(o)' PROVE ChannelInOrder(o)'
  <2>1. Keeps(o) /\ task'[o].pc = task[o].pc
    BY Zenon, <1>2, <1>5 DEF Others, Keeps, Owns, Is
  <2> QED
    BY Zenon, <1>2, <1>4, <2>1, ChannelStays DEF ChannelsInOrder
<1>6. ASSUME Keeps(c)' PROVE ChannelInOrder(c)'
  <2>1. Keeps(c) /\ ChannelInOrder(c)
    BY ZenonT(60), <1>1, <1>6 DEF QuietMove, Keeps, Owns, Is, ChannelsInOrder, QuietMoves, PlainMoves
  <2>2. /\ q \in Attaching => p \in Attaching \/ ~Owns(c)
        /\ p \in Attaching => q \in Attaching \cup {"drain", "retire"}
        /\ p \in Parked => q \in Parked
        /\ p \in Resumes => q \in Resumes \cup {"drain"}
        /\ p = "retire" => q = "retired"
        /\ p \notin {"drain", "retired"}
    BY Zenon, <1>1 DEF QuietMoves, PlainMoves, Attaching, Parked, Resumes
  <2>3. /\ q \in Resumes => p \in Resumes
        /\ q \in Parked \ {"drain"} => p \in Parked \ {"drain"} \/ p = "ended"
    BY Zenon, <1>1 DEF QuietMoves, PlainMoves, Parked, Resumes
  <2>4. "ended" \notin Parked /\ "ended" \notin Resumes /\ "drain" \in Parked
    BY Zenon DEF Parked, Resumes
  <2> HIDE DEF Asks
  <2>5. /\ Silent(c)' <=> Silent(c)
        /\ Unasked(c)' <=> Unasked(c)
        /\ OneResume(c)' <=> OneResume(c)
        /\ Only(c, {"TakeOver"})' <=> Only(c, {"TakeOver"})
        /\ Only(c, {"TakeOver", "Resume"})' <=> Only(c, {"TakeOver", "Resume"})
    BY Zenon, <1>2, <1>4 DEF Silent, Unasked, OneResume, Only, Unaborted
  <2> HIDE DEF Silent, Unasked, OneResume, Only
  <2> QED
    BY ZenonT(60), <1>1, <1>2, <1>4, <2>1, <2>2, <2>3, <2>4, <2>5 DEF ChannelInOrder, Keeps
<1> QED
  BY Zenon, <1>3, <1>5, <1>6 DEF ChannelsInOrder

\* A task that leaves takes its own channel with it, and a permit only if the owner is
\* gone or the task is aborted.
LEMMA ChannelLeaves ==
  ASSUME TypeOK, TypeOK', Placed, EntryOwned', ChannelsInOrder, NEW c \in Conns, NEW pc \in {"done", "panicked"}, LeaveAs(c, pc),
         \/ entry' = NoEntry
         \/ EntryLives /\ (entry # NoEntry => entry'.state \in {entry.state, "Draining"}),
         Is(c, "handoff") => ~Unaborted \/ ~Listening(task[c].ref.task)
  PROVE  ChannelsInOrder'
<1>1. Becomes(c, pc, Nobody, 0, "none", "none", NoRecord) /\ stop' = stop
  BY Zenon, Fields DEF LeaveAs, globalVars
<1>2. \A d \in Conns \ {c} : inbox'[d] = inbox[d]
  BY Zenon DEF LeaveAs, TypeOK
<1>3. Moves(c)
  BY Zenon, <1>1 DEF Moves, Becomes, Others, Early
<1>4. Addressed'
  BY Zenon, <1>3, AddressedKept DEF ChannelsInOrder, EntryLives
<1>5. ASSUME NEW o \in Conns, Keeps(o)' PROVE ChannelInOrder(o)'
  <2>1. o # c /\ Keeps(o) /\ Owns(o) /\ task'[o] = task[o] /\ inbox'[o] = inbox[o]
    BY Zenon, <1>1, <1>2, <1>5 DEF Keeps, Owns, Is, Becomes
  <2>2. entry' # NoEntry /\ entry # NoEntry /\ entry'.state \in {entry.state, "Draining"}
    BY Zenon, <1>5 DEF EntryOwned, EntryLives
  <2>3. ChannelInOrder(o)
    BY Zenon, <2>1 DEF ChannelsInOrder
  <2>4. /\ \A d \in Conns, k \in {"handoff", "notify"} : Asks(d, k, o)' => Asks(d, k, o)
        /\ \A d \in Conns : Unaborted /\ Asks(d, "handoff", o) => Asks(d, "handoff", o)'
    BY Zenon, <1>1, <2>1 DEF Asks, Is, Becomes, Listening, Owns
  <2> HIDE DEF Asks
  <2>5. /\ Silent(o) => Silent(o)'
        /\ Unasked(o) => Unasked(o)'
        /\ OneResume(o) => OneResume(o)'
        /\ Only(o, {"TakeOver"})' <=> Only(o, {"TakeOver"})
        /\ Only(o, {"TakeOver", "Resume"})' <=> Only(o, {"TakeOver", "Resume"})
    BY Zenon, <1>1, <2>1, <2>4 DEF Silent, Unasked, OneResume, Only, Unaborted
  <2> HIDE DEF Silent, Unasked, OneResume, Only
  <2> QED
    BY ZenonT(60), <1>1, <2>1, <2>2, <2>3, <2>4, <2>5 DEF ChannelInOrder
<1> QED
  BY Zenon, <1>4, <1>5 DEF ChannelsInOrder

\* A step of the owner c that keeps its channel's invariant.
LEMMA ChannelOwner ==
  ASSUME TypeOK, TypeOK', Placed, EntryOwned', ChannelsInOrder, NEW c \in Conns, Owns(c), Moves(c), EntryLives, stop' = stop,
         Owns(c)' => task'[c].pc = "depart" \/ ChannelInOrder(c)'
  PROVE  ChannelsInOrder'
<1>1. Addressed'
  BY Zenon, AddressedKept DEF ChannelsInOrder, EntryLives
<1>2. ASSUME NEW o \in Conns, Keeps(o)' PROVE ChannelInOrder(o)'
  <2>1. CASE o = c
    BY Zenon, <1>2, <2>1 DEF Keeps, Is
  <2>2. CASE o # c
    BY Zenon, <1>2, <2>2, OneOwner DEF Keeps, Owns, Moves, Others
  <2> QED
    BY Zenon, <2>1, <2>2
<1> QED
  BY Zenon, <1>1, <1>2 DEF ChannelsInOrder

\* A step of a task that owns nothing and sends to nobody.
LEMMA ChannelOthers ==
  ASSUME TypeOK, TypeOK', Placed, ChannelsInOrder, NEW c \in Conns, ~Owns(c), ~Owns(c)', Moves(c), EntryLives, stop' = stop,
         \A o \in Conns : Keeps(o) => ChannelInOrder(o)'
  PROVE  ChannelsInOrder'
<1>1. Addressed'
  BY Zenon, AddressedKept DEF ChannelsInOrder, EntryLives
<1>2. \A o \in Conns : Keeps(o)' => Keeps(o)
  BY Zenon DEF Keeps, Owns, Is, Moves, Others
<1> QED
  BY Zenon, <1>1, <1>2 DEF ChannelsInOrder

\* A record holds the task and the connection it was made from.
LEMMA RecordFields ==
  \A t, k : Record(t, k).task = t /\ Record(t, k).conn = k
BY SMTT(60) DEF Record

\* An accepted resume, and a rejection that drains, find the channel without a resume and
\* leave one sender.
LEMMA ChannelPrepares ==
  ASSUME TypeOK, TypeOK', Placed, EntryOwned, EntryOwned', ChannelsInOrder, NEW c \in Conns, PrepareResume(c)
  PROVE  ChannelsInOrder'
<1>1. PICK g, v : /\ Answered(c, g, v)
                  /\ v \in {"permit", "drained", "exhausted"} => entry # NoEntry /\ entry.state = "Detached"
                  /\ v = "permit" => ~Registry!Exhausted(entry)
                  /\ v \in {"permit", "drained", "exhausted", "gone", "rejected"}
  BY Zenon, PresentedFacts
<1>2. /\ EntryLives
      /\ v = "permit" => entry'.state = "Resuming"
      /\ v \in {"drained", "exhausted"} => Draining'
      /\ v \in {"gone", "rejected"} => entry' = entry
  BY Zenon, <1>1, AnsweredEntry
<1>3. Is(c, "auth") /\ ~Owns(c)
  BY Zenon DEF PrepareResume, Placed, TaskPlaced, Is, OwnerPcs, TailPcs, Attaching, Resumes, HandingOver
<1>4. CASE Return(c)
  <2>1. v # "permit" /\ entry # NoEntry => entry'.state \in {entry.state, "Draining"}
    BY Zenon, <1>1, <1>2 DEF Draining
  <2>2. v \in {"permit", "drained"} => task'[c].pc \in {"handoff", "notify"}
    BY Zenon, <1>1, StepFields DEF Becomes
  <2>3. task'[c].pc = "done"
    BY Zenon, <1>4 DEF Return, LeaveAs, TypeOK, Blank
  <2> QED
    BY ZenonT(60), <1>2, <1>3, <1>4, <2>1, <2>2, <2>3, ChannelLeaves DEF Return, Is
<1>5. CASE ~Return(c)
  <2>1. PICK p \in {"handoff", "notify"} :
          /\ Becomes(c, p, task[c].user, entry.session, task[c].lease, task[c].owns, Record(entry.owner, Nobody))
          /\ p = "handoff" <=> v = "permit"
    BY ZenonT(60), <1>1, <1>5, StepFields
  <2>2. UNCHANGED <<inbox, stop>> /\ v \in {"permit", "drained"}
    BY ZenonT(60), <1>1, <1>5 DEF Answered, channelVars, globalVars
  <2>3. entry # NoEntry /\ entry' # NoEntry /\ entry.state = "Detached" /\ entry'.owner = entry.owner
        /\ entry.owner \in Conns
    BY ZenonT(60), <1>1, <1>2, <2>2 DEF EntryLives, TypeOK, Registry!Entries
  <2>4. task'[c].ref.task = entry.owner
    <3>1. task'[c].ref = Record(entry.owner, Nobody)
      BY ZenonT(60), <2>1 DEF Becomes
    <3> QED
      BY ZenonT(60), <3>1, RecordFields
  <2>5. entry.owner # c /\ task[entry.owner].pc \notin Early
    BY Zenon, <1>3, <2>3 DEF ChannelsInOrder, Addressed, Is, Early
  <2>6. \A d \in Conns : task[d].pc \notin Early => task'[d].pc \notin Early
    BY Zenon, <1>3, <2>1 DEF Becomes, Is, Early
  <2>7. Addressed'
    BY ZenonT(60), <2>1, <2>3, <2>4, <2>5, <2>6 DEF ChannelsInOrder, Addressed, Becomes
  <2>8. ASSUME NEW o \in Conns, Keeps(o)' PROVE ChannelInOrder(o)'
    <3>1. o # c /\ Keeps(o) /\ task'[o] = task[o]
      BY ZenonT(60), <1>3, <2>1, <2>8 DEF Becomes, Keeps, Owns, Is
    <3>2. o = entry.owner /\ ChannelInOrder(o)
      BY Zenon, <3>1 DEF EntryOwned, ChannelsInOrder
    <3>3. task[o].pc \in Parked /\ Only(o, {"TakeOver"}) /\ Unasked(o)
      BY Zenon, <2>3, <3>2 DEF ChannelInOrder
    <3>4. /\ task'[o].pc \notin Attaching /\ task'[o].pc \notin Resumes
      BY Zenon, <3>1, <3>3 DEF Parked, Attaching, Resumes
    <3>5. CASE v = "drained"
      BY ZenonT(60), <1>2, <3>4, <3>5 DEF ChannelInOrder, Draining
    <3>6. CASE v = "permit"
      <4>1. \A d \in Conns : ~Asks(d, "notify", o)' /\ (Asks(d, "handoff", o)' <=> d = c)
        BY ZenonT(60), <2>1, <2>4, <3>2, <3>3, <3>6 DEF Asks, Unasked, Is, Becomes
      <4>2. Only(o, {"TakeOver"})' /\ \A i \in DOMAIN inbox'[o] : inbox'[o][i].kind # "Resume"
        BY Zenon, <2>2, <3>3 DEF Only
      <4>3. Only(o, {"TakeOver", "Resume"})'
        BY Zenon, <4>2 DEF Only
      <4> HIDE DEF Asks
      <4>4. OneResume(o)'
        BY Zenon, <4>1, <4>2 DEF OneResume
      <4> HIDE DEF OneResume, Only
      <4> QED
        BY ZenonT(60), <1>2, <3>1, <3>3, <3>4, <3>6, <4>1, <4>3, <4>4 DEF ChannelInOrder
    <3> QED
      BY ZenonT(60), <2>2, <3>5, <3>6
  <2> QED
    BY Zenon, <2>7, <2>8 DEF ChannelsInOrder
<1> QED
  BY Zenon, <1>4, <1>5

\* The permit's socket becomes the last command of the channel.
LEMMA ChannelHandoff ==
  ASSUME TypeOK, TypeOK', Placed, EntryOwned, EntryOwned', ChannelsInOrder, NEW c \in Conns, Handoff(c)
  PROVE  ChannelsInOrder'
<1>0. PICK o : o = task[c].ref.task
  BY Zenon
<1>1. Is(c, "handoff") /\ ~Owns(c)
  BY Zenon DEF Handoff, Placed, TaskPlaced, Is, OwnerPcs, TailPcs, Attaching, Resumes, HandingOver
<1>2. CASE ~Listening(o)
  <2>1. LeaveAs(c, "done") /\ Registry!BeginDrain(task[c].session)
    BY Zenon, <1>0, <1>2 DEF Handoff, Return
  <2>2. EntryLives /\ (entry # NoEntry => entry'.state \in {entry.state, "Draining"})
    BY Zenon, <2>1, Lives DEF Registry!BeginDrain, Registry!Revoked
  <2> QED
    BY Zenon, <1>0, <1>2, <2>1, <2>2, ChannelLeaves
<1>3. CASE Listening(o)
  <2>1. task' = [task EXCEPT ![c] = Blank("done")] /\ SendTo(o, Command("Resume", c)) /\ UNCHANGED <<entry, stop>>
    BY Zenon, <1>0, <1>3 DEF Handoff, registryVars, globalVars
  <2>2. task'[c].pc = "done" /\ task'[c].owns = "none" /\ Others(c)
    BY Zenon, <2>1 DEF TypeOK, Blank, Others
  <2>3. o \in Conns /\ Owns(o) /\ o # c
    BY Zenon, <1>1, <1>3 DEF Listening, Owns
  <2>4. inbox[o] \in Seq(Commands) /\ inbox'[o] = Append(inbox[o], Command("Resume", c))
    BY Zenon, <1>3, <2>1 DEF SendTo, TypeOK, Listening
  <2>5. Command("Resume", c).kind = "Resume"
    BY Zenon DEF Command
  <2>6. Moves(c) /\ EntryLives /\ ~Owns(c)'
    BY Zenon, <2>1, <2>2, Lives DEF Moves, Owns, Early
  <2>7. ASSUME Keeps(o) PROVE ChannelInOrder(o)'
    <3>1. ChannelInOrder(o) /\ Asks(c, "handoff", o) /\ task'[o] = task[o]
      BY Zenon, <1>0, <1>1, <2>2, <2>3, <2>7 DEF ChannelsInOrder, Asks, Others
    <3>2. ~Silent(o) /\ ~Unasked(o)
      BY Zenon, <3>1 DEF Silent, Unasked
    <3>3. /\ \A d \in Conns : Asks(d, "notify", o)' => Asks(d, "notify", o)
          /\ \A d \in Conns : Asks(d, "handoff", o)' => Asks(d, "handoff", o) /\ d # c
      BY Zenon, <2>2 DEF Asks, Is, Others
    <3>4. Only(o, {"TakeOver", "Resume"}) => Only(o, {"TakeOver", "Resume"})'
      BY SMTT(60), <2>4, <2>5 DEF Only
    <3>5. OneResume(o) => OneResume(o)'
      <4> HIDE DEF Asks
      <4>1. ASSUME OneResume(o) PROVE OneResume(o)'
        <5>1. \A d \in Conns : ~Asks(d, "handoff", o)'
          BY Zenon, <3>1, <3>3, <4>1 DEF OneResume
        <5>2. \A i \in DOMAIN inbox[o] : inbox[o][i].kind # "Resume"
          BY Zenon, <3>1, <4>1 DEF OneResume
        <5>3. /\ Len(inbox'[o]) = Len(inbox[o]) + 1 /\ DOMAIN inbox'[o] = 1 .. Len(inbox'[o])
              /\ inbox'[o][Len(inbox'[o])] = Command("Resume", c)
              /\ Len(inbox'[o]) \in DOMAIN inbox'[o]
              /\ \A i \in DOMAIN inbox'[o] : i # Len(inbox'[o]) => i \in DOMAIN inbox[o] /\ inbox'[o][i] = inbox[o][i]
          BY SMTT(60), <2>4
        <5> QED
          BY Zenon, <2>5, <5>1, <5>2, <5>3 DEF OneResume
      <4> QED
        BY Zenon, <4>1
    <3> HIDE DEF Asks, Silent, Unasked, Only, OneResume
    <3> QED
      BY ZenonT(60), <2>1, <3>1, <3>2, <3>3, <3>4, <3>5 DEF ChannelInOrder
  <2>8. \A k \in Conns : Keeps(k) => k = o
    BY Zenon, <2>3, OneOwner DEF Keeps
  <2> QED
    BY ZenonT(60), <1>1, <2>1, <2>3, <2>6, <2>7, <2>8, ChannelOthers
<1> QED
  BY Zenon, <1>2, <1>3

\* The news of a drained session finds a draining entry.
LEMMA ChannelNotify ==
  ASSUME TypeOK, TypeOK', Placed, EntryOwned, EntryOwned', ChannelsInOrder, NEW c \in Conns, NotifyOwner(c)
  PROVE  ChannelsInOrder'
<1>0. PICK o : o = task[c].ref.task
  BY Zenon
<1>1. Is(c, "notify") /\ ~Owns(c)
  BY Zenon DEF NotifyOwner, Placed, TaskPlaced, Is, OwnerPcs, TailPcs, Attaching, Resumes, HandingOver
<1>2. task' = [task EXCEPT ![c] = Blank("done")] /\ SendTo(o, Command("Terminal", c)) /\ UNCHANGED <<entry, stop>>
  BY Zenon, <1>0 DEF NotifyOwner, registryVars, globalVars
<1>3. task'[c].pc = "done" /\ task'[c].owns = "none" /\ Others(c)
  BY Zenon, <1>2 DEF TypeOK, Blank, Others
<1>4. Moves(c) /\ EntryLives /\ ~Owns(c)'
  BY Zenon, <1>2, <1>3, Lives DEF Moves, Owns, Early
<1>5. ASSUME NEW k \in Conns, Keeps(k) PROVE ChannelInOrder(k)'
  <2>1. ChannelInOrder(k) /\ task'[k] = task[k] /\ Owns(k) /\ k # c /\ entry # NoEntry /\ entry \in Registry!Entries
    BY Zenon, <1>1, <1>3, <1>5 DEF ChannelsInOrder, Keeps, Others, EntryOwned, TypeOK
  <2>2. CASE k = o
    <3>1. Asks(c, "notify", k)
      BY Zenon, <1>0, <1>1, <2>2 DEF Asks
    <3>2. ~Silent(k) /\ ~Unasked(k)
      BY Zenon, <3>1 DEF Silent, Unasked
    <3>3. entry.state = "Draining" /\ ~(task[k].pc \in Attaching /\ stop \in {"run", "closed"})
      BY Zenon, <2>1, <3>1, <3>2 DEF ChannelInOrder, Registry!Entries, Registry!EntryStates
    <3> QED
      BY Zenon, <1>2, <2>1, <3>3 DEF ChannelInOrder
  <2>3. CASE k # o
    <3>1. inbox'[k] = inbox[k]
      BY Zenon, <1>2, <2>3 DEF SendTo, TypeOK
    <3>2. \A d \in Conns : /\ Asks(d, "handoff", k)' <=> Asks(d, "handoff", k)
                           /\ Asks(d, "notify", k)' <=> Asks(d, "notify", k)
      BY Zenon, <1>0, <1>1, <1>3, <2>3 DEF Asks, Is, Others
    <3> QED
      BY Zenon, <1>2, <2>1, <3>1, <3>2, ChannelStays
  <2> QED
    BY Zenon, <2>2, <2>3
<1> QED
  BY ZenonT(60), <1>1, <1>2, <1>4, <1>5, ChannelOthers

\* A take-over is sent only to a detached owner.
LEMMA ChannelTakeOver ==
  ASSUME TypeOK, TypeOK', Placed, EntryOwned, ChannelsInOrder, NEW c \in Conns, RequestTakeOver(c)
  PROVE  ChannelsInOrder'
<1>1. PICK q \in {"answer", "slot"} : Steps(c, q)
  BY Zenon, Fields DEF RequestTakeOver
<1>2. Is(c, "takeover") /\ ~Owns(c) /\ UNCHANGED <<entry, stop>>
  BY Zenon DEF RequestTakeOver, registryVars, globalVars, Placed, TaskPlaced, Is, OwnerPcs, TailPcs, Attaching,
     Resumes, HandingOver
<1>3. Moves(c) /\ EntryLives /\ ~Owns(c)'
  BY Zenon, <1>1, <1>2, Lives DEF Moves, Steps, Becomes, Others, Owns, Is, Early
<1>4. \A d \in Conns, k \in Conns : /\ Asks(d, "handoff", k)' <=> Asks(d, "handoff", k)
                                    /\ Asks(d, "notify", k)' <=> Asks(d, "notify", k)
  BY Zenon, <1>2, <1>3, AsksKept DEF Moves, Is
<1>5. ASSUME NEW o \in Conns, Keeps(o) PROVE ChannelInOrder(o)'
  <2>1. ChannelInOrder(o) /\ task'[o] = task[o] /\ entry # NoEntry /\ entry.owner = o
    BY Zenon, <1>2, <1>3, <1>5 DEF ChannelsInOrder, Keeps, Moves, Others, EntryOwned
  <2>2. CASE MayTakeOver
    <3>1. entry.state = "Detached" /\ task[o].pc \in Parked /\ Only(o, {"TakeOver"}) /\ Unasked(o)
      BY Zenon, <2>1, <2>2 DEF MayTakeOver, ChannelInOrder
    <3>2. inbox[o] \in Seq(Commands) /\ inbox'[o] = Append(inbox[o], Command("TakeOver", c))
      BY Zenon, <2>1, <2>2 DEF RequestTakeOver, TypeOK
    <3>3. Command("TakeOver", c).kind = "TakeOver"
      BY Zenon DEF Command
    <3>4. Only(o, {"TakeOver"})'
      BY SMTT(60), <3>1, <3>2, <3>3 DEF Only
    <3> HIDE DEF Asks
    <3>5. Unasked(o)'
      BY Zenon, <1>4, <3>1 DEF Unasked
    <3>6. task[o].pc \notin Attaching
      BY Zenon, <3>1 DEF Parked, Attaching
    <3> HIDE DEF Only, Unasked
    <3> QED
      BY Zenon, <1>2, <2>1, <3>1, <3>4, <3>5, <3>6 DEF ChannelInOrder
  <2>3. CASE ~MayTakeOver
    BY Zenon, <1>2, <1>4, <2>1, <2>3, ChannelStays DEF RequestTakeOver
  <2> QED
    BY Zenon, <2>2, <2>3
<1> QED
  BY Zenon, <1>2, <1>3, <1>5, ChannelOthers

\* A new owner starts with a silent channel.
LEMMA ChannelIssue ==
  ASSUME TypeOK, TypeOK', Placed, Placed', EntryOwned', ChannelsInOrder, NEW c \in Conns, IssueGrant(c)
  PROVE  ChannelsInOrder'
<1>1. Becomes(c, "send", task[c].user, task[c].session, task[c].lease, "slot", task[c].ref)
  BY Zenon, StepFields
<1>2. Is(c, "setup") /\ UNCHANGED <<inbox, stop>>
  BY Zenon DEF IssueGrant, channelVars, globalVars
<1>3. ~Owns(c) /\ task[c].pc \in Early /\ "send" \notin Early
  BY Zenon, <1>2 DEF Placed, TaskPlaced, Is, OwnerPcs, TailPcs, Attaching, Resumes, HandingOver, Early
<1>4. Unasked(c) /\ inbox[c] = <<>>
  BY Zenon, <1>3 DEF ChannelsInOrder, Addressed, Unasked, Asks, Is, Placed, TaskPlaced
<1>5. Owns(c)' /\ Keeps(c)' /\ Others(c)
  BY Zenon, <1>1 DEF Owns, Keeps, Is, Becomes, Others
<1>6. Addressed'
  <2>1. \A d \in Conns : task[d].pc \notin Early => task'[d].pc \notin Early
    BY Zenon, <1>1, <1>3 DEF Becomes
  <2>2. \A d \in Conns : task'[d].pc \in {"handoff", "notify"} => task'[d] = task[d]
    BY Zenon, <1>1 DEF Becomes
  <2>3. entry'.owner = c
    BY Zenon, <1>5 DEF EntryOwned
  <2> QED
    BY Zenon, <1>1, <1>3, <2>1, <2>2, <2>3 DEF Addressed, ChannelsInOrder, Becomes
<1>7. Silent(c)'
  <2>1. \A d \in Conns : ~Asks(d, "handoff", c)' /\ ~Asks(d, "notify", c)'
    BY Zenon, <1>1, <1>4 DEF Unasked, Asks, Is, Becomes
  <2> HIDE DEF Asks
  <2> QED
    BY Zenon, <1>2, <1>4, <2>1 DEF Silent, Unasked
<1>8. ChannelInOrder(c)'
  <2>1. entry'.state = "Attached"
    BY Zenon DEF IssueGrant, Registry!IssueInitial, Registry!Sign
  <2>2. task'[c].pc \in Attaching
    BY ZenonT(60), <1>1 DEF Becomes, Attaching
  <2> HIDE DEF Silent
  <2> QED
    BY Zenon, <1>7, <2>1, <2>2 DEF ChannelInOrder
<1>9. ASSUME NEW o \in Conns, Keeps(o)' PROVE o = c
  <2>1. Owns(o)'
    BY Zenon, <1>9 DEF Keeps
  <2> QED
    BY SMTT(60), <1>5, <2>1 DEF Placed, TaskPlaced, PastAdmit, OwnerPcs, TailPcs, Attaching, Resumes, HandingOver
<1> QED
  BY Zenon, <1>6, <1>8, <1>9 DEF ChannelsInOrder

\* Once the entry drains its owner is past every promise about its channel.
LEMMA ChannelDrains ==
  ASSUME TypeOK, TypeOK', Placed, EntryOwned, EntryOwned', ChannelsInOrder, NEW c \in Conns, Keeps(c), EntryLives, Draining', stop' = stop,
         inbox' = inbox, NEW q, Steps(c, q), q \notin Early, q \notin {"handoff", "notify"},
         q \in Attaching => task[c].pc \in Attaching, task[c].pc \notin {"handoff", "notify"}
  PROVE  ChannelsInOrder'
<1>1. Moves(c) /\ Owns(c) /\ task'[c].pc = q
  BY Zenon DEF Moves, Steps, Becomes, Others, Keeps
<1>2. \A d \in Conns, k \in Conns : /\ Asks(d, "handoff", k)' <=> Asks(d, "handoff", k)
                                    /\ Asks(d, "notify", k)' <=> Asks(d, "notify", k)
  BY Zenon, <1>1, AsksKept DEF Moves
<1>3. Silent(c) => Silent(c)'
  <2> HIDE DEF Asks
  <2> QED
    BY Zenon, <1>2 DEF Silent, Unasked
<1>4. ChannelInOrder(c)'
  <2> HIDE DEF Silent
  <2> QED
    BY Zenon, <1>1, <1>3 DEF ChannelsInOrder, ChannelInOrder, Draining
<1> QED
  BY Zenon, <1>1, <1>4, ChannelOwner

\* At its own steps an owner has the entry, its channel's promise and a channel.
LEMMA OwnerKeeps ==
  ASSUME TypeOK, Placed, EntryOwned, ChannelsInOrder, NEW c \in Conns, task[c].pc \in OwnerPcs \ {"depart"}
  PROVE  /\ Keeps(c) /\ Owns(c) /\ ChannelInOrder(c) /\ task[c].pc \notin {"handoff", "notify"}
         /\ entry # NoEntry /\ entry.owner = c /\ entry.session = task[c].session
         /\ entry.state \in Registry!EntryStates
         /\ inbox[c] \in Seq(Commands)
<1>1. Keeps(c) /\ Owns(c)
  BY Zenon DEF Keeps, Is, Placed, TaskPlaced
<1> QED
  BY Zenon, <1>1 DEF EntryOwned, ChannelsInOrder, TypeOK, Registry!Entries, OwnerPcs, Attaching, Resumes,
     HandingOver

\* An attached owner is commanded, and a waiting one told of an end, only when the entry
\* drains.
LEMMA ChannelCommanded ==
  ASSUME TypeOK, TypeOK', Placed, EntryOwned, EntryOwned', ChannelsInOrder, NEW c \in Conns, AttachmentCommanded(c) \/ ReceiveTerminal(c)
  PROVE  ChannelsInOrder'
<1>1. PICK q \in {"ended", "drain"} : Steps(c, q)
  BY Zenon, Fields DEF AttachmentCommanded, ReceiveTerminal
<1>2. task[c].pc \in {"attached", "waiting"} /\ UNCHANGED <<entry, stop>> /\ inbox[c] # <<>>
  BY Zenon DEF AttachmentCommanded, ReceiveTerminal, Received, Is, registryVars, globalVars
<1>3. ChannelInOrder(c) /\ Owns(c) /\ entry.state \in Registry!EntryStates /\ inbox[c] \in Seq(Commands)
  BY ZenonT(60), <1>2, OwnerKeeps DEF OwnerPcs, Attaching
<1>4. ReceiveTerminal(c) => task[c].pc = "waiting" /\ ~Only(c, {"TakeOver"}) /\ ~Only(c, {"TakeOver", "Resume"})
  BY SMTT(60), <1>3 DEF ReceiveTerminal, Received, Is, Only
<1>5. ~Silent(c)
  BY Zenon, <1>2 DEF Silent
<1>6. entry.state = "Draining" /\ (task[c].pc \in Attaching => stop \notin {"run", "closed"})
  <2> HIDE DEF Silent, Only
  <2>1. CASE ReceiveTerminal(c)
    BY Zenon, <1>3, <1>4, <1>5, <2>1 DEF ChannelInOrder, Registry!EntryStates, Attaching
  <2>2. CASE AttachmentCommanded(c)
    <3>1. task[c].pc = "attached"
      BY Zenon, <2>2 DEF AttachmentCommanded, Is
    <3> QED
      BY Zenon, <1>3, <1>5, <3>1 DEF ChannelInOrder, Registry!EntryStates, Attaching, Parked, Resumes
  <2> QED
    BY Zenon, <2>1, <2>2
<1>7. Moves(c) /\ task'[c].pc = q /\ (ReceiveTerminal(c) => q = "drain")
  BY Zenon, <1>1, <1>2, Fields DEF Moves, Steps, Becomes, Others, Early, ReceiveTerminal
<1>8. ChannelInOrder(c)'
  <2>1. q \in Attaching => stop \notin {"run", "closed"}
    BY Zenon, <1>2, <1>4, <1>6, <1>7 DEF Attaching, AttachmentCommanded, Is
  <2> QED
    BY Zenon, <1>2, <1>6, <1>7, <2>1 DEF ChannelInOrder
<1> QED
  BY Zenon, <1>2, <1>3, <1>7, <1>8, ChannelOwner, Lives

\* mark_detached and mark_attached find a silent channel, or a draining entry.
LEMMA ChannelMarks ==
  ASSUME TypeOK, TypeOK', Placed, EntryOwned, EntryOwned', ChannelsInOrder, NEW c \in Conns, MarkDetached(c) \/ MarkAttached(c)
  PROVE  ChannelsInOrder'
<1>1. PICK q \in {"waiting", "drain", "attached"} : Steps(c, q)
  BY Zenon, Fields DEF MarkDetached, MarkAttached
<1>2. task[c].pc \in {"mark", "remark"} /\ UNCHANGED <<inbox, stop>>
  BY Zenon DEF MarkDetached, MarkAttached, Is, channelVars, globalVars
<1>3. /\ ChannelInOrder(c) /\ Owns(c) /\ entry.state \in Registry!EntryStates /\ Registry!Owned(Session(c))
      /\ task[c].pc \notin {"handoff", "notify"}
  BY Zenon, <1>2, OwnerKeeps DEF OwnerPcs, Attaching, Resumes, Registry!Owned, Session
<1>4. Moves(c) /\ task'[c].pc = q
  BY Zenon, <1>1 DEF Moves, Steps, Becomes, Others, Early
<1>5. \A d \in Conns, k \in Conns : /\ Asks(d, "handoff", k)' <=> Asks(d, "handoff", k)
                                    /\ Asks(d, "notify", k)' <=> Asks(d, "notify", k)
  BY Zenon, <1>3, <1>4, AsksKept DEF Moves
<1>6. EntryLives
  BY Zenon, Lives DEF MarkDetached, MarkAttached, Registry!MarkDetached, Registry!MarkAttached,
     Registry!EntryStates
<1>7. CASE Registry!MayMark(Session(c))
  <2>1. entry.state # "Draining"
    BY Zenon, <1>7 DEF Registry!MayMark
  <2>2. Silent(c)
    <3> HIDE DEF Silent
    <3> QED
      BY Zenon, <1>2, <1>3, <2>1 DEF ChannelInOrder, Registry!EntryStates, Attaching, Resumes, Parked
  <2>3. Silent(c)'
    <3> HIDE DEF Asks
    <3> QED
      BY Zenon, <1>2, <1>5, <2>2 DEF Silent, Unasked
  <2>4. Unasked(c)' /\ Only(c, {"TakeOver"})'
    BY SMTT(60), <2>3 DEF Silent, Only
  <2>5. \/ entry'.state = "Detached" /\ q = "waiting"
        \/ entry'.state = "Attached" /\ q = "attached"
    <3>1. entry \in Registry!Entries
      BY Zenon, <1>7 DEF TypeOK, Registry!MayMark, Registry!Owned
    <3>2. CASE MarkDetached(c)
      <4>1. Steps(c, "waiting")
        BY Zenon, <1>7, <3>2, Fields DEF MarkDetached
      <4>2. entry'.state = "Detached"
        BY Zenon, <1>7, <3>1, <3>2 DEF MarkDetached, Registry!MarkDetached, Registry!Mark, Registry!Entries
      <4> QED
        BY Zenon, <1>4, <4>1, <4>2 DEF Steps, Becomes
    <3>3. CASE MarkAttached(c)
      <4>1. Steps(c, "attached")
        BY Zenon, <1>7, <3>3, Fields DEF MarkAttached
      <4>2. entry'.state = "Attached"
        BY Zenon, <1>7, <3>1, <3>3 DEF MarkAttached, Registry!MarkAttached, Registry!Mark, Registry!Entries
      <4> QED
        BY Zenon, <1>4, <4>1, <4>2 DEF Steps, Becomes
    <3> QED
      BY Zenon, <3>2, <3>3
  <2>6. ChannelInOrder(c)'
    <3> HIDE DEF Silent, Unasked, Only
    <3> QED
      BY ZenonT(60), <1>4, <2>3, <2>4, <2>5 DEF ChannelInOrder, Attaching, Parked
  <2> QED
    BY Zenon, <1>2, <1>3, <1>4, <1>6, <2>6, ChannelOwner
<1>8. CASE ~Registry!MayMark(Session(c))
  <2>1. entry.state = "Draining" /\ entry' = entry
    BY Zenon, <1>3, <1>8 DEF Registry!MayMark, MarkDetached, MarkAttached, Registry!MarkDetached,
       Registry!MarkAttached, Registry!Mark
  <2>2. Steps(c, "drain")
    BY Zenon, <1>8, Fields DEF MarkDetached, MarkAttached
  <2>3. ChannelInOrder(c)'
    BY Zenon, <2>1, <2>2 DEF ChannelInOrder, Steps, Becomes, Attaching
  <2> QED
    BY Zenon, <1>2, <1>3, <1>4, <1>6, <2>3, ChannelOwner
<1> QED
  BY Zenon, <1>7, <1>8

\* Taking the head off the channel keeps the kinds and the place of a Resume.
LEMMA TailOf ==
  ASSUME NEW s \in Seq(Commands), s # <<>>
  PROVE  /\ Tail(s) \in Seq(Commands) /\ Len(Tail(s)) = Len(s) - 1 /\ 1 \in DOMAIN s /\ Head(s) = s[1]
         /\ \A i \in DOMAIN Tail(s) : i + 1 \in DOMAIN s /\ Tail(s)[i] = s[i + 1]
         /\ \A j \in DOMAIN s : j # 1 => \E i \in DOMAIN Tail(s) : i + 1 = j /\ Tail(s)[i] = s[j]
         /\ Len(s) = 1 => Tail(s) = <<>>
         /\ DOMAIN s = 1 .. Len(s) /\ Len(s) \in Nat
<1>1. /\ Tail(s) \in Seq(Commands) /\ Len(Tail(s)) = Len(s) - 1 /\ 1 \in DOMAIN s /\ Head(s) = s[1]
      /\ \A i \in DOMAIN Tail(s) : i + 1 \in DOMAIN s /\ Tail(s)[i] = s[i + 1]
      /\ DOMAIN s = 1 .. Len(s) /\ Len(s) \in Nat /\ DOMAIN Tail(s) = 1 .. Len(s) - 1
  BY SMTT(60)
<1>2. ASSUME NEW j \in DOMAIN s, j # 1 PROVE \E i \in DOMAIN Tail(s) : i + 1 = j /\ Tail(s)[i] = s[j]
  <2>1. j - 1 \in DOMAIN Tail(s) /\ (j - 1) + 1 = j
    BY SMTT(60), <1>1, <1>2
  <2> QED
    BY Zenon, <1>1, <2>1
<1>3. Len(s) = 1 => Tail(s) = <<>>
  BY SMTT(60), <1>1
<1> QED
  BY Zenon, <1>1, <1>2, <1>3

\* Receiving a take-over keeps the resume behind it last; receiving the resume empties the
\* channel.
LEMMA ChannelReceives ==
  ASSUME TypeOK, TypeOK', Placed, EntryOwned, EntryOwned', ChannelsInOrder, NEW c \in Conns, ReceiveTakeOver(c) \/ ReceiveResume(c)
  PROVE  ChannelsInOrder'
<1>1. \/ ReceiveTakeOver(c) /\ Others(c) /\ task'[c].pc \in {"waiting", "retire"} /\ Head(inbox[c]).kind = "TakeOver"
      \/ ReceiveResume(c) /\ Others(c) /\ task'[c].pc \in {"validate", "drain"} /\ Head(inbox[c]).kind = "Resume"
  <2>1. CASE ReceiveTakeOver(c)
    <3>1. \/ UNCHANGED task
          \/ \E f : StepsWith(c, "retire", f)
      BY Zenon, <2>1, Fields DEF ReceiveTakeOver
    <3> QED
      BY Zenon, <2>1, <3>1 DEF ReceiveTakeOver, Received, Is, StepsWith, Becomes, Others
  <2>2. CASE ReceiveResume(c)
    <3>1. Steps(c, "drain") \/ \E f : StepsWith(c, "validate", f)
      BY Zenon, <2>2, StepFields
    <3> QED
      BY Zenon, <2>2, <3>1 DEF ReceiveResume, Received, Steps, StepsWith, Becomes, Others
  <2> QED
    BY Zenon, <2>1, <2>2
<1>2. task[c].pc = "waiting" /\ UNCHANGED <<entry, stop>> /\ inbox[c] # <<>> /\ inbox'[c] = Tail(inbox[c])
  BY Zenon DEF ReceiveTakeOver, ReceiveResume, Received, Consume, Is, registryVars, globalVars, TypeOK
<1>3. ChannelInOrder(c) /\ Owns(c) /\ entry.state \in Registry!EntryStates /\ inbox[c] \in Seq(Commands)
  BY Zenon, <1>2, OwnerKeeps DEF OwnerPcs
<1>4. Moves(c)
  BY Zenon, <1>1, <1>2 DEF Moves, Early
<1>5. \A d \in Conns, k \in Conns : /\ Asks(d, "handoff", k)' <=> Asks(d, "handoff", k)
                                    /\ Asks(d, "notify", k)' <=> Asks(d, "notify", k)
  BY Zenon, <1>2, <1>4, AsksKept DEF Moves
<1>6. /\ Unasked(c)' <=> Unasked(c)
      /\ Only(c, {"TakeOver"}) => Only(c, {"TakeOver"})'
      /\ Only(c, {"TakeOver", "Resume"}) => Only(c, {"TakeOver", "Resume"})'
  <2> HIDE DEF Asks
  <2>1. Unasked(c)' <=> Unasked(c)
    BY Zenon, <1>5 DEF Unasked
  <2>2. \A i \in DOMAIN inbox'[c] : i + 1 \in DOMAIN inbox[c] /\ inbox'[c][i] = inbox[c][i + 1]
    BY ZenonT(60), <1>2, <1>3, TailOf
  <2> QED
    BY Zenon, <2>1, <2>2 DEF Only
<1>7. CASE Head(inbox[c]).kind = "TakeOver"
  <2>1. OneResume(c) => OneResume(c)'
    <3> HIDE DEF Asks
    <3>1. /\ \A i \in DOMAIN inbox'[c] : i + 1 \in DOMAIN inbox[c] /\ inbox'[c][i] = inbox[c][i + 1]
          /\ \A j \in DOMAIN inbox[c] : inbox[c][j].kind = "Resume" => \E i \in DOMAIN inbox'[c] : inbox'[c][i] = inbox[c][j]
          /\ Len(inbox'[c]) = Len(inbox[c]) - 1
      BY SMTT(60), SMTT(90), <1>2, <1>3, <1>7, TailOf
    <3>2. \A i \in DOMAIN inbox'[c] : i + 1 = Len(inbox[c]) => i = Len(inbox'[c])
      BY SMTT(60), <1>2, <1>3, <3>1, TailOf
    <3> QED
      BY ZenonT(60), <1>2, <1>5, <3>1, <3>2 DEF OneResume, Unaborted
  <2>2. task'[c].pc \in {"waiting", "retire"}
    BY Zenon, <1>1, <1>7
  <2>3. ChannelInOrder(c)'
    <3> HIDE DEF Asks, Unasked, Only, OneResume, Silent
    <3> QED
      BY Zenon, <1>2, <1>3, <1>5, <1>6, <2>1, <2>2 DEF ChannelInOrder, Attaching, Parked, Resumes
  <2> QED
    BY Zenon, <1>2, <1>3, <1>4, <2>3, ChannelOwner, Lives
<1>8. CASE Head(inbox[c]).kind = "Resume"
  <2>1. 1 \in DOMAIN inbox[c] /\ inbox[c][1].kind = "Resume"
    BY Zenon, <1>2, <1>3, <1>8, TailOf
  <2>2. ~Only(c, {"TakeOver"})
    BY Zenon, <2>1 DEF Only
  <2>3. entry.state \in {"Resuming", "Draining"}
    <3> HIDE DEF Only
    <3> QED
      BY Zenon, <1>2, <1>3, <2>2 DEF ChannelInOrder, Attaching, Registry!EntryStates
  <2>4. task'[c].pc \in {"validate", "drain"}
    BY ZenonT(60), <1>1, <1>8
  <2>5. CASE entry.state = "Draining"
    <3>1. ChannelInOrder(c)'
      BY ZenonT(60), <1>2, <2>4, <2>5 DEF ChannelInOrder, Attaching
    <3> QED
      BY Zenon, <1>2, <1>3, <1>4, <3>1, ChannelOwner, Lives
  <2>6. CASE entry.state = "Resuming"
    <3>1. OneResume(c) /\ Only(c, {"TakeOver", "Resume"}) /\ \A d \in Conns : ~Asks(d, "notify", c)
      BY Zenon, <1>2, <1>3, <2>6 DEF ChannelInOrder, Parked
    <3>2. Len(inbox[c]) = 1 /\ \A d \in Conns : ~Asks(d, "handoff", c)
      BY Zenon, <2>1, <3>1 DEF OneResume
    <3>3. inbox'[c] = <<>>
      BY Zenon, <1>2, <1>3, <3>2, TailOf
    <3>4. \A d \in Conns : ~Asks(d, "handoff", c)' /\ ~Asks(d, "notify", c)'
      BY Zenon, <1>5, <3>1, <3>2
    <3>5. Silent(c)'
      <4> HIDE DEF Asks
      <4> QED
        BY Zenon, <3>3, <3>4 DEF Silent, Unasked
    <3>6. ChannelInOrder(c)'
      <4> HIDE DEF Asks, Silent, Only
      <4> QED
        BY ZenonT(60), <1>2, <1>6, <2>4, <2>6, <3>1, <3>4, <3>5 DEF ChannelInOrder, Attaching, Parked, Resumes
    <3> QED
      BY Zenon, <1>2, <1>3, <1>4, <3>6, ChannelOwner, Lives
  <2> QED
    BY Zenon, <2>3, <2>5, <2>6
<1> QED
  BY Zenon, <1>1, <1>7, <1>8

\* A step that touches neither tasks nor channels keeps them in order.
LEMMA ChannelsSame ==
  ASSUME ChannelsInOrder, UNCHANGED <<task, entry, stop, inbox>>
  PROVE  ChannelsInOrder'
<1>1. Addressed' /\ \A o \in Conns : Keeps(o)' => Keeps(o)
  BY Zenon DEF ChannelsInOrder, Addressed, Keeps, Owns, Is
<1>2. ASSUME NEW o \in Conns, ChannelInOrder(o) PROVE ChannelInOrder(o)'
  BY Zenon, <1>2, ChannelStays DEF Asks, Is
<1> QED
  BY Zenon, <1>1, <1>2 DEF ChannelsInOrder

\* Every step of a connection keeps the channels in order.
LEMMA ChannelTask ==
  ASSUME TypeOK, TypeOK', Placed, Placed', EntryOwned, EntryOwned', ChannelsInOrder, NEW c \in Conns,
         Connect(c) \/ TaskStep(c) \/ Served(c) \/ LinkLost(c)
  PROVE  ChannelsInOrder'
<1>1. CASE QuietMove(c)
  BY ZenonT(60), <1>1, ChannelQuiet
<1>2. CASE UNCHANGED <<task, entry, stop, inbox>>
  BY Zenon, <1>2, ChannelsSame
<1> USE DEF Is, registryVars, desktopVars, peerVars, channelVars, globalVars
<1>3. CASE \/ SignInFails(c) \/ TakeOverRefused(c) \/ SlotTimeout(c) \/ AdmitTimeout(c) \/ SetupFails(c)
           \/ PlainReturns(c) \/ OwnerPanics(c) \/ HandOver(c) \/ Abort(c)
           \/ Return(c) /\ (TrySlot(c) \/ IncumbentAlive(c) \/ AcquireDesktop(c))
  <2>1. PICK pc \in {"done", "panicked"} : LeaveAs(c, pc)
    BY Zenon, <1>3 DEF SignInFails, TakeOverRefused, SlotTimeout, AdmitTimeout, SetupFails, PlainReturns,
       OwnerPanics,
       HandOver, Abort, Return
  <2>2. UNCHANGED entry
    BY Zenon, <1>3 DEF SignInFails, TakeOverRefused, SlotTimeout, AdmitTimeout, SetupFails, PlainReturns,
       OwnerPanics,
       HandOver, Abort, TrySlot, TakeSlot, IncumbentAlive, AcquireDesktop
  <2>3. Is(c, "handoff") => ~Unaborted
    BY Zenon, <1>3 DEF SignInFails, TakeOverRefused, SlotTimeout, AdmitTimeout, SetupFails, PlainReturns,
       OwnerPanics,
       HandOver, Abort, TrySlot, IncumbentAlive, AcquireDesktop, Unaborted
  <2> QED
    BY ZenonT(60), <2>1, <2>2, <2>3, ChannelLeaves, Lives
<1>4. CASE Finish(c)
  <2>1. LeaveAs(c, "done") /\ Is(c, "finish") /\ (entry' = NoEntry \/ entry' = entry)
    BY Zenon, <1>4 DEF Finish, Return, Registry!CompleteDrain
  <2> QED
    BY Zenon, <2>1, ChannelLeaves, Lives
<1>5. CASE SendGrantFails(c) \/ RefreshFails(c) \/ DeliveryFails(c) \/ DrainForSuccessor(c) \/ DrainSlot(c)
  <2>1. PICK q \in {"undo", "ended", "drain", "restore", "keep"} : Steps(c, q) /\ (q = "ended" => task[c].pc = "attached")
    BY Zenon, <1>5, Fields DEF SendGrantFails, RefreshFails, DeliveryFails, DrainForSuccessor, DrainSlot
  <2>2. task[c].pc \in {"send", "attached", "deliver", "retired", "drain"} /\ UNCHANGED <<inbox, stop>>
        /\ Registry!BeginDrain(task[c].session)
    BY Zenon, <1>5 DEF SendGrantFails, RefreshFails, DeliveryFails, DrainForSuccessor, DrainSlot, Session
  <2>3. Keeps(c) /\ Registry!Owned(task[c].session)
    BY Zenon, <2>2, OwnerKeeps DEF OwnerPcs, Attaching, Resumes, HandingOver, Registry!Owned
  <2>4. EntryLives /\ Draining'
    BY Zenon, <2>2, <2>3, Lives
  <2>5. q \notin Early /\ (q \in Attaching => task[c].pc \in Attaching)
    BY Zenon, <2>1 DEF Early, Attaching
  <2> QED
    BY ZenonT(60), <2>1, <2>2, <2>3, <2>4, <2>5, ChannelDrains
<1>6. CASE RefreshGrant(c)
  <2>1. UNCHANGED <<task, inbox, stop>> /\ Is(c, "attached") /\ entry.state = "Attached" /\ entry # NoEntry
    BY ZenonT(60), <1>6 DEF RefreshGrant, Registry!MayRefresh, Registry!Owned
  <2>2. entry'.state = "Attached"
    <3>1. entry' = Registry!Rotated(entry, issued + 1, "Attached")
      BY Zenon, <1>6 DEF RefreshGrant, Registry!RefreshGrant, Registry!Sign
    <3> QED
      BY Zenon, <3>1 DEF Registry!Rotated
  <2>3. EntryLives
    BY Zenon, <1>6, Lives DEF RefreshGrant
  <2>4. ChannelInOrder(c)'
    <3>1. ChannelInOrder(c)
      BY Zenon, <2>1, OwnerKeeps DEF OwnerPcs, Attaching
    <3>2. \A d \in Conns : /\ Asks(d, "handoff", c)' <=> Asks(d, "handoff", c)
                           /\ Asks(d, "notify", c)' <=> Asks(d, "notify", c)
      BY Zenon, <2>1 DEF Asks
    <3> QED
      BY Zenon, <2>1, <2>2, <3>1, <3>2, ChannelStays
  <2>5. Moves(c) /\ Owns(c)
    BY Zenon, <2>1, OwnerKeeps DEF Moves, Others, OwnerPcs, Attaching, Early
  <2> QED
    BY ZenonT(60), <2>1, <2>3, <2>4, <2>5, ChannelOwner
<1>7. CASE ReleaseSlot(c)
  <2>1. Steps(c, "depart") /\ Is(c, "release")
    BY Zenon, <1>7, Fields DEF ReleaseSlot
  <2>2. Owns(c) /\ Registry!Owned(task[c].session)
    BY Zenon, <2>1, OwnerKeeps DEF OwnerPcs, HandingOver, Registry!Owned
  <2>3. entry' = NoEntry
    BY Zenon, <1>7, <2>2 DEF ReleaseSlot, Registry!CompleteDrain, Session
  <2>4. Addressed'
    <3>1. Moves(c)
      BY Zenon, <2>1 DEF Moves, Steps, Becomes, Others, Early
    <3> QED
      BY Zenon, <2>3, <3>1, AddressedKept DEF ChannelsInOrder
  <2>5. \A o \in Conns : ~Keeps(o)'
    BY Zenon, <2>3 DEF EntryOwned
  <2> QED
    BY Zenon, <2>4, <2>5 DEF ChannelsInOrder
<1>8. CASE \/ PrepareResume(c) \/ Handoff(c) \/ NotifyOwner(c) \/ RequestTakeOver(c) \/ IssueGrant(c)
           \/ AttachmentCommanded(c) \/ ReceiveTerminal(c) \/ MarkDetached(c) \/ MarkAttached(c)
           \/ ReceiveTakeOver(c) \/ ReceiveResume(c)
  BY ZenonT(60), <1>8, ChannelPrepares, ChannelHandoff, ChannelNotify, ChannelTakeOver, ChannelIssue,
     ChannelCommanded, ChannelMarks, ChannelReceives
<1> HIDE DEF Is, registryVars, desktopVars, peerVars, channelVars, globalVars
<1>12. CASE TrySlot(c) \/ IncumbentAlive(c) \/ SlotFreed(c)
  <2>1. CASE TakeSlot(c)
    BY Zenon, <1>1, <1>12, <2>1, QuietMovesAre DEF TrySlot, IncumbentAlive, SlotFreed, Is
  <2>2. CASE Return(c)
    BY Zenon, <1>3, <1>12, <2>1, <2>2 DEF SlotFreed
  <2>3. CASE TrySlot(c) /\ ~TakeSlot(c) /\ ~Return(c)
    BY Zenon, <1>1, <2>3, PlainMovesAre, QuietMovesAre
  <2> QED
    BY Zenon, <1>12, <2>1, <2>2, <2>3 DEF IncumbentAlive, SlotFreed
<1>13. CASE \/ Connect(c) \/ TakeOverGranted(c) \/ IncumbentSilent(c) \/ CloseSilent(c) \/ Register(c)
            \/ IssueFails(c) \/ SendGrant(c) \/ ServePlain(c) \/ EndDisplaced(c) \/ EndTerminal(c) \/ EndLost(c)
            \/ DeadlineReached(c) \/ MonitorFails(c) \/ DeliverSuccessor(c) \/ Rebind(c) \/ RecordSuperseded(c)
            \/ AttachmentLost(c) \/ SetupWriterEnds(c) \/ AttachmentCloses(c)
  BY Zenon, <1>1, <1>13, PlainMovesAre, QuietMovesAre
<1>14. CASE \/ SignIn(c) \/ Admit(c) \/ CreateDesktop(c) \/ UndoSetup(c) \/ PlainEnds(c) \/ RestoreForSuccessor(c)
            \/ HoldForResume(c) \/ WaitDisplaced(c) \/ ValidateResume(c) \/ KeepDisplay(c) \/ Terminate(c)
            \/ AcquireDesktop(c) /\ ~Return(c) /\ task' # task
  BY Zenon, <1>1, <1>14, QuietMovesAre
<1>15. CASE LinkLost(c)
  BY Zenon, <1>2, <1>15 DEF LinkLost, registryVars, channelVars, globalVars
<1>16. CASE AcquireDesktop(c)
  <2>1. UNCHANGED <<entry, stop, inbox>> \/ Return(c)
    BY Zenon, <1>16 DEF AcquireDesktop, registryVars, channelVars, globalVars
  <2>2. CASE task' = task /\ UNCHANGED <<entry, stop, inbox>>
    BY Zenon, <1>2, <2>2
  <2> QED
    BY Zenon, <1>3, <1>14, <1>16, <2>1, <2>2
<1> QED
  BY ZenonT(60), <1>3, <1>4, <1>5, <1>6, <1>7, <1>8, <1>12, <1>13, <1>14, <1>15, <1>16 DEF TaskStep, Served

\* Initially there is no owner.
LEMMA ChannelInit ==
  ASSUME Init
  PROVE  ChannelsInOrder
BY Zenon DEF Init, Registry!Init, ChannelsInOrder, Addressed, Keeps, Owns, Blank

\* Every step keeps the channels in order.
LEMMA ChannelStep ==
  ASSUME TypeOK, TypeOK', Placed, Placed', StopsInOrder, EntryOwned, EntryOwned', ChannelsInOrder, [Next]_vars
  PROVE  ChannelsInOrder'
<1>1. ASSUME NEW c \in Conns, Connect(c) \/ TaskStep(c) \/ Served(c) \/ LinkLost(c)
      PROVE  ChannelsInOrder'
  BY ZenonT(60), <1>1, ChannelTask
<1> USE DEF registryVars, desktopVars, peerVars, channelVars, globalVars
<1>2. CASE CleanupStep \/ Tick \/ NativeSessionEnds \/ UNCHANGED vars
  <2>1. UNCHANGED <<task, entry, stop, inbox>>
    BY Zenon, <1>2 DEF CleanupStep, CleanupRestoresDisplay, CleanupCompletes, Tick, NativeSessionEnds, vars
  <2> QED
    BY Zenon, <2>1, ChannelsSame
<1>3. CASE Stopping
  <2>1. UNCHANGED task
    BY Zenon, <1>3 DEF Stopping, StopEndpoint, StopTimeout, StopJoined, StopRequest, StopDesktop, StopComplete
  <2>2. entry' # NoEntry => entry # NoEntry /\ entry'.owner = entry.owner
    BY Zenon, <1>3, Lives DEF Stopping, StopEndpoint, StopTimeout, StopJoined, StopRequest, StopDesktop,
       StopComplete,
       EntryLives, Registry!CompleteShutdown
  <2>3. Addressed'
    BY Zenon, <2>1, <2>2 DEF ChannelsInOrder, Addressed
  <2>4. ASSUME NEW o \in Conns, Keeps(o)' PROVE ChannelInOrder(o)'
    <3>1. Keeps(o) /\ ChannelInOrder(o) /\ entry # NoEntry /\ ~Over(o)
      BY ZenonT(60), <2>1, <2>4 DEF Keeps, Owns, Is, EntryOwned, ChannelsInOrder, Over, Placed, TaskPlaced,
         OwnerPcs, TailPcs, Attaching, Resumes, HandingOver
    <3>2. CASE StopEndpoint \/ StopTimeout
      <4>1. UNCHANGED <<entry, inbox>> /\ (Unaborted' => Unaborted)
            /\ (stop' \in {"run", "closed"} => stop \in {"run", "closed"})
        BY Zenon, <3>2 DEF StopEndpoint, StopTimeout, StopTo, Unaborted
      <4> QED
        BY Zenon, <2>1, <3>1, <4>1 DEF ChannelInOrder, Silent, Unasked, Only, OneResume, Asks, Is
    <3>3. CASE StopRequest
      BY Zenon, <3>1, <3>3 DEF StopRequest, StopTo, Registry!Shutdown, Registry!Revoked, ChannelInOrder
    <3>4. ~StopJoined /\ ~StopDesktop /\ ~StopComplete
      BY Zenon, <3>1 DEF StopsInOrder, StopJoined, StopDesktop, StopComplete
    <3> QED
      BY ZenonT(60), <1>3, <3>2, <3>3, <3>4 DEF Stopping
  <2> QED
    BY Zenon, <2>3, <2>4 DEF ChannelsInOrder
<1> QED
  BY Zenon, <1>1, <1>2, <1>3 DEF Next

-----------------------------------------------------------------------------
(* MarksTrue: the incumbent record and the displacement marks. *)

Registered == {"admit"} \cup PastAdmit
Recalls == {"validate", "deliver", "rebind"}

\* A connection that was made.
Known(k) == k \in Conns /\ ~Is(k, "idle")

\* DisplacedIsGone, with what it rests on: the record names a registered task and a
\* connection that was made; nobody is marked before it registers; and every connection
\* remembered across an await was made.
MarksTrue ==
    /\ DisplacedIsGone
    /\ incumbent # NoRecord =>
         incumbent.task \in Conns /\ Known(incumbent.conn) /\ task[incumbent.task].pc \in Registered
    /\ \A c \in Conns : task[c].pc \in PreRegister => ~displaced[c]
    /\ \A c \in Conns : task[c].pc \in Recalls => Known(task[c].ref.conn)
    /\ \A c \in Conns : \A i \in DOMAIN inbox[c] : inbox[c][i].kind = "Resume" => Known(inbox[c][i].from)
    /\ \A c \in Conns : task[c].pc \in {"proof", "close"} => task[c].ref.task \in Conns /\ task[c].ref.conn \in Conns

\* No Resume enters a channel but from a connection that was made; none comes up.
ResumesKnown ==
    \A o \in Conns : \A i \in DOMAIN inbox'[o] : inbox'[o][i].kind = "Resume" =>
        Known(inbox'[o][i].from) \/ \E j \in DOMAIN inbox[o] : inbox[o][j] = inbox'[o][i]
OnlyDown == \A k \in Conns : link'[k] \in {link[k], "down"}

\* A step of c after which it remembers nothing it did not remember before.
Apart(c) ==
    /\ Others(c) /\ task'[c].pc # "idle"
    /\ task[c].pc \in Registered => task'[c].pc \in Registered \/ incumbent'.task # c
    /\ task'[c].pc \in PreRegister => task[c].pc \in PreRegister
    /\ task'[c].pc \in Recalls => Known(task'[c].ref.conn)
    /\ task'[c].pc \in {"proof", "close"} => task'[c].ref.task \in Conns /\ task'[c].ref.conn \in Conns

\* A connection that was made stays so.
LEMMA KnownStays ==
  ASSUME NEW c \in Conns, Others(c), task'[c].pc # "idle"
  PROVE  \A k : Known(k) => Known(k)'
BY Zenon DEF Known, Is, Others

\* A record that names a task is a record.
LEMMA RecordIs ==
  ASSUME TypeOK, NEW c \in Conns, incumbent.task = c
  PROVE  incumbent # NoRecord
BY SMTT(60), ConnsAssumption DEF NoRecord

\* A step that keeps DisplacedIsGone keeps the rest, when c remembers only connections
\* that were made and the record names a registered task.
LEMMA MarksRest ==
  ASSUME TypeOK, TypeOK', MarksTrue, NEW c \in Conns, Apart(c), ResumesKnown,
         DisplacedIsGone',
         \/ incumbent' = incumbent
         \/ incumbent' # NoRecord => incumbent'.task \in Conns /\ Known(incumbent'.conn)
                                     /\ task'[incumbent'.task].pc \in Registered,
         \A d \in Conns : displaced'[d] => displaced[d] \/ task[d].pc \in Registered
  PROVE  MarksTrue'
<1>1. \A k : Known(k) => Known(k)'
  BY Zenon, KnownStays DEF Apart
<1>2. ASSUME incumbent' # NoRecord
      PROVE  (incumbent.task \in Conns /\ Known(incumbent.conn) /\ task[incumbent.task].pc \in Registered)'
  <2>1. CASE incumbent' = incumbent
    <3>1. incumbent.task \in Conns /\ Known(incumbent.conn) /\ task[incumbent.task].pc \in Registered
      BY Zenon, <1>2, <2>1 DEF MarksTrue
    <3>2. task'[incumbent.task].pc \in Registered
      BY Zenon, <2>1, <3>1 DEF Apart, Others
    <3>3. Known(incumbent.conn)'
      <4>1. PICK k : k = incumbent.conn
        BY Zenon
      <4>2. Known(k)'
        BY Zenon, <1>1, <3>1, <4>1
      <4> QED
        BY Zenon, <2>1, <4>1, <4>2
    <3> QED
      BY Zenon, <2>1, <3>1, <3>2, <3>3
  <2>2. CASE /\ incumbent'.task \in Conns /\ Known(incumbent'.conn)
             /\ task'[incumbent'.task].pc \in Registered
    <3>1. PICK k : k = incumbent'.conn
      BY Zenon
    <3>2. Known(k)'
      BY Zenon, <1>1, <2>2, <3>1
    <3> QED
      BY Zenon, <2>2, <3>1, <3>2
  <2> QED
    BY Zenon, <1>2, <2>1, <2>2
<1>3. \A d \in Conns : task'[d].pc \in PreRegister => ~displaced'[d]
  <2>1. \A d \in Conns : task'[d].pc \in PreRegister => task[d].pc \in PreRegister
    BY Zenon DEF Apart, Others
  <2>2. PreRegister \cap Registered = {}
    BY ZenonT(60) DEF PreRegister, Registered, Early, PastAdmit, OwnerPcs, TailPcs, Attaching, Resumes, HandingOver
  <2> QED
    BY Zenon, <2>1, <2>2 DEF MarksTrue
<1>4. \A d \in Conns : task'[d].pc \in Recalls => Known(task'[d].ref.conn)
  BY Zenon DEF MarksTrue, Apart, Others
<1>5. \A d \in Conns : \A i \in DOMAIN inbox'[d] : inbox'[d][i].kind = "Resume" => Known(inbox'[d][i].from)
  BY SMTT(60) DEF MarksTrue, ResumesKnown
<1>6. \A d \in Conns : task'[d].pc \in {"proof", "close"} => task'[d].ref.task \in Conns /\ task'[d].ref.conn \in Conns
  BY Zenon DEF MarksTrue, Apart, Others
<1>7. \A d \in Conns : task'[d].pc # "idle" \/ task[d].pc = "idle"
  BY Zenon DEF Apart, Others
<1> QED
  BY ZenonT(60), <1>2, <1>3, <1>4, <1>5, <1>6, <1>7 DEF MarksTrue, Known, Is

\* A step that leaves the record and the marks alone, and closes at most links.
LEMMA MarksKept ==
  ASSUME TypeOK, TypeOK', MarksTrue, NEW c \in Conns, Apart(c), ResumesKnown, OnlyDown, UNCHANGED <<incumbent, displaced>>,
         Is(c, "close") => link'[task[c].ref.conn] = "down"
  PROVE  MarksTrue'
<1>1. DisplacedIsGone'
  <2> SUFFICES ASSUME NEW d \in Conns, displaced'[d] /\ incumbent'.task = d
               PROVE  \/ link'[incumbent'.conn] = "down"
                      \/ \E e \in Conns : task'[e].pc = "close" /\ task'[e].ref = incumbent'
    BY Zenon DEF DisplacedIsGone, Is
  <2>1. displaced[d] /\ incumbent.task = d /\ incumbent # NoRecord /\ incumbent.conn \in Conns
    BY Zenon, RecordIs DEF MarksTrue, Known
  <2>2. CASE link[incumbent.conn] = "down"
    BY Zenon, <2>1, <2>2 DEF OnlyDown
  <2>3. ASSUME NEW e \in Conns, Is(e, "close") /\ task[e].ref = incumbent
        PROVE  \/ link'[incumbent'.conn] = "down"
               \/ \E f \in Conns : task'[f].pc = "close" /\ task'[f].ref = incumbent'
    BY Zenon, <2>3 DEF Apart, Others, Is
  <2> QED
    BY Zenon, <2>1, <2>2, <2>3 DEF MarksTrue, DisplacedIsGone
<1> QED
  BY Zenon, <1>1, MarksRest

\* Consuming, dropping and sending anything but a Resume brings no Resume.
LEMMA SameInbox ==
  ASSUME TypeOK, NEW c \in Conns
  PROVE  /\ UNCHANGED inbox => ResumesKnown
         /\ inbox' = [inbox EXCEPT ![c] = <<>>] => ResumesKnown
         /\ Consume(c) /\ inbox[c] # <<>> => ResumesKnown
         /\ \A o, m : SendTo(o, m) /\ m.kind # "Resume" => ResumesKnown
<1>1. UNCHANGED inbox => ResumesKnown
  BY Zenon DEF ResumesKnown
<1>2. inbox' = [inbox EXCEPT ![c] = <<>>] => ResumesKnown
  BY SMTT(60) DEF ResumesKnown, TypeOK
<1>3. ASSUME Consume(c), inbox[c] # <<>> PROVE ResumesKnown
  <2>1. inbox'[c] = Tail(inbox[c]) /\ inbox[c] \in Seq(Commands) /\ \A o \in Conns \ {c} : inbox'[o] = inbox[o]
    BY ZenonT(60), <1>3 DEF Consume, TypeOK
  <2>2. \A i \in DOMAIN inbox'[c] : i + 1 \in DOMAIN inbox[c] /\ inbox'[c][i] = inbox[c][i + 1]
    BY SMTT(60), <1>3, <2>1, TailOf
  <2> QED
    BY Zenon, <2>1, <2>2 DEF ResumesKnown
<1>4. ASSUME NEW o, NEW m, SendTo(o, m), m.kind # "Resume" PROVE ResumesKnown
  <2>1. CASE Listening(o)
    <3>1. o \in Conns /\ inbox[o] \in Seq(Commands) /\ inbox'[o] = Append(inbox[o], m)
          /\ \A k \in Conns \ {o} : inbox'[k] = inbox[k]
      BY ZenonT(60), <1>4, <2>1 DEF SendTo, Listening, TypeOK
    <3>2. \A i \in DOMAIN inbox'[o] : inbox'[o][i] = m \/ (i \in DOMAIN inbox[o] /\ inbox'[o][i] = inbox[o][i])
      BY SMTT(60), <3>1
    <3> QED
      BY Zenon, <1>4, <3>1, <3>2 DEF ResumesKnown
  <2>2. CASE ~Listening(o)
    BY Zenon, <1>1, <1>4, <2>2 DEF SendTo
  <2> QED
    BY Zenon, <2>1, <2>2
<1> QED
  BY ZenonT(60), <1>1, <1>2, <1>3, <1>4

\* A task that leaves takes its record with it; a prover is only aborted when every
\* connection is down.
LEMMA MarksLeaves ==
  ASSUME TypeOK, TypeOK', MarksTrue, NEW c \in Conns, NEW pc \in {"done", "panicked"}, LeaveAs(c, pc),
         Is(c, "close") => \A k \in Conns : link[k] = "down"
  PROVE  MarksTrue'
<1>1. Becomes(c, pc, Nobody, 0, "none", "none", NoRecord)
  BY Zenon, Fields
<1>2. /\ incumbent' = IF incumbent.task = c THEN NoRecord ELSE incumbent
      /\ displaced' = displaced /\ OnlyDown /\ ResumesKnown
  BY Zenon, SameInbox DEF LeaveAs, OnlyDown
<1>3. incumbent'.task # c
  BY Zenon, <1>2, ConnsAssumption DEF NoRecord
<1>4. Apart(c)
  BY Zenon, <1>1, <1>3 DEF Apart, Becomes, Others, PreRegister, Early, Recalls
<1>5. CASE incumbent.task # c
  <2>1. Is(c, "close") => link'[task[c].ref.conn] = "down"
    BY Zenon, <1>2 DEF OnlyDown, MarksTrue, Is
  <2> QED
    BY ZenonT(60), <1>2, <1>4, <1>5, <2>1, MarksKept
<1>6. CASE incumbent.task = c
  <2>1. incumbent' = NoRecord
    BY Zenon, <1>2, <1>6
  <2>2. DisplacedIsGone'
    BY Zenon, <2>1, ConnsAssumption DEF DisplacedIsGone, NoRecord
  <2> QED
    BY ZenonT(60), <1>2, <1>4, <2>1, <2>2, MarksRest
<1> QED
  BY Zenon, <1>5, <1>6

\* A quiet move that leaves the record alone keeps the marks.
LEMMA MarksQuiet ==
  ASSUME TypeOK, TypeOK', MarksTrue, NEW c \in Conns, QuietMove(c), UNCHANGED <<incumbent, displaced>>, OnlyDown,
         task'[c].pc \notin {"proof", "close", "deliver", "rebind"}, task[c].pc # "close"
  PROVE  MarksTrue'
<1>1. PICK p, q : <<p, q>> \in QuietMoves /\ task[c].pc = p /\ task'[c].pc = q
  BY SMTT(60) DEF QuietMove, QuietMoves, PlainMoves
<1>2. q # "idle" /\ q \notin Recalls
  BY Zenon, <1>1 DEF QuietMoves, PlainMoves, Recalls
<1>3. p \in Registered => q \in Registered
  BY Zenon, <1>1 DEF QuietMoves, PlainMoves, Registered, PastAdmit, OwnerPcs, TailPcs, Attaching, Resumes,
     HandingOver
<1>4. q \in PreRegister => p \in PreRegister
  BY Zenon, <1>1 DEF QuietMoves, PlainMoves, PreRegister, Early
<1>5. Apart(c)
  BY Zenon, <1>1, <1>2, <1>3, <1>4 DEF Apart, QuietMove
<1> QED
  BY ZenonT(60), <1>5, SameInbox, MarksKept DEF QuietMove, Is

\* So does a step of an owner that leaves the record alone.
LEMMA MarksOwner ==
  ASSUME TypeOK, TypeOK', MarksTrue, NEW c \in Conns, NEW q, Others(c), task'[c].pc = q,
         \/ q \in Registered \ Recalls
         \/ q \in {"handoff", "notify", "done"} /\ task[c].pc \notin Registered,
         ResumesKnown, OnlyDown, UNCHANGED <<incumbent, displaced>>, task[c].pc # "close"
  PROVE  MarksTrue'
<1>1. q \notin PreRegister /\ q \notin Recalls /\ q \notin {"proof", "close", "idle"}
  BY Zenon DEF PreRegister, Registered, Early, PastAdmit, OwnerPcs, TailPcs, Attaching, Resumes, HandingOver,
     Recalls
<1>2. Apart(c)
  BY Zenon, <1>1 DEF Apart
<1> QED
  BY Zenon, <1>2, MarksKept DEF Is

\* Every step of a connection keeps the marks true.
LEMMA MarksTask ==
  ASSUME TypeOK, TypeOK', Placed, StopsInOrder, MarksTrue, NEW c \in Conns, Connect(c) \/ TaskStep(c) \/ Served(c) \/ LinkLost(c)
  PROVE  MarksTrue'
<1> USE DEF Is, registryVars, desktopVars, peerVars, channelVars, globalVars
<1>1. UNCHANGED link => OnlyDown
  BY Zenon DEF OnlyDown
<1>2. \A k : Hangup(k) => OnlyDown
  BY Zenon DEF Hangup, OnlyDown, TypeOK

\* Tasks that return.
<1>3. CASE \/ SignInFails(c) \/ TakeOverRefused(c) \/ SlotTimeout(c) \/ AdmitTimeout(c) \/ SetupFails(c)
           \/ PlainReturns(c) \/ OwnerPanics(c) \/ HandOver(c) \/ Abort(c) \/ Finish(c)
           \/ Return(c) /\ (PrepareResume(c) \/ Handoff(c) \/ TrySlot(c) \/ IncumbentAlive(c) \/ AcquireDesktop(c))
  <2>1. PICK pc \in {"done", "panicked"} : LeaveAs(c, pc)
    BY Zenon, <1>3 DEF SignInFails, TakeOverRefused, SlotTimeout, AdmitTimeout, SetupFails, PlainReturns,
       OwnerPanics,
       HandOver, Abort, Return, Finish
  <2>2. Is(c, "close") => stop # "run"
    BY Zenon, <1>3 DEF SignInFails, TakeOverRefused, SlotTimeout, AdmitTimeout, SetupFails, PlainReturns,
       OwnerPanics,
       HandOver, Abort, Finish, PrepareResume, Handoff, TrySlot, IncumbentAlive, AcquireDesktop
  <2> QED
    BY Zenon, <2>1, <2>2, MarksLeaves DEF StopsInOrder

\* Steps that leave the record, the marks and every connection alone.
<1>4. CASE \/ TakeOverGranted(c) \/ IssueFails(c) \/ SendGrant(c) \/ ServePlain(c) \/ EndDisplaced(c) \/ EndTerminal(c)
           \/ EndLost(c) \/ DeadlineReached(c) \/ MonitorFails(c) \/ RecordSuperseded(c)
           \/ AttachmentLost(c) \/ SetupWriterEnds(c) \/ AttachmentCloses(c)
           \/ SignIn(c) \/ Admit(c) \/ CreateDesktop(c) \/ UndoSetup(c) \/ PlainEnds(c) \/ RestoreForSuccessor(c)
           \/ HoldForResume(c) \/ WaitDisplaced(c) \/ KeepDisplay(c) \/ Terminate(c)
           \/ AcquireDesktop(c) /\ ~Return(c) /\ task' # task
           \/ TakeSlot(c) /\ (TrySlot(c) \/ IncumbentAlive(c) \/ SlotFreed(c))
  <2>1. QuietMove(c)
    <3> HIDE DEF Is, registryVars, desktopVars, peerVars, channelVars, globalVars
    <3>1. CASE \/ TakeOverGranted(c) \/ IssueFails(c) \/ SendGrant(c) \/ ServePlain(c) \/ EndDisplaced(c) \/ EndTerminal(c)
           \/ EndLost(c) \/ DeadlineReached(c) \/ MonitorFails(c) \/ RecordSuperseded(c)
           \/ AttachmentLost(c) \/ SetupWriterEnds(c) \/ AttachmentCloses(c)
      BY Zenon, <3>1, PlainMovesAre, QuietMovesAre
    <3>2. CASE TakeSlot(c) /\ (TrySlot(c) \/ IncumbentAlive(c) \/ SlotFreed(c))
      <4>1. task[c].pc \in {"slot", "proof", "slotwait"}
        BY Zenon, <3>2 DEF TrySlot, IncumbentAlive, SlotFreed, Is
      <4> QED
        BY Zenon, <3>2, <4>1, QuietMovesAre
    <3> QED
      BY Zenon, <1>4, <3>1, <3>2, QuietMovesAre
  <2>2. UNCHANGED <<incumbent, displaced, link>>
    BY Zenon, <1>4 DEF TakeOverGranted, IssueFails, SendGrant, ServePlain, EndDisplaced, EndTerminal,
       EndLost, DeadlineReached, MonitorFails, RecordSuperseded, AttachmentLost, SetupWriterEnds, AttachmentCloses,
       SignIn, Admit, CreateDesktop, UndoSetup, PlainEnds, RestoreForSuccessor, RestoreDisplay, HoldForResume,
       WaitDisplaced,
       KeepDisplay, Terminate, AcquireDesktop, TakeSlot
  <2>3. task[c].pc \notin {"close", "validate", "deliver"}
    BY Zenon, <1>4 DEF TakeOverGranted, IssueFails, SendGrant, ServePlain, EndDisplaced, EndTerminal,
       EndLost, DeadlineReached, MonitorFails, RecordSuperseded, AttachmentLost, SetupWriterEnds, AttachmentCloses,
       SignIn, Admit, CreateDesktop, UndoSetup, PlainEnds, RestoreForSuccessor, RestoreDisplay, HoldForResume,
       WaitDisplaced,
       KeepDisplay, Terminate, AcquireDesktop, TrySlot, IncumbentAlive, SlotFreed
  <2>4. task[c].pc \in {"slot", "proof"} => Steps(c, "register")
    BY ZenonT(60), <1>4, Fields DEF TakeOverGranted, IssueFails, SendGrant, ServePlain, EndDisplaced, EndTerminal,
       EndLost, DeadlineReached, MonitorFails, RecordSuperseded, AttachmentLost, SetupWriterEnds, AttachmentCloses,
       SignIn, Admit, CreateDesktop, UndoSetup, PlainEnds, RestoreForSuccessor, RestoreDisplay, HoldForResume,
       WaitDisplaced,
       KeepDisplay, Terminate, AcquireDesktop, TakeSlot
  <2>5. task'[c].pc \notin {"proof", "close", "deliver", "rebind"}
    BY SMTT(60), SMTT(90), <2>1, <2>3, <2>4 DEF QuietMove, QuietMoves, PlainMoves, Steps, Becomes
  <2> QED
    BY ZenonT(60), <1>1, <2>1, <2>2, <2>3, <2>5, MarksQuiet

\* The record under proof.
<1>5. CASE TrySlot(c) /\ ~TakeSlot(c) /\ ~Return(c)
  <2>1. PICK q \in {"slotwait", "proof"} : StepsWith(c, q, incumbent) /\ (q = "proof" => incumbent # NoRecord)
    BY Zenon, <1>5, Fields DEF TrySlot
  <2>2. UNCHANGED <<incumbent, displaced, link, inbox>> /\ Is(c, "slot")
    BY Zenon, <1>5 DEF TrySlot
  <2>3. Apart(c)
    BY Zenon, <2>1, <2>2 DEF Apart, StepsWith, Becomes, Others, MarksTrue, Known, Registered, PastAdmit,
       OwnerPcs, TailPcs, Attaching,
       Resumes, HandingOver, PreRegister, Early, Recalls
  <2> QED
    BY Zenon, <1>1, <2>2, <2>3, SameInbox, MarksKept
<1>6. CASE IncumbentSilent(c)
  <2>1. PICK q \in {"close", "slotwait"} : Steps(c, q)
    BY Zenon, <1>6, Fields DEF IncumbentSilent
  <2>2. UNCHANGED <<incumbent, link, inbox>> /\ Is(c, "proof")
    BY Zenon, <1>6 DEF IncumbentSilent
  <2>3. Apart(c)
    BY Zenon, <2>1, <2>2 DEF Apart, Steps, Becomes, Others, MarksTrue, Registered, PastAdmit, OwnerPcs,
       TailPcs, Attaching,
       Resumes, HandingOver, PreRegister, Early, Recalls
  <2>4. CASE incumbent = NoRecord
    <3>1. DisplacedIsGone'
      BY ZenonT(60), <2>2, <2>4, ConnsAssumption DEF DisplacedIsGone, NoRecord
    <3>2. \A d \in Conns : displaced'[d] => displaced[d] \/ task[d].pc \in Registered
      <4>1. task[c].ref.task \in Conns
        BY Zenon, <2>2 DEF MarksTrue
      <4> QED
        BY SMTT(60), SMTT(90), <1>6, <2>4, <4>1, ConnsAssumption DEF IncumbentSilent, StillIncumbent, NoRecord
    <3> QED
      BY ZenonT(60), <2>2, <2>3, <3>1, <3>2, SameInbox, MarksRest
  <2>5. CASE incumbent # NoRecord
    <3>1. /\ incumbent = task[c].ref
          /\ displaced' = [displaced EXCEPT ![incumbent.task] = TRUE]
          /\ \/ link[incumbent.conn] = "up" /\ Goto(c, "close")
             \/ link[incumbent.conn] # "up" /\ Goto(c, "slotwait")
      BY Zenon, <1>6, <2>5 DEF IncumbentSilent, StillIncumbent
    <3>2. incumbent.task \in Conns /\ incumbent.conn \in Conns /\ task[incumbent.task].pc \in Registered
      BY Zenon, <2>5 DEF MarksTrue, Known
    <3>3. \A d \in Conns : displaced'[d] => displaced[d] \/ task[d].pc \in Registered
      BY Zenon, <3>1, <3>2 DEF TypeOK
    <3>4. \/ link'[incumbent'.conn] = "down"
          \/ task'[c].pc = "close" /\ task'[c].ref = incumbent'
      <4>1. Goto(c, "close") => Steps(c, "close")
        BY Zenon, Fields
      <4>2. link[incumbent.conn] \in {"up", "down"}
        BY Zenon, <3>2 DEF TypeOK
      <4> QED
        BY Zenon, <2>2, <3>1, <4>1, <4>2 DEF Steps, Becomes
    <3>5. DisplacedIsGone'
      BY Zenon, <3>4 DEF DisplacedIsGone
    <3> QED
      BY ZenonT(60), <2>2, <2>3, <3>3, <3>5, SameInbox, MarksRest
  <2> QED
    BY Zenon, <2>4, <2>5
<1>7. CASE CloseSilent(c)
  <2>1. Steps(c, "slotwait")
    BY Zenon, <1>7, Fields DEF CloseSilent
  <2>2. UNCHANGED <<incumbent, displaced, inbox>> /\ Is(c, "close") /\ link' = [link EXCEPT ![task[c].ref.conn] = "down"]
    BY Zenon, <1>7 DEF CloseSilent
  <2>3. Apart(c)
    BY Zenon, <2>1, <2>2 DEF Apart, Steps, Becomes, Others, Registered, PastAdmit, OwnerPcs, TailPcs, Attaching,
       Resumes, HandingOver, PreRegister, Early, Recalls
  <2>4. OnlyDown /\ link'[task[c].ref.conn] = "down"
    BY Zenon, <2>2 DEF OnlyDown, TypeOK, MarksTrue
  <2> QED
    BY ZenonT(60), <2>2, <2>3, <2>4, SameInbox, MarksKept
<1>8. CASE Register(c)
  <2>1. Steps(c, "admit") /\ Is(c, "register") /\ UNCHANGED <<displaced, inbox>> /\ incumbent' = Record(c, c)
    BY Zenon, <1>8, Fields DEF Register
  <2>2. ~displaced[c] /\ Known(c)
    BY Zenon, <2>1 DEF MarksTrue, PreRegister, Early, Known
  <2>3. incumbent'.task = c /\ incumbent'.conn = c /\ task'[c].pc \in Registered
    BY Zenon, <2>1 DEF Record, Steps, Becomes, Registered
  <2>4. Apart(c)
    BY Zenon, <2>1 DEF Apart, Steps, Becomes, Others, Registered, PreRegister, Recalls
  <2>5. DisplacedIsGone'
    BY Zenon, <2>1, <2>2, <2>3 DEF DisplacedIsGone
  <2> QED
    BY ZenonT(60), <2>1, <2>2, <2>3, <2>4, <2>5, SameInbox, MarksRest
<1>9. CASE Rebind(c)
  <2>1. Steps(c, "remark") /\ Is(c, "rebind") /\ UNCHANGED <<link, inbox>> /\ ReplaceConnection(c, task[c].ref.conn)
    BY Zenon, <1>9, StepFields DEF Rebind
  <2>2. Known(task[c].ref.conn)
    BY Zenon, <2>1 DEF MarksTrue, Recalls
  <2>3. task'[c].pc \in Registered /\ "remark" \notin Recalls
    BY Zenon, <2>1 DEF Steps, Becomes, Registered, PastAdmit, OwnerPcs, Resumes, Recalls
  <2>4. Apart(c)
    BY Zenon, <2>1, <2>3 DEF Apart, Steps, Becomes, Others, PreRegister, Early
  <2>5. CASE incumbent.task = c
    <3>1. /\ incumbent'.task = c /\ incumbent'.conn = task[c].ref.conn
          /\ displaced' = [displaced EXCEPT ![c] = FALSE]
      BY SMTT(60), <2>1, <2>5 DEF ReplaceConnection, Record
    <3>2. DisplacedIsGone'
      BY Zenon, <3>1 DEF DisplacedIsGone, TypeOK
    <3>3. \A d \in Conns : displaced'[d] => displaced[d]
      BY Zenon, <3>1 DEF TypeOK
    <3> QED
      BY ZenonT(60), <2>1, <2>2, <2>3, <2>4, <3>1, <3>2, <3>3, SameInbox, MarksRest
  <2>6. CASE incumbent.task # c
    BY ZenonT(60), <1>1, <2>1, <2>4, <2>6, SameInbox, MarksKept DEF ReplaceConnection
  <2> QED
    BY Zenon, <2>5, <2>6
<1>10. CASE Connect(c)
  <2>1. Steps(c, "auth") /\ Is(c, "idle") /\ UNCHANGED <<incumbent, displaced, inbox>> /\ link' = [link EXCEPT ![c] = "up"]
    BY Zenon, <1>10, StepFields DEF Connect
  <2>2. Apart(c)
    BY Zenon, <2>1 DEF Apart, Steps, Becomes, Others, Registered, PastAdmit, OwnerPcs, TailPcs, Attaching,
       Resumes, HandingOver, PreRegister, Early, Recalls
  <2>3. DisplacedIsGone'
    <3>1. incumbent # NoRecord => incumbent.conn # c
      BY Zenon, <2>1 DEF MarksTrue, Known
    <3> SUFFICES ASSUME NEW d \in Conns, displaced'[d] /\ incumbent'.task = d
                 PROVE  \/ link'[incumbent'.conn] = "down"
                        \/ \E e \in Conns : task'[e].pc = "close" /\ task'[e].ref = incumbent'
      BY Zenon DEF DisplacedIsGone
    <3>2. displaced[d] /\ incumbent.task = d /\ incumbent # NoRecord
      BY ZenonT(60), <2>1, RecordIs
    <3>3. CASE link[incumbent.conn] = "down"
      BY SMTT(60), SMTT(90), <2>1, <3>1, <3>2, <3>3 DEF TypeOK
    <3>4. ASSUME NEW e \in Conns, Is(e, "close") /\ task[e].ref = incumbent
          PROVE  \E f \in Conns : task'[f].pc = "close" /\ task'[f].ref = incumbent'
      BY Zenon, <2>1, <3>4 DEF Steps, Becomes
    <3> QED
      BY Zenon, <3>2, <3>3, <3>4 DEF MarksTrue, DisplacedIsGone
  <2> QED
    BY ZenonT(60), <2>1, <2>2, <2>3, SameInbox, MarksRest

\* The connection a resume moves to, from the hand-off to the record.
<1>11. CASE Handoff(c) /\ ~Return(c)
  <2>1. /\ Is(c, "handoff") /\ task' = [task EXCEPT ![c] = Blank("done")] /\ UNCHANGED <<incumbent, displaced, link>>
        /\ SendTo(task[c].ref.task, Command("Resume", c))
    BY Zenon, <1>11 DEF Handoff
  <2>2. Others(c) /\ task'[c].pc = "done"
    BY Zenon, <2>1 DEF TypeOK, Others, Blank
  <2>3. Known(c)
    BY Zenon, <2>1 DEF Known
  <2>4. Command("Resume", c).kind = "Resume" /\ Command("Resume", c).from = c
    BY Zenon DEF Command
  <2>5. \A o \in Conns : \A i \in DOMAIN inbox'[o] :
          inbox'[o][i] = Command("Resume", c) \/ \E j \in DOMAIN inbox[o] : inbox[o][j] = inbox'[o][i]
    <3>1. PICK r : r = task[c].ref.task
      BY Zenon
    <3>2. CASE Listening(r)
      <4>1. r \in Conns /\ inbox[r] \in Seq(Commands) /\ inbox'[r] = Append(inbox[r], Command("Resume", c))
            /\ \A k \in Conns \ {r} : inbox'[k] = inbox[k]
        BY ZenonT(60), <2>1, <3>1, <3>2 DEF SendTo, Listening, TypeOK
      <4>2. \A i \in DOMAIN inbox'[r] :
              inbox'[r][i] = Command("Resume", c) \/ (i \in DOMAIN inbox[r] /\ inbox'[r][i] = inbox[r][i])
        BY SMTT(60), <4>1
      <4> QED
        BY Zenon, <4>1, <4>2
    <3>3. CASE ~Listening(r)
      BY ZenonT(60), <2>1, <3>1, <3>3 DEF SendTo
    <3> QED
      BY Zenon, <3>2, <3>3
  <2>6. ResumesKnown
    BY Zenon, <2>3, <2>4, <2>5 DEF ResumesKnown
  <2>7. Apart(c)
    BY Zenon, <2>1, <2>2 DEF Apart, Registered, PastAdmit, OwnerPcs, TailPcs, Attaching,
       Resumes, HandingOver, PreRegister, Early, Recalls
  <2> QED
    BY ZenonT(60), <1>1, <2>1, <2>6, <2>7, MarksKept
<1>12. CASE ReceiveResume(c)
  <2>1. Is(c, "waiting") /\ UNCHANGED <<incumbent, displaced>> /\ Consume(c) /\ inbox[c] # <<>> /\ Head(inbox[c]).kind = "Resume"
    BY Zenon, <1>12 DEF ReceiveResume, Received
  <2>2. OnlyDown
    BY Zenon, <1>1, <1>2, <1>12 DEF ReceiveResume
  <2>3. Known(Sender(c))
    <3>1. inbox[c] \in Seq(Commands)
      BY Zenon DEF TypeOK
    <3>2. 1 \in DOMAIN inbox[c] /\ Head(inbox[c]) = inbox[c][1]
      BY Zenon, <2>1, <3>1, TailOf
    <3> QED
      BY Zenon, <2>1, <3>2 DEF MarksTrue, Sender
  <2>4. StepsWith(c, "validate", Record(Nobody, Sender(c))) \/ Steps(c, "drain")
    BY Zenon, <1>12, StepFields
  <2>5. Record(Nobody, Sender(c)).conn = Sender(c)
    BY Zenon DEF Record
  <2>6. task'[c].pc \in {"validate", "drain"} /\ Others(c) /\ (task'[c].pc = "validate" => task'[c].ref.conn = Sender(c))
    BY Zenon, <2>4, <2>5 DEF StepsWith, Steps, Becomes, Others
  <2>7. Apart(c)
    BY Zenon, <2>1, <2>3, <2>6 DEF Apart, Registered, PastAdmit, OwnerPcs, TailPcs, Attaching,
       Resumes, HandingOver, PreRegister, Early, Recalls
  <2> QED
    BY Zenon, <2>1, <2>2, <2>7, SameInbox, MarksKept
<1>13. CASE ValidateResume(c) \/ DeliverSuccessor(c)
  <2>1. PICK q \in {"drain", "deliver", "rebind"} : Steps(c, q)
    BY Zenon, <1>13, Fields DEF ValidateResume, DeliverSuccessor
  <2>2. task[c].pc \in {"validate", "deliver"} /\ UNCHANGED <<incumbent, displaced, inbox>>
    BY Zenon, <1>13 DEF ValidateResume, DeliverSuccessor
  <2>3. OnlyDown
    BY Zenon, <1>1, <1>2, <1>13 DEF ValidateResume, DeliverSuccessor
  <2>4. Apart(c)
    BY Zenon, <2>1, <2>2 DEF Apart, Steps, Becomes, Others, MarksTrue, Registered, PastAdmit, OwnerPcs,
       TailPcs, Attaching,
       Resumes, HandingOver, PreRegister, Early, Recalls
  <2> QED
    BY ZenonT(60), <2>2, <2>3, <2>4, SameInbox, MarksKept

\* The rest of the owner's steps.
<1>14. CASE \/ SendGrantFails(c) \/ RefreshFails(c) \/ DeliveryFails(c) \/ DrainForSuccessor(c) \/ DrainSlot(c)
            \/ MarkDetached(c) \/ MarkAttached(c) \/ ReleaseSlot(c)
            \/ AttachmentCommanded(c) \/ ReceiveTerminal(c) \/ IssueGrant(c) \/ (ReceiveTakeOver(c) /\ ~UNCHANGED task)
  <2>1. PICK q \in {"undo", "ended", "drain", "restore", "keep", "waiting", "attached", "depart", "retire", "send"} :
          Others(c) /\ task'[c].pc = q
    <3>1. \E q \in {"undo", "ended", "drain", "restore", "keep", "waiting", "attached", "depart", "retire", "send"} :
            \/ Steps(c, q) \/ \E f : StepsWith(c, q, f)
            \/ Becomes(c, q, task[c].user, task[c].session, task[c].lease, "slot", task[c].ref)
      BY ZenonT(60), <1>14, Fields, StepFields DEF SendGrantFails, RefreshFails, DeliveryFails, DrainForSuccessor,
         DrainSlot,
         MarkDetached, MarkAttached, ReleaseSlot, AttachmentCommanded, ReceiveTerminal, ReceiveTakeOver
    <3> QED
      BY Zenon, <3>1 DEF Steps, StepsWith, Becomes, Others
  <2>2. q \in Registered \ Recalls
    BY Zenon DEF Registered, PastAdmit, OwnerPcs, TailPcs, Attaching, Resumes, HandingOver, Recalls
  <2>3. ~Is(c, "close") /\ UNCHANGED <<incumbent, displaced>>
    BY Zenon, <1>14 DEF SendGrantFails, RefreshFails, DeliveryFails, DrainForSuccessor, DrainSlot,
         MarkDetached, MarkAttached, ReleaseSlot, AttachmentCommanded, ReceiveTerminal, ReceiveTakeOver,
         Received, IssueGrant
  <2>4. OnlyDown
    BY ZenonT(60), <1>1, <1>2, <1>14 DEF SendGrantFails, RefreshFails, DeliveryFails, DrainForSuccessor, DrainSlot,
         MarkDetached, MarkAttached, ReleaseSlot, AttachmentCommanded, ReceiveTerminal, ReceiveTakeOver, IssueGrant
  <2>5. UNCHANGED inbox \/ (Consume(c) /\ inbox[c] # <<>>)
    BY Zenon, <1>14 DEF SendGrantFails, RefreshFails, DeliveryFails, DrainForSuccessor, DrainSlot,
         MarkDetached, MarkAttached, ReleaseSlot, AttachmentCommanded, ReceiveTerminal, ReceiveTakeOver,
         IssueGrant, Received, Consume
  <2> QED
    BY ZenonT(60), <2>1, <2>2, <2>3, <2>4, <2>5, SameInbox, MarksOwner
<1>15. CASE RequestTakeOver(c)
  <2>1. PICK q \in {"answer", "slot"} : Steps(c, q)
    BY Zenon, <1>15, Fields DEF RequestTakeOver
  <2>2. Is(c, "takeover") /\ UNCHANGED <<incumbent, displaced, link>>
    BY Zenon, <1>15 DEF RequestTakeOver
  <2>3. ResumesKnown
    <3>1. CASE MayTakeOver
      <4>1. SendTo(entry.owner, Command("TakeOver", c))
        BY Zenon, <1>15, <3>1 DEF RequestTakeOver, MayTakeOver, SendTo
      <4>2. Command("TakeOver", c).kind # "Resume"
        BY Zenon DEF Command
      <4> QED
        BY Zenon, <4>1, <4>2, SameInbox
    <3>2. CASE ~MayTakeOver
      BY ZenonT(60), <1>15, <3>2, SameInbox DEF RequestTakeOver
    <3> QED
      BY Zenon, <3>1, <3>2
  <2>4. Apart(c)
    BY Zenon, <2>1, <2>2 DEF Apart, Steps, Becomes, Others, Registered, PastAdmit, OwnerPcs, TailPcs, Attaching,
       Resumes, HandingOver, PreRegister, Early, Recalls
  <2> QED
    BY ZenonT(60), <1>1, <2>2, <2>3, <2>4, MarksKept
<1>16. CASE NotifyOwner(c)
  <2>1. Is(c, "notify") /\ task' = [task EXCEPT ![c] = Blank("done")] /\ UNCHANGED <<incumbent, displaced>> /\ Hangup(c)
        /\ SendTo(task[c].ref.task, Command("Terminal", c))
    BY Zenon, <1>16 DEF NotifyOwner, Hangup
  <2>2. Others(c) /\ task'[c].pc = "done"
    BY Zenon, <2>1 DEF TypeOK, Others, Blank
  <2>3. Command("Terminal", c).kind # "Resume"
    BY Zenon DEF Command
  <2>4. ResumesKnown
    BY Zenon, <2>1, <2>3, SameInbox
  <2>5. task[c].pc \notin Registered
    BY Zenon, <2>1 DEF Registered, PastAdmit, OwnerPcs, TailPcs, Attaching, Resumes, HandingOver
  <2> QED
    BY ZenonT(60), <1>2, <2>1, <2>2, <2>4, <2>5, MarksOwner
<1>17. CASE PrepareResume(c) /\ ~Return(c)
  <2>1. PICK g, v : Answered(c, g, v)
    BY Zenon, <1>17 DEF PrepareResume
  <2>2. PICK p \in {"handoff", "notify"} :
          Becomes(c, p, task[c].user, entry.session, task[c].lease, task[c].owns, Record(entry.owner, Nobody))
    BY ZenonT(60), <1>17, <2>1, StepFields
  <2>3. UNCHANGED <<incumbent, displaced, link, inbox>> /\ Is(c, "auth")
    BY Zenon, <1>17, <2>1 DEF Answered, PrepareResume
  <2>4. task[c].pc \notin Registered
    BY Zenon, <2>3 DEF Registered, PastAdmit, OwnerPcs, TailPcs, Attaching, Resumes, HandingOver
  <2> QED
    BY ZenonT(60), <1>1, <2>2, <2>3, <2>4, SameInbox, MarksOwner DEF Becomes, Others
<1>18. CASE UNCHANGED <<task, incumbent, displaced>> /\ ResumesKnown /\ OnlyDown
  <2>1. DisplacedIsGone'
    <3>1. \A d \in Conns : incumbent.task = d => incumbent.conn \in Conns
      BY ZenonT(60), RecordIs DEF MarksTrue, Known
    <3> QED
      BY Zenon, <1>18, <3>1 DEF MarksTrue, DisplacedIsGone, OnlyDown
  <2>2. \A o \in Conns : \A i \in DOMAIN inbox'[o] : inbox'[o][i].kind = "Resume" => Known(inbox'[o][i].from)
    BY SMTT(60), <1>18 DEF MarksTrue, ResumesKnown
  <2> QED
    BY Zenon, <1>18, <2>1, <2>2 DEF MarksTrue, Known
<1>19. CASE LinkLost(c) \/ RefreshGrant(c) \/ (ReceiveTakeOver(c) /\ UNCHANGED task)
            \/ (AcquireDesktop(c) /\ UNCHANGED task /\ ~Return(c))
  <2>1. UNCHANGED <<task, incumbent, displaced>> /\ (UNCHANGED link \/ Hangup(c))
    BY Zenon, <1>19 DEF LinkLost, RefreshGrant, ReceiveTakeOver, AcquireDesktop, Hangup
  <2>2. UNCHANGED inbox \/ (Consume(c) /\ inbox[c] # <<>>)
    BY Zenon, <1>19 DEF LinkLost, RefreshGrant, ReceiveTakeOver, AcquireDesktop, Received
  <2> QED
    BY ZenonT(60), <1>1, <1>2, <1>18, <2>1, <2>2, SameInbox
<1> HIDE DEF Is, registryVars, desktopVars, peerVars, channelVars, globalVars
<1>20. CASE TrySlot(c) \/ IncumbentAlive(c) \/ SlotFreed(c)
  BY ZenonT(60), <1>3, <1>4, <1>5, <1>20 DEF IncumbentAlive, SlotFreed
<1> QED
  BY ZenonT(60), <1>3, <1>4, <1>6, <1>7, <1>8, <1>9, <1>10, <1>11, <1>12, <1>13, <1>14, <1>15, <1>16, <1>17, <1>19,
     <1>20
     DEF TaskStep, Served

\* Initially nobody is marked.
LEMMA MarksInit ==
  ASSUME Init
  PROVE  MarksTrue
BY SMTT(60), ConnsAssumption DEF Init, MarksTrue, DisplacedIsGone, NoRecord, Blank, Is, Known, Recalls

\* Every step keeps the marks true.
LEMMA MarksStep ==
  ASSUME TypeOK, TypeOK', Placed, StopsInOrder, MarksTrue, [Next]_vars
  PROVE  MarksTrue'
<1>1. ASSUME NEW c \in Conns, Connect(c) \/ TaskStep(c) \/ Served(c) \/ LinkLost(c)
      PROVE  MarksTrue'
  BY Zenon, <1>1, MarksTask
<1> USE DEF registryVars, desktopVars, peerVars, channelVars, globalVars
<1>2. ASSUME UNCHANGED <<task, incumbent, displaced>>, OnlyDown,
             UNCHANGED inbox \/ \E o, m : SendTo(o, m) /\ m.kind # "Resume"
      PROVE  MarksTrue'
  <2>1. DisplacedIsGone'
    <3>1. \A d \in Conns : incumbent.task = d => incumbent.conn \in Conns
      BY ZenonT(60), RecordIs DEF MarksTrue, Known
    <3> QED
      BY Zenon, <1>2, <3>1 DEF MarksTrue, DisplacedIsGone, OnlyDown, Is
  <2>2. \A o \in Conns : \A i \in DOMAIN inbox'[o] : inbox'[o][i].kind = "Resume" => Known(inbox'[o][i].from)
    <3>1. ASSUME NEW c \in Conns PROVE ResumesKnown
      BY Zenon, <1>2, SameInbox
    <3> QED
      BY SMTT(60), <3>1 DEF MarksTrue, ResumesKnown
  <2> QED
    BY Zenon, <1>2, <2>1, <2>2 DEF MarksTrue, Known, Is
<1>3. CASE CleanupStep \/ Tick \/ NativeSessionEnds \/ UNCHANGED vars
  BY Zenon, <1>2, <1>3 DEF CleanupStep, CleanupRestoresDisplay, CleanupCompletes, Tick, NativeSessionEnds,
     vars, OnlyDown
<1>4. CASE StopEndpoint \/ StopTimeout \/ StopJoined \/ StopDesktop \/ StopComplete
  BY Zenon, <1>2, <1>4 DEF StopEndpoint, StopTimeout, StopJoined, StopDesktop, StopComplete, OnlyDown
<1>5. CASE StopRequest
  <2>1. UNCHANGED <<task, incumbent, displaced, link>>
    BY Zenon, <1>5 DEF StopRequest
  <2>2. Command("PierShutdown", Nobody).kind # "Resume"
    BY Zenon DEF Command
  <2> QED
    BY Zenon, <1>2, <1>5, <2>1, <2>2 DEF StopRequest, OnlyDown
<1> QED
  BY Zenon, <1>1, <1>3, <1>4, <1>5 DEF Next, Stopping

-----------------------------------------------------------------------------
(* The theorems. *)

\* The inductive invariant.
IInv == TypeOK /\ Placed /\ StopsInOrder /\ EntryOwned /\ ChannelsInOrder /\ MarksTrue

\* Every reachable state of the Linux Pier satisfies the invariant, whatever the number of
\* connections, users, desktops and grants.
THEOREM Inductive == Spec => []IInv
<1>1. Init => IInv
  BY ZenonT(60), TypeInit, PlaceInit, StopInit, EntryInit, ChannelInit, MarksInit DEF IInv
<1>2. IInv /\ [Next]_vars => IInv'
  <2> SUFFICES ASSUME IInv, [Next]_vars PROVE IInv'
    BY Zenon
  <2> USE DEF IInv
  <2>1. TypeOK'
    BY Zenon, TypeStep
  <2>2. Placed'
    BY Zenon, <2>1, PlaceStep
  <2>3. StopsInOrder'
    BY Zenon, <2>1, StopStep
  <2>4. EntryOwned'
    BY Zenon, <2>1, <2>2, EntryStep
  <2>5. ChannelsInOrder'
    BY Zenon, <2>1, <2>2, <2>4, ChannelStep
  <2>6. MarksTrue'
    BY Zenon, <2>1, MarksStep
  <2> QED
    BY ZenonT(60), <2>1, <2>2, <2>3, <2>4, <2>5, <2>6
<1> QED
  BY <1>1, <1>2, PTL DEF Spec

\* No hand-over, drain or failed setup of run_ws leaves a grant in the resume registry
\* that no task will honour.
THEOREM EntryAlwaysHasOwner == Spec => []EntryHasOwner
<1>1. IInv => EntryHasOwner
  BY Zenon DEF IInv, EntryOwned, Keeps, Owns, EntryHasOwner, TypeOK, Registry!Entries
<1> QED
  BY <1>1, Inductive, PTL

\* Leases compared by user name alone still name the one desktop: the lease of
\* SessionRegistry::acquire is exclusive and never stale.
THEOREM LeaseAlwaysNamesDesktop == Spec => []LeaseNamesDesktop
<1>1. IInv => LeaseNamesDesktop
  BY Zenon DEF IInv, Placed, TaskPlaced, LeaseNamesDesktop, Leased
<1> QED
  BY <1>1, Inductive, PTL

\* The permit of the session slot is never stranded with a task, a desktop or a cleanup
\* that is gone.
THEOREM SlotAlwaysHasHolder == Spec => []SlotHasHolder
<1>1. IInv => SlotHasHolder
  <2> SUFFICES ASSUME IInv PROVE SlotHasHolder
    BY Zenon
  <2>1. slot \in Conns => ~Over(slot)
    BY Zenon DEF IInv, Placed, TaskPlaced, Over, MayHaveSlot, HasSlot
  <2>2. slot = "held" /\ Unaborted => \E c \in Conns : task[c].owns = "slot" /\ task[c].lease = "held"
    BY Zenon DEF IInv, Placed, DisplayPlaced, TaskPlaced, Owns, WithDesktop, Leased, PastAdmit, OwnerPcs,
       TailPcs, Attaching, Resumes
  <2> QED
    BY Zenon, <2>1, <2>2 DEF SlotHasHolder, IInv, Placed, DisplayPlaced
<1> QED
  BY <1>1, Inductive, PTL

\* The server's tail leaves nothing behind, also when tasks were aborted at any step.
THEOREM ShutdownAlwaysClean == Spec => []ShutdownIsClean
<1>1. IInv => ShutdownIsClean
  BY ZenonT(60) DEF IInv, TypeOK, Anyone, Placed, TaskPlaced, DisplayPlaced, StopsInOrder, Over,
     ShutdownIsClean, MayHaveSlot, HasSlot, PastAdmit, OwnerPcs, TailPcs,
     Attaching, Resumes, HandingOver
<1> QED
  BY <1>1, Inductive, PTL

\* Between prepare_resume and mark_attached a resume is always in somebody's hands.
THEOREM ResumingAlwaysDriven == Spec => []ResumingIsDriven
<1>1. ASSUME IInv, Orderly, Resuming
      PROVE  \/ \E c \in Conns : Is(c, "handoff") /\ task[c].ref.task = entry.owner
             \/ Queued(entry.owner, "Resume") # {}
             \/ task[entry.owner].pc \in {"validate", "deliver", "rebind", "remark", "drain"}
  <2>1. PICK o \in Conns : o = entry.owner /\ Keeps(o) /\ Unaborted
    BY Zenon, <1>1 DEF IInv, EntryOwned, Resuming, Orderly, TypeOK, Registry!Entries
  <2>2. /\ task[o].pc \in Parked \cup Resumes
        /\ task[o].pc \in Parked \ {"drain"} => OneResume(o)
    BY Zenon, <1>1, <2>1 DEF IInv, ChannelsInOrder, ChannelInOrder, Resuming
  <2>3. OneResume(o) => \/ \E c \in Conns : Is(c, "handoff") /\ task[c].ref.task = o
                        \/ \E i \in DOMAIN inbox[o] : inbox[o][i].kind = "Resume"
    BY Zenon, <2>1 DEF OneResume, Asks
  <2> QED
    BY Zenon, <2>1, <2>2, <2>3 DEF Queued, Resumes, Parked
<1>2. IInv => ResumingIsDriven
  BY ZenonT(60), <1>1 DEF ResumingIsDriven
<1> QED
  BY <1>2, Inductive, PTL

\* try_mark_displaced and replace_connection never leave a mark on a live connection.
THEOREM DisplacedAlwaysGone == Spec => []DisplacedIsGone
<1>1. IInv => DisplacedIsGone
  BY Zenon DEF IInv, MarksTrue
<1> QED
  BY <1>1, Inductive, PTL

\* A command never outlives the detachment it was sent for, so an attached owner is ended
\* by one only when the Pier stops.
THEOREM AttachedChannelAlwaysEmpty == Spec => []AttachedChannelEmpty
<1>1. IInv => AttachedChannelEmpty
  BY Zenon DEF IInv, Placed, TaskPlaced, ChannelsInOrder, Keeps, ChannelInOrder, Silent, Is,
     AttachedChannelEmpty, OwnerPcs, Attaching
<1> QED
  BY <1>1, Inductive, PTL
=============================================================================
