# Arcen: TLA+ specifications, model checks and proofs

Arcen is a remote desktop. A *Pier* (host: Linux, Windows or macOS) serves the
desktop of a signed-in user to a *Deck* (client: macOS) over QUIC. This directory
holds the specifications kept beside the code: TLA+ modules translated from the
Rust sources, TLC configurations that check them on small instances, and TLAPS
proofs for every value of the constants. `PROJECT.json` maps every definition to the
lines it models and lists runs, mutants, hazards, findings and theorems.

The project covers two things. The first is **what happens to a session when its
transport is lost**: the Pier keeps the desktop for a bounded window, the Deck comes
back with a one-time grant, and meanwhile other connections sign in, take over, time
out, or the Pier stops. The second is **what a served session runs on**: the QUIC
lanes and what they carry (pictures, input, a borrowed USB tablet), the capture
processes, the outputs of a Wayland desktop, and the host state that must survive a
crash (certificates, a redirected time zone). These are the parts of Arcen where
several actors meet, where a check and its use are separated by an await or a lock, or
where one step of several can fail.

## 1. Inventory

| Part | State | What makes it hard | What must hold | Module |
|---|---|---|---|---|
| Reconnect machine (`shared/session/direct_reconnect.rs`) | phase, deadline, timer generation | timers that are late, early or cancelled; counter saturation | drains once; deadline fixed by the loss; no drain by a foreign timer | `DirectReconnect` |
| Resume registry (`hosts/linux/session/resume.rs`) | one slot: session, holder, generation, nonce, state | rotation before delivery; faults in the middle of it | grants are one-time; a drain is final | `ResumeRegistry` |
| Linux Pier session (`net/server.rs`, `session/lifecycle.rs`, `quic/liveness.rs`) | session slot, admission, desktop, incumbent, channels, tasks | state read before an await and used after it | slot and entry never stranded; everything settles | `PierSession` |
| Deck reconnect (`clients/macos`: `reconnect.rs`, `ui/app.rs`, `transport/websocket.rs`) | controller, session task, shared media state | the frame sees results late and several at once | one deadline per detachment; newest grant; detachment ends | `DeckReconnect` |
| Lifecycle table (`shared/session/host_lifecycle.rs`) | at most 64 sessions and their phases | look-up, insertion and advance under three locks; eviction | a confirmed session is not evicted | `SessionLifecycles` |
| Restore leases (`restore_lease.rs`, Windows `recovery.rs`, `timezone.rs`) | journal, machine zone, processes | crash between any two durable steps; two watchdogs | a redirected zone can always be put back | `TimezoneRedirect` |
| Certificate lifecycle (`cert_transaction.rs`, the hosts' `host_cert.rs`, the Linux installer) | live files, backups, journal | crash or failure at any file operation, in recovery too | old set or new set, never a mixture | `HostCert` |
| Video queue (`video/frame_queue.rs`) | queue, generation, recovery | drops in a prediction chain; three tasks | no predicted picture without its reference; the stream recovers | `FrameQueue` |
| Capture hand-over (`capture_lease.rs`, `capture_admission.rs`) | mailbox, leases, damage | callback thread against worker; format changes | buffers go back; damage is not lost | `CaptureLease` |
| Capture processes (`server.rs`, `atomic_start.rs`, `capture_restart.rs`, `rate_control.rs`) | children, pipes, targets, budget | children that fail, hang and are replaced | all or none; no process left; restarts end | `CaptureChildren` |
| Session lanes (`shared/transport`) | lane slots, streams, recovery budgets | both ends fail, reopen and supersede at once | no step back; a role is not given up early | `SessionLanes` |
| Input outbox and lane (`lane_outbox.rs`, injector) | ordered queue, held keys | coalescing, a full or failing lane | edges neither lost nor overtaken | `InputLane` |
| Wayland input (`input/wayland.rs`, `session/wayland`) | planner mirror, connections, held input | connections break and supersede each other; the compositor fails calls | mirror agrees; nothing stays held | `WaylandInput` |
| Wayland outputs (`reconfigure.rs`, `remote.rs`, `agent.rs`) | live set, compositor, transaction, keeper | each compositor call may fail; undo may fail; keeper and recovery run beside it | restored means restored; outputs get placed | `OutputReconfigure` |
| USB bridge (`usb_bridge/mod.rs`, `usb-helper`) | URBs, handles, tombstones, workers | cancel races completion; handle reuse; lane reset | each URB is owed once and returns | `UsbBridge` |
| Admission gate and throttle, login-window hand-over, clipboard, microphone, multi-window sessions, Keel, observability, the Windows and macOS Piers | see `PROJECT.json` | | | none |
| Codecs, colour, launchers, user interface, packaging | | driver calls, I/O, formats | | none |

How the parts interact: a Deck's connection becomes a task of the Pier. The task signs
in or presents a grant to the **resume registry**. A sign-in takes the capacity-one
**session slot** (after a take-over of a detached session or the displacement of an
incumbent that is proven silent), is admitted, acquires the desktop, and becomes its
**owner**. Every attachment reports to the **lifecycle table**, opens its **lanes**,
starts its **capture processes**, and sends pictures from the **capture hand-over**
through the encoder and the **video queue** to the video lane; the Deck's **outbox**
sends input the other way, into an injector, which for a Wayland desktop is a
connection to the session's **input service**. The desktop's agent reconfigures its
**outputs** and recovers them when the compositor closes them. On a loss the owner runs
the **reconnect machine**: it leaves the display with the desktop and waits for a
command on its channel (resume, take-over, shutdown), for its deadline, or for its
monitor to find the desktop gone. The **Deck** detects the loss on its own, and retries
with the newest grant until its own deadline.

## 2. Modules

| Module | Models |
|---|---|
| `ReconnectMachine` | the pure machine: `Apply(machine, event, time)` gives the next machine and its directives |
| `DirectReconnect` | that machine with a host that performs the directives, and its timer callbacks |
| `ResumeAuthority` | abstract specification: at most one live grant; spent grants stay spent |
| `ResumeRegistry` | the Linux registry, one action per operation under its mutex; implements `ResumeAuthority` |
| `PierState`, `PierSignIn`, `PierOwner`, `PierSession` | the Linux Pier: shared objects (instantiating `ResumeRegistry` and `ReconnectMachine`), a connection's task up to its first grant, the owner from attachment to drain, and the whole with world and shutdown |
| `DeckReconnect` | the Deck: controller, user-interface frames, session task, arbitrary host |
| `SessionLifecycles` | the lifecycle table and the session tasks that report to it |
| `RestoreLease`, `TimezoneRedirect` | the lease of `restore_lease.rs`; the Windows broker, its watchdogs and the restore command |
| `CertStore`, `HostCert` | abstract specification: one value that is replaced as a whole; the journalled publication and recovery, file by file |
| `FrameQueue` | the bounded queue with pump, writer and session task |
| `CaptureLease` | buffers, mailbox and damage between the PipeWire loop and the import worker |
| `CaptureChildren` | the attachment's capture processes and the rate task's hand-over to them |
| `SessionLanes` | lane generations, admission, failure budgets and the lane workers of both ends |
| `InputLane` | outbox, lane and uinput injector |
| `WaylandInput` | injectors, delivery tasks, the agent's input service and the compositor's held keys |
| `OutputReconfigure` | the output transaction, placement keeper, recovery and Mutter |
| `UsbBridge` | one USB attachment from the Pier's kernel to the Deck's device workers |
| `MCPierSession`, `MCReconnect`, `MCMedia`, `MCInput`, `MCLanes`, `MCHost` | instances for TLC |
| `ReconnectProofs`, `ResumeRegistryProofs`, `PierSessionProofs`, `TableOutboxProofs`, `InputProofs`, `LaneProofs`, `MediaProofs`, `JournalProofs` | proofs |

**Runs that hold several components.** `MCReconnect`, `MCMedia`, `MCInput`, `MCLanes`
and `MCHost` put components beside each other that share no variable: a process or
machine boundary, an encoder or a whole program lies between them. Their variable `part`,
fixed at the start, picks one; the others stay in their initial states, so a run
explores the *sum* of the parts' state spaces and not their product. These modules
compose nothing and claim nothing about an interaction. The components that do interact
are composed inside their modules: the Pier with registry and machine, the Deck's
frames with its session task, both ends of a lane, both helpers of the USB bridge,
injector and input service, transaction with keeper, recovery and compositor.

Correspondence with the code:

* **Atomicity.** An action is what the code does between two awaits, under one lock, or
  in one file or compositor operation. Where a function takes a lock twice there are two
  actions: `retire_for_successor` is `RecordSuperseded` and `DrainForSuccessor`;
  `stream_started` is `LookUp`, `AddMissing` and `StartStream`. The owner's `select!` is
  biased, but its branches become ready between polls, so the model does not order them.
* **Registry.** `entry` is the `Option<RegistryEntry>` under the mutex. Grants are signed
  by the host, so a presented grant is one that was issued; claim encoding and HMAC are
  abstracted to that. A nonce is the serial number of its grant. `Verdict` keeps the
  order of the checks of `prepare_resume`. Clock, randomness and signing faults are inputs.
* **Pier.** `slot` says where the session permit is: free, with a task, held with the
  display by the desktop, or with a running cleanup. Dropping a Rust value (display
  guard, lease, admission, channel) when a task returns, panics or is aborted is
  `LeaveAs`. Leases compare user names only, because the generation they also compare is
  always 1 in the code. The media, input and audio work of an attachment is a single
  state that ends with a reason and, for a loss, a time.
* **Deck.** `turn` alternates the two halves of a frame, `sync_media_state` and
  `drive_reconnect`; the session task runs between them. `offer` is
  `pending_authentication`. Every failed controller operation leads to
  `return_to_credentials` or `disconnect`, so it is modelled as `NoController`.
* **Lifecycle table.** `table` is the vector with its order (`remove` on eviction,
  `swap_remove` at an end). `recorded` is what the reporting calls last confirmed to the
  session's task. `NetworkReady`, `Shutdown` and `FatalFailure` never go through the table.
* **Time zone.** `zone`, `journal` and `before` are durable; everything else dies with
  its process. Each read, write, removal and `tzutil` call of `begin_mapped`, `reconcile`
  and `restore_journal` is a step of its own, crashes fall between any two, and two
  watchdogs may restore at once. `Overlap = FALSE` states that a watchdog of a crashed
  broker is through its readiness check before the service is restarted (the restart
  delay of `hosts/windows/INSTALL.md:665`); section 6 says what happens without it. A
  foreign change between a process's look at the zone and its write can be lost, in the
  code as in the model.
* **Certificates.** A material is its serial number; `file[f]` and `backup[f]` say which
  serial a file belongs to. The publishers are the Linux installer and the macOS host,
  which differ in how they back up and roll back. One publisher runs at a time; a crash is
  the death of the process, not of the machine (no reordering of unsynced writes).
* **Video queue.** Pictures are keyframes, recovery points or predicted ones (`linked`
  when their reference is ahead of them or sent). The pump's `abort` lets its current
  synchronous step finish. The overflow branch that protects a pending recovery is not
  reachable on Linux and is not there.
* **Capture hand-over.** The screen is a function from blocks to versions; damage is a set
  of blocks or, for full and unknown damage, all of them. A frame that is unnamed or bad
  changes every block. PipeWire removes buffers only around a format change.
* **Capture processes.** A child is starting, running, exited or wedged; a wedged child
  swallows what is written to it. Frame-rate commands ride on bitrate commands. Time
  counts restarts only, in units of ten seconds. What `capenc` does with its standard
  input is external. The parent-death signal is not modelled.
* **Lanes.** A lane's preface, reset and stop are marks on its stream (`wire`); a reset and
  a stop are one mark, *torn*. The Linux worker handles `Opened` as release, then install,
  and a terminal event as release.
* **Input.** Records carry what coalescing looks at: class, position or delta, pen stroke.
  Relative edges carry no position. A failed lane is released before the next one is read.
* **Wayland input.** The injector's mirror, its queue and epoch, the delivery task and the
  agent's connection handling, for keys and modifiers. A request's deadline expires when its
  sender gives up; an old connection stays open until the reconnect succeeds or the task
  ends; attachment 2 connects only after attachment 1's injector was dropped. The compositor
  may fail any call, `MaxFaults` times, and fails every call during a reconfiguration
  (`Misses`). `inject` records a press before it calls `notify` and everything else after it
  succeeded; a failed call is answered with a refusal, which the delivery task only counts,
  and may fail after its effect. `release_held` forgets what it releases before the calls,
  and only logs those that fail. `astray` is a history variable of the model: no action
  reads it.
* **Outputs.** Compositor operations are sets of outcomes `[l, c, f, ok]`: live set,
  compositor, failures used, verdict. Mutter is external: it accepts positions that tile
  a strip, forgets the layout on every monitor change, closes only a live session, and
  signals `Closed` only to those subscribed.
* **USB.** The Deck's socket hops are merged with the lane's queues, and the session's end
  with the helper's shutdown. The device guard is its bounded table. The kernel is
  external. A submission lost in a lane reset leaves an interrupt URB unanswered until the
  kernel unlinks it; control requests time out.
* **Time** is elsewhere a tick counter; a tick stands for any number of milliseconds.

## 3. Runs

| Run | Checks | Bounds |
|---|---|---|
| `reconnect` | host machine: `DrainsOnce`, `ResumesBeforeDeadline`, `WaitingEnds`; Deck: `RetriesWithNewestGrant`, `DeadlineHolds`, `DetachmentEnds` | window 2, 3 timer generations (the counter saturates), 7 ticks; Deck: 2 connections, 4 grants, windows 0, 3, 5 (5 is above the Deck's limit 4), 10 ticks |
| `resume_registry` | one-time grants, only the two newest end a session, refinement of `ResumeAuthority`, arbitrary callers | 2 sessions, 2 holders, 3 generations (the counter ends), 4 grants |
| `pier_race` | `EntryHasOwner`, `ResumingIsDriven`, `DisplacedIsGone`, `AttachedChannelEmpty`, `LeaseNamesDesktop`: sign-ins, resumes, take-overs, silence proofs and losses in every order | 3 connections, 2 users, 2 desktops, 2 generations, 3 grants, 2 ticks |
| `pier_settles` | `SlotHasHolder`, `ShutdownIsClean`, and that every task settles, with a shutdown at any moment | 2 connections, 2 users, 1 desktop |
| `media` | queue: `Decodable`, `Recovers`; hand-over: `DamageNamesEveryChange`, `BuffersReturn`; processes: `EndedLeavesNone`, `CaptureResumesOrEnds` | queue of 3, 3 generations; 2 blocks, 3 frames, 2 buffers in a mailbox of 2, or in one of 1 with a renegotiated format; 1 output with a fault, a replacement and a target change, or 2 outputs with 2 attempts |
| `input` | outbox: `EdgesKept`, `EdgesLand`; Wayland: `MirrorAgrees`, `EndedHoldsNothing`, `Heals` | 4 records, outbox limit 1 or 2, lane of 1, one failure; a key and a modifier, queue of 2: 2 attachments with 3 events and 1 break; with 2 events, 1 break and 2 failures of the compositor; with 2 events, a reconfiguration and 1 failure; 1 attachment with 3 breaks and 2 attempts |
| `lanes` | `StopsOnlyWhenExhausted`, `FramesNeverGoBack`, `RoleRecovers`; USB: `OwedOnce`, `UrbsReturnUncut` | a two-way role with 3 generations and 2 faults, a one-way role with 4 faults (it is disabled); 2 URBs, 3 ids over a sound lane, 2 over one that is reset and stopped |
| `host` | `ConfirmedStaysTracked`; `PublishesAtomically`, `RecoveryNeverBlocked`; `RedirectIsJournalled`, `CrashIsRepaired`; `RestoredMeansRestored`, `EventuallyPlaced` | 3 sessions for 2 places; 2 publications with 2 crashes and 1 fault, or by the installer with 1 crash and 2 faults; 2 boots, 2 watchdogs, 2 redirections with 1 fault, or 1 with 2 faults and a command; 5 layouts of one or two outputs, 2 transactions, 2 faults, 1 monitor change, 1 closed session |
| `pier_loss_time`, `deck_deadline`, `usb_tombstones`, `capture_rate_lost` | one property each, violated: see section 6 | as small as the trace allows |

Why the bounds are enough to be interesting: three connections are an owner, a resumer
and a claimant at once, the most roles that meet on one session; two desktops let a
lease or a permit of an earlier one survive into a later one; generation bounds are below
the number of rotations or failures, so counters reach their end and budgets are spent;
windows fit under the clock, so every deadline can pass; a table or queue is one smaller
than what wants to be in it, in at least one part of its run (the mailbox of one frame
overflows after a picture was encoded, the mailbox of two folds what it superseded; both
bounds at once have too many states for liveness); two crashes let recovery itself be
interrupted; two faults let an undo fail as well as the step it undoes, or a press and
later its release; three breaks let a connection heal and break again, or fail while it is
reopened until `MaxAttempts` is spent and the loss is told (`unreachable`); two attachments
or generations let a late event of the first meet the second. `MaxConns` never stops an
attempt: a connection is an attachment's first or follows a break. `MaxEpochs` counts the
first format too, so 3 is one renegotiation. A loss is only modelled while its whole window
fits under `MaxTime` (`WindowFits` and the guards on the losses): otherwise a session
could wait at the end of modelled time. Symmetry is used only in `pier_race`, which
checks no liveness. `CHECK_DEADLOCK FALSE` appears where the system really may stop: all
connections over, an attachment ended, the bounds of a host's events spent.
`reconnect` and `resume_registry` check deadlock.

What the properties leave out, on purpose, because the code does not keep it (section
6): `StopsOnlyWhenExhausted` speaks of roles only their opener writes; `MirrorAgrees` and
`EndedHoldsNothing` exempt, key by key, what is `astray`: a key whose own last command the
compositor failed, or that a reconfiguration took since (every other key has to agree, and
a key agrees again with its next command);
`RestoredMeansRestored` of transactions that began from outputs in their recorded sizes;
`EventuallyPlaced` exempts outputs a failed restore left in a shape the compositor
refuses; `UrbsReturnUncut` is `UrbsReturn` over a lane that loses nothing; the Pier's
invariants that say `Orderly` exclude the panic of the first finding and aborted tasks;
`EndedLeavesNone` excludes a cancelled task.

**Fairness.** Weak fairness of tasks that a running Tokio runtime polls, of threads and
of processes, each for its own steps; every wait in them is bounded by a time-out, and
the time-out is one of those steps. In particular: `reconnect`, time passes, an armed
timer calls back, and the Deck's user-interface thread keeps drawing frames (it requests
a repaint as long as the controller is reconnecting or resuming, `ui/app.rs:4212-4226`).
`pier_settles`: tasks and the cleanup are scheduled, time passes. `media`: pump, writer,
PipeWire loop, worker and attachment task go on, the kernel ends a process that exits or
is killed; strong fairness once, for an encoder that is asked for a keyframe again and
again. `input`: delivery tasks, planners and the input service go on (where the outputs are
reconfigured nothing breaks, so `Heals` asks nothing).
`lanes`: QUIC delivers, workers and writers go on, helpers and dispatchers go on, a device
transfer ends or times out. `host`: a watchdog, the restore command, a started transaction,
the keeper and the recovery go on; the keeper's placing calls succeed within their five
seconds. Nothing is assumed of users, Decks, desktops, faults, crashes or restarts.

Every property of a passing run has a mutant in `PROJECT.json`: a plausible slip in one
mapped definition (defined before it, marked "Mutant") under which TLC finds the property
violated.

## 4. Proofs

The proof modules follow one pattern: an inductive invariant `IInv`, lemmas that list
what a step can do, one case per shape, and PTL. TLC also checked each
invariant's conjuncts on small instances (the Pier's on the constants of `PierRace.cfg`
and `PierSettles.cfg`).

* `ReconnectProofs`, the host's half. `IInv` is `TypeOK` with `MediaFollowsPhase`,
  `TimerFollowsPhase` and `DrainsOnce`: what the host has done is a function of the
  phase, which is what makes each conjunct inductive (a drain can only be counted once
  if the phase remembers it; the armed timer must be the one the next `Cancel` names).
  `ApplyOutcomes` lists the seven results of `apply` with their guards. From it:
  `TypeCorrect`, `DrainsOnceCorrect`, `TimerCorrect`, and the action properties
  `DeadlineCorrect`, `ResumeCorrect`, `CallbackCorrect`. Assumptions:
  `Window \in Nat`, `MaxGeneration \in Nat \ {0}`, `MaxTime \in Nat`.
* `ReconnectProofs`, the Deck's half. `DeckIInv` ties the controller to the session task
  and to the answer waiting to be read: a deadline exactly while detached; no task and no
  answer while waiting; a `Resume` task while resuming; the newest grant in the controller
  unless it is still in the answer. The last two are the strengthening: a frame reads the answer
  and the end of a session together, and only with them does the loss find the newest
  grant in the controller and no answer of another kind. `Answering`, `Scheduled` and
  `Returned` say what the frame's calls do to the controller, `SyncBinds` and
  `DriveBinds` treat the two halves of a frame. From it: `DeckDeadlineCorrect` (the action
  property `DeadlineHolds`) and `DeckGrantCorrect` (`RetriesWithNewestGrant`). Assumption,
  stated in the theorems: `HostWindows \subseteq Nat`.
* `ResumeRegistryProofs`. `IInv` adds `NoncesAreSerial` (no grant or use has a nonce
  above the serial number issued) to `TypeOK`, `DrainingIsRevoked`, `SlotHoldsNewest`
  and `GrantsAreOneTime`: without it a rotation could install a nonce that was used.
  `StepShapes` reduces every operation to seven shapes. From it: the invariants, the
  action property `DrainFinalCorrect`, `StaleGrantsHarmless` (only the two newest
  grants of a session can end it), and `Refinement`, that the registry implements
  `ResumeAuthority`. Assumptions: counters are naturals, `NoEntry` is no entry.
* `PierSessionProofs`. All seven safety invariants of the runs `pier_race` and
  `pier_settles`, for any set of connections and users and any number of desktops,
  generations, grants and ticks, shutdown included: `EntryAlwaysHasOwner`,
  `LeaseAlwaysNamesDesktop`, `SlotAlwaysHasHolder`, `ShutdownAlwaysClean`,
  `ResumingAlwaysDriven`, `DisplacedAlwaysGone`, `AttachedChannelAlwaysEmpty`. None is
  inductive alone, because each speaks of one object and the tasks change several in
  steps that are awaits apart. `IInv` has six parts. `TypeOK` and `Placed`: where a task
  stands decides what it holds (admission, lease, permit, desktop), so that a permit that
  is handed on has exactly one taker. `EntryOwned`: a task that owns a session, until it
  has released it for a successor, is the owner the registry's entry names, and past
  `begin_drain` the entry drains. `ChannelsInOrder`: by the entry's state, what the owner's
  channel and the tasks about to send to it may hold (nothing while attached, take-overs
  while detached, one resume while resuming). `MarksTrue`: the incumbent
  record names a registered task and a connection that was made, nobody is marked before
  it registers, and a connection remembered across an await was made. `StopsInOrder`: what each
  stage of the shutdown has already emptied. A step is first reduced to what it makes of
  its task's record (`Becomes`), and the many steps that only move a task on to tables of
  moves (`PlainMoves`, `QuietMoves`); each part then looks only at the steps that touch it.
  Assumptions: the bounds are naturals (`Window`, `MaxDesktops`, `MaxNonce`; at least 1
  for the generations), `MayStop` is a Boolean, and the markers for nobody, no entry and
  no desktop, and the places of the permit, are no connections, entries or desktops.
* `TableOutboxProofs`, the lifecycle table. `IInv` says that the table and what the sessions were told
  agree in both directions: every confirmed session has exactly one entry, in the state
  it was told, and every entry that is not a fresh `Authenticating` one belongs to a
  session that was told so; and that entries are only ever left in three of the six
  states, the others being passed through under the lock. The second direction and the
  three states are what make it inductive: eviction picks an entry by its state, and only
  with them does "not streaming, not recovering" imply "nobody was told". `Advances`,
  `Leaves`, `Joins` and `Evicts` say what the vector's four changes do to the agreement,
  for `remove` and `swap_remove` alike; `StepKeeps` has one case per kind of step. From
  it, for every set of sessions and every capacity: `ConfirmedIsTracked`,
  `LiveEntryIsConfirmed`, `Bounded`, `TypeCorrect`. Assumption: `MaxTracked \in Nat \ {0}`.
* `TableOutboxProofs`, the outbox. `EdgesKeptCorrect` and `EdgesLandCorrect`, for any
  kinds of record, lane capacity, backlog cap, largest delta and number of records and
  failures. `OutboxIInv` speaks of `Kept`, everything injected, in the lane and waiting, as
  one sequence: it is in the order the Deck numbered it, and its edges are those produced
  and not lost. That is enough for `EdgesKept`, because flushing moves a border inside
  `Kept` (`MovesBorder`) and coalescing appends one record and takes one that is no edge
  out (`DropAt`). `EdgesLand` needs `Followed`: while no lane failed, each record in `Kept`
  leads from what the Deck had after the record before it in `Kept` to what the Deck had
  after it (`Leads`), so that injecting the next one takes the host along the same path.
  What the Deck had after each record is the history variable `was`, which no action reads;
  it stands in for a fold over the log, which the prover cannot unfold. The step that could
  break `Leads` is coalescing, and the lemmas on `Merged`, `PushedOver` and `PushedFolding`
  show for each kind why the record that is taken out is not missed: a later position or a
  later pen sample overwrites it, a sum contains it. Assumption: `LaneCap \in Nat`.
* `LaneProofs`, the USB bridge. `IInv` is `OwedOnce` with one addition: every id in the
  map is below the next one, so a fetch never overwrites a handle. `Unfetched`, `Fetched`
  and `GivenBack` are the changes of the map and the kernel's queue; `StepOwes` has one
  case per action. From it: `OwedOnceCorrect`, for any number of URBs and limits,
  without assumptions.
* `LaneProofs`, the session lanes. `StopsCorrect` (`StopsOnlyWhenExhausted`) and
  `FramesCorrect` (the action property `FramesNeverGoBack`), for any roles, generations,
  frames and faults. `LaneIInv` has two halves per role, one for each. `OpenerKnows`: where
  the worker that opens a role only it writes stands decides what its registry slot says,
  and the one lane its writer may have cancelled without having reported it is the one it
  runs; so the report finds that lane live, and its verdict is "reopen", or the role is
  disabled, or the attachment ends. `ReadsNewest`: no lane that delivered a frame is newer
  than the one being read, that one than the one awaiting its owner, that one than the
  newest the registry admitted; and an end that has not been granted the attachment reads
  nothing, which is what the lanes the Deck holds before the grant rely on.
  `ReadsAsBefore` and `KnowsAsBefore` say when a step leaves a half alone, `RoleStep` that a
  worker's step does so for the other roles, `ReportStep` treats the four steps that report
  a failure, and the `...Wire` lemmas show that only `ReadFrame` delivers. Assumption:
  `MaxGen \in Nat`.
* `InputProofs`. `MirrorCorrect` and `EndedCorrect`, for any number of attachments, keys,
  events, attempts, broken connections, reconfigurations and failures of the compositor.
  `MirrorAgrees` speaks only of the attachment
  being served; what it was before, and what a superseded or broken one had under way,
  decides whether it comes out true. `IInv` therefore says of every attachment what its
  mirror will be when the planner next looks (`Mirrors`): with a delivering connection,
  what the lines on that connection, the queue and the rest of the plan make of the keys as
  the compositor would have them had it failed nothing (`Intended`: some set that differs
  from the compositor's only in keys astray); with none, the rest of the plan alone, because a break interrupts the queue and
  the epoch empties the mirror (`Queueing`). `Fresh` and `Carrying` say what is on a
  connection whose hello is not answered and on one that delivers, `Owns` that no task
  reads another's connection, `Backlogged` that the service meets connections in the order
  they were made, `Injecting` that what it injects is the head of the connection it serves,
  and `Known` that `held` covers the compositor's keys but for those astray, so that
  `release_held` leaves no others. `Intended` is needed because `MirrorAgrees` alone is not
  inductive: a key stops being astray when the compositor takes its next edge, and by then
  the mirror must be right about it, although nothing was said of it while it was astray.
  `Replay`, what a list of commands makes of a set of keys, is written as "the last touch
  is a press"; `ReplayAppend` and `ReplayConcat` show that it is `Applied` command by
  command. A step is reduced to what it makes of its task (`TaskKeeps`, `PlanKeeps`), of
  connections only their owner looks at (`Quiet`), or of the served one (`ServedOnly`).
  Assumption: the modifiers are a finite set of keys (the code's table).
* `MediaProofs`, queue. `AlwaysDecodable`, for every capacity: what `push`,
  `pin_generation_recovery`, the generation barrier and the writer do to the queue never
  leaves a predicted picture in line without its reference. `Decodable` speaks of the queue
  as it is; whether it stays true depends on what the encoder's next picture refers to.
  `IInv` therefore adds `Continues` (if the queue would take a predicted picture and the
  pump may be about to push one, its reference was queued), `QueueRules` (how the flags go
  together: a pinned picture is a recovery point in a paused queue, a required recovery
  means a broken chain), `InLine` (`Decodable` also behind a pinned picture, before the
  generation is activated), `PinHolds` (nothing goes in behind a pinned picture before the
  new pump has pinned its own) and `Stages` (where the session task is, against the
  barrier, the pump, and a pump aborted with a picture in hand).
  Assumptions: `Capacity \in Nat \ {0}` (the code asserts it,
  `frame_queue.rs:292`), `MaxTries \in Nat`, and `None` is no picture.
* `MediaProofs`, processes. `EndedCorrect`: for any number of outputs, attempts, faults,
  replacements and restarts, a capture task that ended without being cancelled has left no
  capture process running. Nothing in the state counts processes, so the invariant
  `CaptureIInv` says who holds each: `AllHeld`, that every running process is the one at
  hand (`cur`), a started one (`kids`) or one still to be stopped (`todo`); `HoldsWhere`,
  which of the three can be non-empty at each place of the task, so that the end is reached
  with all empty. Every step but a launch is first shown to start nothing (`StartsNone`). No assumption on the constants is needed.
* `JournalProofs`, certificates. `RecoveryAlwaysRuns`: for all three publishers (`new-host-cert`
  without a journal is the third, not part of the run), any number of publications,
  crashes and failed file operations, recovery never meets a file it requires and cannot
  find. Its invariant `RInv` says that a committed journal stands for
  a whole set and a prepared one for files that are each in place or saved (`Recoverable`),
  with what each program has established on its way (`Stages`). `AlwaysAtomic` is the
  refinement of `CertStore`: every step maps to a stutter, except a new request and the
  writing of the commit record, which replaces the whole value. The mapping is `Logical`,
  the set as recovery would leave it.
  Its invariant `PInv` adds what the backups are copies of (`Undoable`), how far a recovery
  or roll-back has come (`Undoing`), that a roll-back follows a failed operation
  (`Failures`), and that only a requested or a first certificate brings a new key
  (`Keyed`). The hypothesis `Journalled` is as weak as the code allows: the installer with
  any number of failures; the macOS host while at most one file operation fails, because
  its `roll_back` drops its errors together with the journal (section 6; with a second
  fault TLC finds the set torn). Assumptions: `MaxIssued \in Nat`, the marker of an absent
  file is no content and no journal, and the publishers are those of the model.
* `JournalProofs`, time zone. `RedirectCorrect`: for any number of zones, watchdogs,
  redirections, broker starts, failed calls, outside changes and restore commands, while
  the machine has a zone the program gave it, the journal names the zone to put back in a
  phase recovery acts on. The property speaks of the disk, but a process that read the
  journal earlier writes its own copy back, so the invariant `ZoneInv` says of every
  process in `reconcile` that the lease it holds restores the zone, or that the zone is
  no longer redirected once it is about to remove the journal (`Held`). `BrokerInv` says
  that the broker arms a lease only when nothing is redirected and that what it armed is
  on disk before it sets the zone; `OperatorInv` and `DogInv`, that the command and the
  watchdogs recover only while no broker does, and that at most one watchdog is starting.
  `ReconcileKeeps` treats a recovery step once for all three kinds of process. The
  hypothesis `~Overlap` is the service's restart delay: without it a delayed watchdog
  removes a new broker's journal (section 6). Assumptions: the watchdogs are neither the
  broker nor the operator, and `None` is no journal.

Only model-checked, because what they say is computed by a recursion over data and the
induction it needs is outside the prover: `DamageNamesEveryChange` (a fold over the
mailbox) and `RestoredMeansRestored` (a fold over the outcomes of a set of outputs). And all liveness (`WaitingEnds`, `EveryTaskSettles`, `DetachmentEnds`, `Recovers`,
`BuffersReturn`, `CaptureResumesOrEnds`, `Heals`, `RoleRecovers`, `UrbsReturnUncut`,
`CrashIsRepaired`, `EventuallyPlaced`), because fairness and ENABLED are.

## 5. Hazards

`PROJECT.json` lists the hazards at the line where they bite. The recurring ones: a value
read before an await or a lock and used after it (take-over availability, the incumbent
under proof, the deadline before a send, the generation a reconfiguration checked, the
placement the keeper read); a command or an answer that outlives the state it was made
for (hand-offs, completions of cancelled URBs, commands to a replaced capture); two
halves of one lane reporting its failure in either order; one step of several failing, and
then its undo; a process dying between two durable steps; several results found in one
frame. A hazard no property covers carries a note.

## 6. Findings

Four disagreements between the code and what its comments or documents say are kept as
runs; TLC prints the trace.

1. `pier_loss_time`: four exits of an attachment's set-up return `WriterEnded`, a
   resumable loss, without a loss time; the owner's `.expect("resumable transport loss
   records its observation time")` (`hosts/linux/src/net/server.rs:4839`) then panics
   and its registry entry stays behind.
2. `deck_deadline`: the Deck's session loop keeps polling the deadline of the resume
   attempt after the resume was accepted (`transport/websocket.rs:2228`), so a resumed
   session that still streams at that time ends as a time-out.
3. `usb_tombstones`: the Pier's helper expects two answers to a cancelled URB
   (`usb_bridge/mod.rs:647-651`), the Deck's sends one (`usb-helper/src/main.rs:375`); the
   tombstones add up until the helper fails at its limit.
4. `capture_rate_lost`: a replaced capture starts at its own rate while the rate task
   believes it has the target (`rate_control.rs:943`); the target is lost to it until the
   controller moves.

The following were met with the same models, under other constants or with the property
stated without the restriction section 3 names. They are not among the runs. Paths are
below `src/`.

| Where | The code | What is said |
|---|---|---|
| `hosts/linux/src/net/server.rs:5022` | when the deadline passes while the successor grant is being sent, `ResumeAccepted` drains the machine and the result is discarded: the session is served, its next loss is not resumable | "Successful resume replaces the grant/window and clears the completed detach deadline." (`docs/architecture/session-auto-reconnect.md:168`) |
| `hosts/linux/src/session/resume.rs:1048` | a hand-off whose owner is gone drains by the desktop's id, after a take-over the successor's slot | "Stale timers and repeated terminal events are no-ops." (same, 183) |
| `hosts/windows/src/recovery.rs:82` | a watchdog delayed past a restart of the broker removes the new broker's journal | "removes the journal only after confirmed restore" (`docs/architecture/timezone-redirection.md:53`) |
| `hosts/linux/src/host_cert.rs:251` | `new-host-cert` renames four files one by one without a journal | the files "are published as a set" (`shared/transport/src/cert_transaction.rs:22`) |
| `hosts/macos/src/host_cert.rs:533` | `roll_back` ignores a failed rename and removes the journal | "the directory is put back as it was" (same file, 600) |
| `hosts/linux/src/net/server.rs:9931` | a timed-out try's pump, aborted but not awaited, pins its keyframe; later tries cannot pin theirs | a failing replacement "is retried, not fatal, until the budget is spent" (same file, 8710) |
| `shared/transport/src/quic/session_lanes.rs:709` | a reader that sees its lane cancelled before the writer reported it, or after the replacement was admitted, follows it as superseded: held input is not released | the steps of `Opened` "cover both a superseded lane and a failed one the peer replaced" (same file, 752) |
| same line, bulk role | the reader of a role its writer disabled waits for a lane that never comes | "disabling, the end of the attachment and connection loss end it" (same file, 786) |
| `clients/macos/src/transport/lanes.rs:508` | in the same window the Deck asks for a generation the registry refuses as a duplicate, and ends the role | "A cancelled lane of a role this Deck opens is reopened by it." (same file, 507) |
| `shared/transport/src/quic/lane_runtime/writer.rs:626` | the failure count is cleared as soon as QUIC accepted a record locally | "Records that `role`'s lane delivered successfully" (`shared/transport/src/lanes.rs:905`) |
| `shared/input/src/lane_outbox.rs:150` | contact samples separated by other records are never folded, and pass the cap | "bounded so a stalled lane cannot grow memory without limit" (same file, 59) |
| `hosts/linux/src/input/wayland.rs:954` | a reconfiguration releases keys and refuses edges without an epoch; the planner's mirror keeps them | the mirror "can never disagree with what was delivered" (same place) |
| `hosts/linux/src/input/wayland.rs:2121` | an edge the compositor failed is answered with a refusal, which is only counted: the mirror keeps it as delivered until the key's next edge | the same |
| `hosts/linux/src/session/wayland/input.rs:466` | a release that fails is logged and already forgotten: the key stays down after its connection | "so the compositor never keeps a stuck key or button" (`session/wayland/mod.rs:2110`) |
| `hosts/linux/src/session/wayland/reconfigure.rs:659` | a press between the release and the write lock is held through the change; its release is refused and forgotten | "so the compositor never keeps a stuck key or button" (`session/wayland/mod.rs:2110`) |
| `reconfigure.rs:217` | a failed restore is reported as a plain failure | `Operation` means "nothing was left behind" (`shared/outputs/src/provider/transaction.rs:87`) |
| `reconfigure.rs:682` | after a restored shrink the snapshot names the new stream, the hello facts the old one, at the same generation | "Output reconfiguration advances them" (`session/wayland/input.rs:62`) |
| `hosts/linux/src/session/wayland/remote.rs:909` | a keeper already placing puts the previous layout over the transaction's | "`None` pauses the keeper while a reconfiguration places outputs itself." (same file, 883) |
| `hosts/linux/src/session/wayland/agent.rs:993` | a session closed before the recovery subscribes to it is neither recovered nor ended | `recover_closed_streams` "Returns when they are closed and cannot be replaced." (same file, 936) |
| `reconfigure.rs:637` | the generation is checked before the lock; a recovery that held it has taken the number | "a late or replayed request is refused" (`shared/session/src/wayland_outputs.rs:370`) |
| `hosts/linux/src/net/server.rs:8170` | a URB message under way when Hard USB is stopped ends the session, on either side | a stopped bulk lane "stops Hard USB [...] and ends nothing" (`docs/architecture/transport.md:320`) |
| `shared/media/src/video/capture_restart.rs:50` | tries of more than 20 s each leave the 60 s window before the budget is spent | "only a bounded number of times" (same file, 7) |

## 7. Plan

1. `DeckPier`: the Deck and the registry over a transport that loses messages: which
   grants the two sides hold after a lost refresh or a lost answer; the multi-window
   failure path, which closes the session and then tries to resume it; the
   login-window hand-over.
2. The Windows Pier (broker, agent, their resume registry), as far as it differs from the
   Linux one.
3. Clipboard transfers, the microphone, the admission gate and the throttle.
4. Theorems: the data the two invariants of section 4 fold over, restated without a fold
   (as `Replay` does for the keys and `was` for the outbox), so that they come within the prover's reach.

## 8. Not modelled, and why

The models cover about 2 % of the repository's lines. Most of the rest has no control a
model checker would help with: pixel conversion, codecs and driver calls, bitstream and
wire formats, process spawning, X11 and Wayland set-up, user-interface drawing, key maps,
telemetry schemas, packaging, and the tests. Claim
encoding and signing are abstracted to unforgeable grants.

Left out of modelled parts: of the Deck's reconnect, sessions without auto-reconnect,
certificate screens, `retry_now` (which the application does not call) and tasks of
earlier generations, whose results are discarded. Of the Pier, the agent and the loops
inside an attachment (their pieces are in the media, input and lane modules). Of the
lanes, the control lane's graceful close, draining on connection loss, preface time-outs
and version mismatches, queue bounds and the burst guard, the audio role. Of the video
queue, the full-frame coalescer, counters and the Windows single-frame queue. Of the
capture hand-over, the DMA-BUF fall-back, explicit synchronisation, cursor metadata and
the other runners. Of the capture processes, the controller's arithmetic and the
encoders. Of input, oversized records, key mapping, lock synchronisation, scroll
remainders, the region adapter; of Wayland input also text, pen, touch, axes and motion
coalescing. Of the outputs, capability admission, wide streams, scales, refresh rates,
cursor mode. Of the USB bridge, framing, pipe capacities, the synthetic responder and
write time-outs; `AttachmentMachine` and `InFlightLedger` of `shared/usb-bridge` have no
production users. Of the certificates, the Windows publisher, the generating script, a
removal that fails silently in recovery, and power loss. Of the leases, the Linux and
macOS time-zone adapters.
