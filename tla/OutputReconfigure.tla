------------------------- MODULE OutputReconfigure -------------------------
(***************************************************************************)
(* Reconfiguring the virtual outputs of a running headless Wayland         *)
(* session: the agent's output service runs a transaction (bind, verify,   *)
(* commit, or roll back) against Mutter while the placement keeper and the *)
(* recovery of closed streams run beside it.                               *)
(*                                                                         *)
(* The shared transaction driver is shared/outputs/src/provider; its       *)
(* provider is hosts/linux/src/session/wayland/reconfigure.rs over the     *)
(* operations of remote.rs; the recovery is in agent.rs.  Mutter is not    *)
(* part of the sources: it is modelled from how those files use it.        *)
(*                                                                         *)
(* An operation on the outputs is a set of outcomes o = [l, c, f, ok]: the *)
(* recorded set l, the compositor c, the faults f spent so far, and        *)
(* whether the operation succeeded.                                        *)
(***************************************************************************)
EXTENDS Integers, Sequences, FiniteSets, SequencesExt

CONSTANTS
    Layouts,      \* the layouts a Deck may ask for: sequences of [size, pos]
    First,        \* the layout the session starts with
    MaxConfigs,   \* bound on requested reconfigurations
    MaxFaults,    \* bound on compositor calls that fail
    MaxChanges,   \* bound on spontaneous monitor changes
    MaxCloses     \* bound on sessions Mutter closes by itself

VARIABLES
    live,      \* the live set: id, placed, conns, streams, dead
    comp,      \* Mutter: monitors and their sizes, layout, next connector
    txn,       \* the output service's transaction
    desired,   \* what the keeper is to place: <<>> while paused
    keeper,    \* the placement keeper
    rec,       \* the recovery of closed streams
    facts,     \* what an input hello reports: generation and streams
    snap,      \* what the output socket answers: generation and streams
    faults, configs, changes, closes, \* counters for the bounds
    over       \* the session ended: its outputs could not be recorded again

vars == <<live, comp, txn, desired, keeper, rec, facts, snap,
          faults, configs, changes, closes, over>>

---------------------------------------------------------------------------
(* The compositor and the recorded set. *)

\* A set's desired positions: each connector with the output it carries.
Placements(conns, outs) ==
    LET n == IF Len(conns) < Len(outs) THEN Len(conns) ELSE Len(outs)
    IN [x \in {conns[i] : i \in 1..n} |->
            outs[CHOOSE i \in 1..n : conns[i] = x]]

PlacementsOf(l) == Placements(l.conns, l.placed)

\* The streams a set reports: each with the output it was assigned.
ReadyStreams(l) ==
    [i \in 1..Len(l.streams) |-> <<l.streams[i], l.placed[i]>>]

\* Mutter returns to its default layout after any monitor change.
WithMonitors(c, mon) ==
    [c EXCEPT !.mon = mon, !.layout = IF mon = c.mon THEN @ ELSE <<>>]

Without(c, ids) ==
    WithMonitors(c, [x \in DOMAIN c.mon \ ids |-> c.mon[x]])

Only(c, ids) == Without(c, DOMAIN c.mon \ ids)

Running(c, x, size) ==
    WithMonitors(c, [y \in DOMAIN c.mon \cup {x} |->
                        IF y = x THEN size ELSE c.mon[y]])

\* Mutter accepts positions at which the monitors, at the sizes they run,
\* cover a strip from zero without gaps or overlaps.
Fits(c, p) ==
    /\ DOMAIN p \subseteq DOMAIN c.mon
    /\ LET span(x) == p[x].pos..(p[x].pos + c.mon[x] - 1)
           all == UNION {span(x) : x \in DOMAIN p}
       IN /\ \A x, y \in DOMAIN p : x # y => span(x) \cap span(y) = {}
          /\ all = 0..(Cardinality(all) - 1)

LaidOut(p) == [x \in DOMAIN p |-> p[x].pos]

\* Every output of the set exists and runs its recorded size.
SizesAgree(l, c) ==
    /\ Len(l.conns) = Len(l.placed)
    /\ LET p == PlacementsOf(l)
       IN \A x \in DOMAIN p : x \in DOMAIN c.mon /\ c.mon[x] = p[x].size

---------------------------------------------------------------------------
(* Outcomes. *)

Good(l, c) == [l |-> l, c |-> c, f |-> faults, ok |-> TRUE]

Fail(o) == [o EXCEPT !.ok = FALSE]

\* A call of the compositor fails, once more.
Faulty(o) ==
    IF o.f < MaxFaults THEN {[o EXCEPT !.ok = FALSE, !.f = @ + 1]} ELSE {}

\* What follows a success; a failure ends the operation (the `?`).
Then(S, G(_)) == UNION {IF o.ok THEN G(o) ELSE {o} : o \in S}

\* Whatever happened, go on.
Anyway(S) == {[o EXCEPT !.ok = TRUE] : o \in S}

---------------------------------------------------------------------------
(* The operations of remote.rs. *)

Renegotiate(o, i, size) ==
    IF i > Len(o.l.streams) \/ i > Len(o.l.conns) THEN {Fail(o)}
    ELSE LET x == o.l.streams[i]
             done == [o EXCEPT !.c = Running(@, x, size)]
         IN IF x \notin DOMAIN o.c.mon THEN {Fail(o)}
            ELSE {done} \cup Faulty(done) \cup Faulty(o)

\* The stream leaves the set even when Mutter refuses to stop it.
StopLastStream(o) ==
    IF o.l.streams = <<>> THEN {o}
    ELSE LET x == Last(o.l.streams)
             gone == [o EXCEPT !.l.streams = Front(@)]
         IN IF o.l.dead THEN {Fail(gone)}
            ELSE {[gone EXCEPT !.c = Without(@, {x})]} \cup Faulty(gone)

\* Records one more stream and waits for its monitor; a monitor that is not
\* seen is stopped again, best effort.
Add(o, size) ==
    IF o.l.dead THEN {Fail(o)}
    ELSE LET x == o.c.next
             shown == [o EXCEPT !.l.streams = Append(@, x),
                                !.c = [Running(@, x, size) EXCEPT !.next = x + 1]]
         IN {[shown EXCEPT !.l.conns = Append(@, x)]}
            \cup Faulty(o)
            \cup {Fail(u) : u \in UNION {StopLastStream(v) : v \in Faulty(shown)}}

Place(o, p) ==
    IF ~Fits(o.c, p) THEN {Fail(o)}
    ELSE {[o EXCEPT !.c.layout = LaidOut(p)]} \cup Faulty(o)

PlaceAll(o, req) ==
    Then(Place(o, Placements(o.l.conns, req)),
         LAMBDA u : {[u EXCEPT !.l.placed = req]})

DropLast(o) ==
    {[u EXCEPT !.l.conns = Front(@), !.l.placed = Front(@)] :
        u \in StopLastStream(o)}

\* Renegotiates the outputs at the positions idx, in order.
RenegotiateAll(o, req, idx) ==
    FoldLeft(LAMBDA S, i : IF i \notin idx THEN S
                           ELSE Then(S, LAMBDA u : Renegotiate(u, i, req[i].size)),
             {o}, [i \in 1..Len(req) |-> i])

SizeChanges(old, new) ==
    {i \in 1..Len(new) : i > Len(old) \/ old[i].size # new[i].size}

ResizeWith(o, req, idx) ==
    Then(RenegotiateAll(o, req, idx), LAMBDA u : PlaceAll(u, req))

GrowWith(o, req, force) ==
    LET kept    == 1..(IF Len(o.l.conns) < Len(req) THEN Len(o.l.conns) ELSE Len(req))
        idx     == IF force THEN kept ELSE kept \cap SizeChanges(o.l.placed, req)
        added   == FoldLeft(LAMBDA S, i : IF i \in kept THEN S
                                ELSE Then(S, LAMBDA u : Add(u, req[i].size)),
                            RenegotiateAll(o, req, idx), [i \in 1..Len(req) |-> i])
        undo(u) == FoldLeft(LAMBDA S, i : UNION {Anyway(
                                {[w EXCEPT !.l.conns = Front(@)] : w \in StopLastStream(v)})
                                : v \in S},
                            {u}, [i \in 1..(Len(u.l.conns) - Len(o.l.conns)) |-> i])
    IN UNION {IF u.ok THEN {u} ELSE {Fail(v) : v \in undo(u)} :
                u \in Then(added, LAMBDA v : PlaceAll(v, req))}

ShrinkWith(o, req) ==
    LET dropped == FoldLeft(LAMBDA S, i : Then(S, DropLast), {o},
                            [i \in 1..(Len(o.l.conns) - Len(req)) |-> i])
    IN Then(dropped, LAMBDA u : ResizeWith(u, req, SizeChanges(u.l.placed, req)))

\* Back to prev whatever a failed change left behind.  A stop that failed on
\* the way is reported even when the outputs came back.
RestoreWith(o, prev) ==
    LET drop(S, i) == UNION {{[v EXCEPT !.ok = @ /\ u.ok] :
                                v \in DropLast([u EXCEPT !.ok = TRUE])} : u \in S}
        dropped == FoldLeft(drop, {[o EXCEPT !.ok = TRUE]},
                            [i \in 1..(Len(o.l.conns) - Len(prev)) |-> i])
    IN UNION {{[v EXCEPT !.ok = @ /\ u.ok] :
                v \in GrowWith([u EXCEPT !.ok = TRUE], prev, TRUE)} : u \in dropped}

\* A new paired session recording outs: outcomes whose l is the new set.
\* A failure stops it, so the monitors that had appeared vanish.
Establish(o, id, outs) ==
    LET ids   == [i \in 1..Len(outs) |-> o.c.next + i - 1]
        set   == [id |-> id, placed |-> outs, conns |-> ids, streams |-> ids, dead |-> FALSE]
        c     == [o.c EXCEPT !.next = @ + Len(outs),
                             !.mon = [x \in DOMAIN @ \cup Range(ids) |->
                                IF x \in DOMAIN @ THEN @[x] ELSE Placements(ids, outs)[x].size],
                             !.layout = LaidOut(Placements(ids, outs))]
    IN {[o EXCEPT !.l = set, !.c = c]}
       \cup Faulty(o) \cup Faulty([o EXCEPT !.c.layout = <<>>])

---------------------------------------------------------------------------
(* The provider: what bind and rollback do to the outputs.  A bind outcome *)
(* also says whether the count changed in place (counted), the replacement *)
(* set (repl) and whether its own undo left nothing behind (undone).       *)

PlanReconfiguration(old, new) ==
    IF old = new THEN "Unchanged"
    ELSE IF Len(old) = Len(new) THEN "InPlace" ELSE "Recreate"

Bound(o, counted, repl, undone) ==
    [o |-> o, counted |-> counted, repl |-> repl, undone |-> undone]

\* The fallback of a failed growth: a replacement set beside the live one.
EstablishReplacement(o, req) ==
    UNION {IF r.ok
           THEN {Bound([r EXCEPT !.l = o.l], FALSE, <<r.l>>, TRUE)}
           ELSE {Bound(Fail(p), FALSE, <<>>, TRUE) :
                    p \in Place([r EXCEPT !.ok = TRUE], PlacementsOf(o.l))} :
           r \in Establish(o, o.l.id + 1, req)}

Bind(o, req) ==
    LET prev  == o.l.placed
        change == PlanReconfiguration(prev, req)
        undo(u) == RestoreWith(u, prev)
    IN IF change = "Unchanged" THEN {Bound(o, FALSE, <<>>, TRUE)}
       ELSE IF change = "InPlace"
       THEN UNION {IF u.ok THEN {Bound(u, FALSE, <<>>, TRUE)}
                   ELSE {Bound(Fail(r), FALSE, <<>>, r.ok) : r \in undo(u)} :
                   u \in ResizeWith(o, req, SizeChanges(prev, req))}
       ELSE UNION {IF u.ok THEN {Bound(u, TRUE, <<>>, TRUE)}
                   ELSE UNION {IF r.ok /\ Len(u.l.placed) = Len(prev)
                               THEN EstablishReplacement(r, req)
                               ELSE {Bound(Fail(r), FALSE, <<>>, r.ok)} : r \in undo(u)} :
                   u \in IF Len(req) > Len(prev)
                         THEN GrowWith(o, req, FALSE) ELSE ShrinkWith(o, req)}

\* Mutated: a count changed on the running sessions is not rolled back.
RollbackInPlaceOnly(o, t) ==
    IF t.repl # <<>>
    THEN LET gone == [o EXCEPT !.c = Without(@, Range(t.repl[1].streams))]
         IN Place(gone, PlacementsOf(o.l))
    ELSE IF PlanReconfiguration(t.prev, t.req) = "InPlace"
    THEN RestoreWith(o, t.prev)
    ELSE {o}

\* Stopping a replacement removes its monitors and places the live set again.
Rollback(o, t) ==
    IF t.repl # <<>>
    THEN LET gone == [o EXCEPT !.c = Without(@, Range(t.repl[1].streams))]
         IN Place(gone, PlacementsOf(o.l))
    ELSE IF t.counted \/ PlanReconfiguration(t.prev, t.req) = "InPlace"
    THEN RestoreWith(o, t.prev)
    ELSE {o}

---------------------------------------------------------------------------
(* State. *)

Idle == [pc |-> "idle", gen |-> 0, req |-> <<>>, prev |-> <<>>,
         counted |-> FALSE, repl |-> <<>>, error |-> "none", undone |-> TRUE,
         clean |-> TRUE]

Init ==
    LET ids == [i \in 1..Len(First) |-> i]
        l   == [id |-> 1, placed |-> First, conns |-> ids, streams |-> ids, dead |-> FALSE]
    IN /\ live = l
       /\ comp = [mon |-> [i \in Range(ids) |-> First[i].size],
                  layout |-> LaidOut(PlacementsOf(l)), next |-> Len(First) + 1]
       /\ txn = Idle
       /\ desired = <<PlacementsOf(l)>>
       /\ keeper = [pc |-> "waiting", woken |-> FALSE, with |-> <<>>]
       /\ rec = [pc |-> "watching", watch |-> 1]
       /\ facts = [gen |-> 1, streams |-> ReadyStreams(l)]
       /\ snap = [gen |-> 1, streams |-> ReadyStreams(l)]
       /\ faults = 0 /\ configs = 0 /\ changes = 0 /\ closes = 0
       /\ over = FALSE

\* The transaction holds the write lock on the live set.
Locked == txn.pc \in {"bound", "verified", "committed", "failed"}

\* MonitorsChanged and a changed desired placement both wake the keeper.
Woken(c, d) ==
    [keeper EXCEPT !.woken = @ \/ c.mon # comp.mon \/ c.layout # comp.layout
                               \/ d # desired]

\* The Closed signal of session id reaches whoever subscribed to it.
Signalled(id) ==
    IF rec.pc = "watching" /\ rec.watch = id
    THEN [rec EXCEPT !.pc = "signalled"] ELSE rec

---------------------------------------------------------------------------
(* The output service: configure. *)

CheckNextGeneration(g) == g = facts.gen + 1

\* The generation is checked and the keeper paused before the lock is asked.
Begin(req, g) ==
    /\ ~over
    /\ txn.pc = "idle"
    /\ configs < MaxConfigs
    /\ CheckNextGeneration(g)
    /\ txn' = [Idle EXCEPT !.pc = "waiting", !.gen = g, !.req = req]
    /\ desired' = <<>>
    /\ keeper' = Woken(comp, desired')
    /\ configs' = configs + 1
    /\ UNCHANGED <<live, comp, rec, facts, snap, faults, changes, closes, over>>

\* With the lock: preflight and bind.  The provider reports its own failed
\* undo as no undo at all, so the driver returns a plain Operation.
BindOutputs ==
    /\ ~over
    /\ txn.pc = "waiting"
    /\ \E b \in Bind(Good(live, comp), txn.req) :
          /\ live' = b.o.l
          /\ comp' = b.o.c
          /\ faults' = b.o.f
          /\ txn' = [txn EXCEPT !.pc = IF b.o.ok THEN "bound" ELSE "failed",
                                !.prev = live.placed,
                                !.clean = SizesAgree(live, comp),
                                !.counted = b.counted,
                                !.repl = b.repl,
                                !.error = IF b.o.ok THEN "none" ELSE "operation",
                                !.undone = b.undone]
    /\ keeper' = Woken(comp', desired)
    /\ UNCHANGED <<desired, rec, facts, snap, configs, changes, closes, over>>

Candidate == IF txn.repl # <<>> THEN txn.repl[1] ELSE live

\* Every output exists with its size and exactly they are placed.
Proven(l, c) ==
    /\ SizesAgree(l, c)
    /\ c.layout = LaidOut(PlacementsOf(l))

Verify ==
    /\ ~over
    /\ txn.pc = "bound"
    /\ Proven(Candidate, comp)
    /\ txn' = [txn EXCEPT !.pc = "verified"]
    /\ UNCHANGED <<live, comp, desired, keeper, rec, facts, snap,
                   faults, configs, changes, closes, over>>

\* Verification fails, by its evidence or because a call failed, and the
\* driver rolls the binding back.
VerifyFails ==
    /\ ~over
    /\ txn.pc = "bound"
    /\ \E o \in IF Proven(Candidate, comp) THEN Faulty(Good(live, comp))
                ELSE {Good(live, comp)} :
       \E r \in Rollback([o EXCEPT !.ok = TRUE], txn) :
          /\ live' = r.l
          /\ comp' = r.c
          /\ faults' = r.f
          /\ txn' = [txn EXCEPT !.pc = "failed",
                                !.repl = <<>>,
                                !.error = IF r.ok THEN "operation" ELSE "rollback",
                                !.undone = r.ok]
    /\ keeper' = Woken(comp', desired)
    /\ UNCHANGED <<desired, rec, facts, snap, configs, changes, closes, over>>

\* From the swap on the new set is live; stopping the old session removes
\* its monitors and signals Closed; placing again is best effort.
CommitOutputs ==
    /\ ~over
    /\ txn.pc = "verified"
    /\ IF txn.repl = <<>>
       THEN UNCHANGED <<live, comp, faults, rec>>
       ELSE /\ live' = txn.repl[1]
            /\ \E p \in Place([Good(live', comp) EXCEPT !.c = Only(@, Range(live'.streams))],
                              PlacementsOf(live')) :
                  comp' = p.c /\ faults' = p.f
            /\ rec' = Signalled(live.id)
    /\ txn' = [txn EXCEPT !.pc = "committed", !.repl = <<>>]
    /\ keeper' = Woken(comp', desired)
    /\ UNCHANGED <<desired, facts, snap, configs, changes, closes, over>>

\* Mutated: the keeper stays paused.
FinishPaused ==
    /\ ~over
    /\ txn.pc \in {"committed", "failed"}
    /\ facts' = IF txn.pc = "committed"
                THEN [gen |-> txn.gen, streams |-> ReadyStreams(live)] ELSE facts
    /\ snap' = [gen |-> facts'.gen, streams |-> ReadyStreams(live)]
    /\ txn' = Idle
    /\ UNCHANGED <<live, comp, desired, keeper, rec, faults, configs, changes, closes, over>>

\* The keeper resumes; the facts advance on success; the snapshot always
\* follows the live set.
Finish ==
    /\ ~over
    /\ txn.pc \in {"committed", "failed"}
    /\ desired' = <<PlacementsOf(live)>>
    /\ keeper' = Woken(comp, desired')
    /\ facts' = IF txn.pc = "committed"
                THEN [gen |-> txn.gen, streams |-> ReadyStreams(live)] ELSE facts
    /\ snap' = [gen |-> facts'.gen, streams |-> ReadyStreams(live)]
    /\ txn' = Idle
    /\ UNCHANGED <<live, comp, rec, faults, configs, changes, closes, over>>

---------------------------------------------------------------------------
(* The placement keeper. *)

\* A wake-up reads the desired placement; a pause is skipped.
KeeperWakes ==
    /\ ~over
    /\ keeper.pc = "waiting"
    /\ keeper.woken
    /\ keeper' = IF desired = <<>> THEN [keeper EXCEPT !.woken = FALSE]
                 ELSE [pc |-> "placing", woken |-> FALSE, with |-> desired]
    /\ UNCHANGED <<live, comp, txn, desired, rec, facts, snap,
                   faults, configs, changes, closes, over>>

\* Places what it read; a layout Mutter no longer accepts is only logged.
KeeperPlaces ==
    /\ ~over
    /\ keeper.pc = "placing"
    /\ LET p == keeper.with[1]
       IN comp' = IF Fits(comp, p) THEN [comp EXCEPT !.layout = LaidOut(p)] ELSE comp
    /\ keeper' = [pc |-> "waiting", with |-> <<>>,
                  woken |-> keeper.woken \/ comp'.layout # comp.layout]
    /\ UNCHANGED <<live, txn, desired, rec, facts, snap,
                   faults, configs, changes, closes, over>>

\* A capture epoch negotiates another refresh: Mutter lays out anew.
MonitorChange ==
    /\ ~over
    /\ changes < MaxChanges
    /\ comp.layout # <<>>
    /\ changes' = changes + 1
    /\ comp' = [comp EXCEPT !.layout = <<>>]
    /\ keeper' = Woken(comp', desired)
    /\ UNCHANGED <<live, txn, desired, rec, facts, snap,
                   faults, configs, closes, over>>

---------------------------------------------------------------------------
(* Mutter closes the session, and the recovery. *)

Close ==
    /\ ~over
    /\ closes < MaxCloses
    /\ ~live.dead
    /\ closes' = closes + 1
    /\ live' = [live EXCEPT !.dead = TRUE]
    /\ comp' = Only(comp, IF txn.repl = <<>> THEN {} ELSE Range(txn.repl[1].streams))
    /\ keeper' = Woken(comp', desired)
    /\ rec' = Signalled(live.id)
    /\ UNCHANGED <<txn, desired, facts, snap, faults, configs, changes, over>>

\* live_closed: subscribe to the live session under the read lock; a
\* session that is closed already sends no further signal.
Subscribe ==
    /\ ~over
    /\ rec.pc = "subscribing"
    /\ ~Locked
    /\ rec' = [pc |-> "watching", watch |-> live.id]
    /\ UNCHANGED <<live, comp, txn, desired, keeper, facts, snap,
                   faults, configs, changes, closes, over>>

\* live_closed: the signal of a replaced set moves the wait on.  The live
\* set's pauses the keeper and goes on to ask for the write lock.
CheckSignal ==
    /\ ~over
    /\ rec.pc = "signalled"
    /\ ~Locked
    /\ rec' = [rec EXCEPT !.pc = IF live.id = rec.watch THEN "waiting" ELSE "subscribing"]
    /\ desired' = IF live.id = rec.watch THEN <<>> ELSE desired
    /\ keeper' = Woken(comp, desired')
    /\ UNCHANGED <<live, comp, txn, facts, snap, faults, configs, changes, closes, over>>

\* recover_closed_streams, with the write lock: the same outputs recorded
\* by a new session, as the next generation; or the session ends.
Recover ==
    /\ ~over
    /\ rec.pc = "waiting"
    /\ ~Locked
    /\ \E r \in Establish(Good(live, comp), live.id + 1, live.placed) :
          /\ faults' = r.f
          /\ IF r.ok
             THEN /\ live' = r.l
                  /\ comp' = Only(r.c, Range(r.l.streams))
                  /\ facts' = [gen |-> facts.gen + 1, streams |-> ReadyStreams(r.l)]
                  /\ snap' = facts'
                  /\ desired' = <<PlacementsOf(r.l)>>
                  /\ rec' = [rec EXCEPT !.pc = "subscribing"]
                  /\ over' = FALSE
             ELSE /\ comp' = r.c
                  /\ over' = TRUE
                  /\ UNCHANGED <<live, facts, snap, desired, rec>>
    /\ keeper' = Woken(comp', desired')
    /\ UNCHANGED <<txn, configs, changes, closes>>

---------------------------------------------------------------------------
Next ==
    \/ \E req \in Layouts, g \in {facts.gen, facts.gen + 1} : Begin(req, g)
    \/ BindOutputs \/ Verify \/ VerifyFails \/ CommitOutputs \/ Finish
    \/ KeeperWakes \/ KeeperPlaces \/ MonitorChange
    \/ Close \/ Subscribe \/ CheckSignal \/ Recover

Spec == Init /\ [][Next]_vars

---------------------------------------------------------------------------
(* Properties. *)

\* The live outputs are those the transaction started from.
AsBefore == live.placed = txn.prev /\ SizesAgree(live, comp)

\* A transaction that started from outputs running their recorded sizes and
\* whose undo reported success brought back the previous outputs, each at its
\* previous size, whatever the failed change had renegotiated, added or
\* stopped (remote.rs restore_with after grow_with, shrink_with, resize_with).
RestoredMeansRestored ==
    txn.pc = "failed" /\ txn.undone /\ txn.clean /\ ~live.dead => AsBefore

\* Once nobody reconfigures any more, the live outputs are where they were
\* asked to be, though Mutter forgot the layout on every monitor change and
\* the commit's own placing may have failed (remote.rs keep_placement; the
\* keeper's own calls are taken to succeed within their five seconds).  Only
\* outputs a failed restore left in a shape Mutter refuses stay unplaced.
EventuallyPlaced ==
    <>[](\/ over \/ live.dead \/ ~Fits(comp, PlacementsOf(live))
         \/ comp.layout = LaidOut(PlacementsOf(live)))

=============================================================================
