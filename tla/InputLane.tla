------------------------------- MODULE InputLane -------------------------------
(***************************************************************************)
(* Deck input on its way to the host: the outbox that holds what the input *)
(* lane has no room for (shared/input lane_outbox.rs), the Deck's input    *)
(* worker, the bounded queue of the lane, and the host's input worker and  *)
(* injector, across failures of the lane.                                  *)
(*                                                                         *)
(* A record is a pointer position ("abs", "region"), a relative delta      *)
(* ("rel"), a pen sample with the tip up ("hover") or down ("ink"), or an  *)
(* edge; seq is its place in the one sequence the Deck numbers its input   *)
(* with.  SessionLanes models how a lane fails, is reopened and is         *)
(* released; here a failed lane is released before the next one is read.   *)
(***************************************************************************)
EXTENDS Integers, Sequences, Functions, FiniteSetsExt

CONSTANTS
    Kinds,       \* the kinds of record the Deck produces
    KeyCodes,    \* keys
    Buttons,     \* mouse buttons
    Strokes,     \* pen strokes: tool, buttons and region of a sample
    MaxDelta,    \* the largest delta one relative record can carry
    Cap,         \* PEN_CONTACT_BACKLOG_CAP
    LaneCap,     \* records the lane's queue holds
    MaxRecords,  \* bound: records the Deck produces
    MaxFails     \* bound: failures of the lane

ASSUME LaneAssumption == LaneCap \in Nat

VARIABLES
    deck,     \* what the Deck has: pointer x, last pen sample, held keys and buttons
    outbox,   \* InputLaneOutbox::pending
    folded,   \* InputLaneOutbox::pen_contact_decimated
    lane,     \* the Deck's lane: open, failed, or done (the worker returned)
    records,  \* records the lane took and the host has not read
    release,  \* the host has still to release what the lost lane held
    host,     \* the injector's view: pointer, pen, held, and the sequence tracker
    log,      \* every record the Deck produced
    was,      \* what the Deck had after each of them
    applied,  \* every record the host injected
    lost,     \* the records a failing lane took with it
    fails     \* failures of the lane so far

outboxVars == <<deck, outbox, folded, lane, records, release, host, log, was, applied, lost, fails>>

Blank == [x |-> 0, pen |-> 0, held |-> {}]

OutboxInit ==
    /\ deck = Blank /\ host = [x |-> 0, pen |-> 0, held |-> {}, seq |-> 0]
    /\ outbox = <<>> /\ records = <<>> /\ folded = 0
    /\ lane = "open" /\ release = FALSE
    /\ log = <<>> /\ was = <<>> /\ applied = <<>> /\ lost = {} /\ fails = 0

--------------------------------------------------------------------------------
(* The records, and the state an input record leads to. *)

Rec(kind, arg, down, merges) ==
    [kind |-> kind, arg |-> arg, down |-> down, merges |-> merges, seq |-> Len(log) + 1]

\* Only what the sender marked coalescable counts as motion.
Class(r) == IF r.kind \in {"hover", "ink"} /\ ~r.merges THEN "edge"
            ELSE IF r.kind \in {"key", "button", "reset"} THEN "edge" ELSE r.kind

Inputs ==
    UNION {
      {Rec(k, 5, FALSE, TRUE) : k \in Kinds \cap {"abs", "region"}},
      {Rec(i[1], 1, FALSE, i[2]) : i \in (Kinds \cap {"rel"}) \X BOOLEAN},
      {Rec(i[1], i[2], FALSE, i[3]) : i \in (Kinds \cap {"hover", "ink"}) \X Strokes \X BOOLEAN},
      {Rec(i[1], i[2], i[2] \notin deck.held, FALSE) : i \in (Kinds \cap {"key"}) \X KeyCodes},
      {Rec(i[1], i[2], i[2] \notin deck.held, FALSE) : i \in (Kinds \cap {"button"}) \X Buttons},
      {Rec(k, 0, FALSE, FALSE) : k \in Kinds \cap {"reset"}}}

\* A relative-mode edge carries no position; a reset releases keys, not buttons.
Effect(v, r) ==
    CASE r.kind \in {"abs", "region"} -> [v EXCEPT !.x = r.arg]
      [] r.kind = "rel"               -> [v EXCEPT !.x = @ + r.arg]
      [] r.kind \in {"hover", "ink"}  -> [v EXCEPT !.pen = r.seq]
      [] r.kind = "reset"             -> [v EXCEPT !.held = @ \ KeyCodes]
      [] OTHER                        -> [v EXCEPT !.held = IF r.down THEN @ \cup {r.arg} ELSE @ \ {r.arg}]

--------------------------------------------------------------------------------
(* The outbox. *)

\* What waits, oldest first: its newest record, the others, and all but the i-th.
\* (SequencesExt has the three as well; everything else it holds would be carried
\* through each step of the proofs.)
Newest(s) == s[Len(s)]
ButNewest(s) == SubSeq(s, 1, Len(s) - 1)
Without(s, i) == SubSeq(s, 1, i - 1) \o SubSeq(s, i + 1, Len(s))

SameStroke(a, b) == a.kind = b.kind /\ a.arg = b.arg

SumFits(a, b) == a.merges /\ b.merges /\ a.arg + b.arg <= MaxDelta

\* Mutant: a delta replaces the delta ahead of it.
SumTakesNewest(a, b) == b

\* The newer record, with both deltas.
Sum(a, b) == [b EXCEPT !.arg = a.arg + b.arg]

\* Whether the record last in line is replaced by (the merger with) r.
TailTakes(tail, r) ==
    /\ Class(tail) = Class(r)
    /\ \/ Class(r) \in {"abs", "region"}
       \/ Class(r) = "rel" /\ SumFits(tail, r)
       \/ Class(r) = "hover" /\ SameStroke(tail, r)

InkWaiting(s) == Len(SelectSeq(s, LAMBDA r : Class(r) = "ink"))

Pairs(s) == {i \in 2..Len(s) : /\ Class(s[i-1]) = "ink" /\ Class(s[i]) = "ink"
                               /\ SameStroke(s[i-1], s[i])}

\* The older sample of the oldest adjacent pair of one stroke goes.
FoldOldestPair(s) == IF Pairs(s) = {} THEN s ELSE Without(s, Min(Pairs(s)) - 1)

\* Mutant: the outbox is bounded by dropping what does not fit.
PushDropping(s, r) == IF Len(s) > 1 THEN s ELSE Append(s, r)

Push(s, r) ==
    IF s # <<>> /\ TailTakes(Newest(s), r)
    THEN Append(ButNewest(s), IF Class(r) = "rel" THEN Sum(Newest(s), r) ELSE r)
    ELSE LET t == Append(s, r)
         IN IF Class(r) = "ink" /\ InkWaiting(t) > Cap THEN FoldOldestPair(t) ELSE t

\* How many records at the front the lane takes.
FlushCount(s, q) == IF lane = "open" THEN Min({Len(s), LaneCap - Len(q)}) ELSE 0

Flush(s) ==
    LET n == FlushCount(s, records)
    IN /\ outbox' = SubSeq(s, n + 1, Len(s))
       /\ records' = records \o SubSeq(s, 1, n)

--------------------------------------------------------------------------------
(* The Deck's worker. *)

\* An input message: queued behind what waits, then what fits is sent.
Input(r) ==
    /\ lane \in {"open", "failed"} /\ Len(log) < MaxRecords
    /\ log' = Append(log, r)
    /\ deck' = Effect(deck, r)
    /\ was' = Append(was, deck')
    /\ folded' = folded + (IF Class(r) = "ink" /\ Len(Push(outbox, r)) = Len(outbox) THEN 1 ELSE 0)
    /\ Flush(Push(outbox, r))
    /\ UNCHANGED <<lane, release, host, applied, lost, fails>>

\* The retry tick runs while something waits.
Tick ==
    /\ lane = "open" /\ outbox # <<>> /\ Len(records) < LaneCap
    /\ Flush(outbox)
    /\ UNCHANGED <<deck, folded, lane, release, host, log, was, applied, lost, fails>>

\* The reader saw the lane's exit and the lane is open again: what waits is
\* sent on it at once.
Reopened ==
    /\ lane = "failed"
    /\ lane' = "open"
    /\ LET n == Min({Len(outbox), LaneCap})
       IN records' = SubSeq(outbox, 1, n) /\ outbox' = SubSeq(outbox, n + 1, Len(outbox))
    /\ UNCHANGED <<deck, folded, release, host, log, was, applied, lost, fails>>

\* The session is over for the Deck: the lane finishes what it took, and
\* what still waited goes with the worker.
InputEnds ==
    /\ lane \in {"open", "failed"}
    /\ lane' = "done"
    /\ lost' = lost \cup {r.seq : r \in Range(outbox)}
    /\ outbox' = <<>>
    /\ UNCHANGED <<deck, folded, records, release, host, log, was, applied, fails>>

\* The lane fails in flight; nothing it took reaches the host any more.
LaneFails ==
    /\ lane \in {"open", "done"} /\ fails < MaxFails
    /\ fails' = fails + 1
    /\ lane' = IF lane = "open" THEN "failed" ELSE "done"
    /\ release' = TRUE
    /\ lost' = lost \cup {r.seq : r \in Range(records)}
    /\ records' = <<>>
    /\ UNCHANGED <<deck, outbox, folded, host, log, was, applied>>

--------------------------------------------------------------------------------
(* The host. *)

\* release_held_input: keys, buttons and pen.
Releases == {}

HostReleases ==
    /\ release
    /\ host' = [host EXCEPT !.held = Releases, !.pen = 0]
    /\ release' = FALSE
    /\ UNCHANGED <<deck, outbox, folded, lane, records, log, was, applied, lost, fails>>

\* A record is injected when its sequence is newer than the last one's.
HostReads ==
    /\ records # <<>> /\ ~release
    /\ records' = Tail(records)
    /\ IF Head(records).seq > host.seq
       THEN /\ host' = [Effect(host, Head(records)) EXCEPT !.seq = Head(records).seq]
            /\ applied' = Append(applied, Head(records))
       ELSE UNCHANGED <<host, applied>>
    /\ UNCHANGED <<deck, outbox, folded, lane, release, log, was, lost, fails>>

\* The lane finished: the worker ends and releases what is held.
HostEnds ==
    /\ lane = "done" /\ records = <<>> /\ ~release
    /\ host.held # {} \/ host.pen # 0
    /\ host' = [host EXCEPT !.held = Releases, !.pen = 0]
    /\ UNCHANGED <<deck, outbox, folded, lane, records, release, log, was, applied, lost, fails>>

--------------------------------------------------------------------------------
OutboxNext == (\E r \in Inputs : Input(r)) \/ Tick \/ Reopened \/ InputEnds \/ LaneFails
        \/ HostReleases \/ HostReads \/ HostEnds

OutboxSpec == OutboxInit /\ [][OutboxNext]_outboxVars

--------------------------------------------------------------------------------
(* What it keeps. *)

\* The records that were not dropped: injected, in the lane, or waiting.
Kept == applied \o records \o outbox

Edges(s) == {r \in Range(s) : Class(r) = "edge"}

\* Edges are never dropped, merged or reordered (lane_outbox.rs header): the ones
\* injected, in the lane and waiting are the ones produced, without those a
\* failing lane or the end of the session took, and nothing overtakes.
EdgesKept ==
    /\ \A i, j \in DOMAIN Kept : i < j => Kept[i].seq < Kept[j].seq
    /\ Edges(Kept) = {r \in Edges(log) : r.seq \notin lost}

\* Whatever is coalesced ahead of it, an edge (as every other record) leaves the
\* host with the pointer, the pen and the held keys where the Deck had them, as
\* long as no lane failed.
EdgesLand ==
    fails = 0 /\ lane = "open" /\ applied # <<>> =>
        LET sent == was[Newest(applied).seq]
        IN host.x = sent.x /\ host.pen = sent.pen /\ host.held = sent.held

================================================================================
