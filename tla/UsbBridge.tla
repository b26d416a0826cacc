----------------------------- MODULE UsbBridge -----------------------------
(***************************************************************************)
(* One Hard USB attachment, end to end.  The host kernel's virtual USB     *)
(* controller hands URBs to the Pier's root helper process, which numbers  *)
(* them and writes submit and cancel frames; the Pier's dispatcher carries *)
(* the frames over the bulk lane to the Deck, whose privileged helper runs *)
(* one worker per URB against the tablet; completions travel back.         *)
(*                                                                         *)
(*   kernel <-> hosts/linux/src/usb_bridge (run_bridge)                    *)
(*          <-> hosts/linux/src/net/server.rs (dispatcher, BridgeProcess)  *)
(*          <-> bulk lane                                                  *)
(*          <-> clients/macos/src/transport/websocket.rs (session loop)    *)
(*          <-> clients/macos/usb-helper (PhysicalDevice)                  *)
(*                                                                         *)
(* A kernel URB is named by its handle, which the kernel uses again once   *)
(* the URB is given back; an id is never used twice.  A completion is the  *)
(* id it answers.                                                          *)
(***************************************************************************)
EXTENDS Integers, Sequences, FiniteSets, Functions

CONSTANTS Control,     \* handles of control URBs: the device answers in time
          Interrupt,   \* handles of interrupt URBs: answered when a report comes
          Limit,       \* MAX_IN_FLIGHT_URBS
          MaxIds,      \* bound: URBs the helper numbers
          MaxResets,   \* bound: bulk lane resets
          MaxStops     \* bound: reports that the bulk lane is unavailable

VARIABLES
    kernel,      \* handle -> "idle", "queued" (not fetched) or "out" (fetched)
    unlinked,    \* fetched handles the kernel wants back
    helper,      \* the Pier's helper: "running", "stopped" or why it failed
    handles,     \* the helper's id -> kernel handle map
    tombs,       \* the helper's id -> stale completions still to ignore
    nextId,      \* the id the next URB gets
    hin,         \* completions on the helper's stdin
    frames,      \* frames on the helper's stdout
    bridge,      \* the dispatcher still owns a BridgeProcess
    guard,       \* BridgedDeviceGuard::pending
    session,     \* "live" or why the session ended
    down,        \* bulk lane, Pier to Deck
    up,          \* bulk lane, Deck to Pier
    lane,        \* the bulk lane has not been disabled
    notice,      \* tablet_mode_result: "none", "sent" or "seen"
    responder,   \* the Deck still owns a UsbHardResponder
    mac,         \* the Deck's helper: "serving", "stopping" or "released"
    inflight,    \* UrbState::in_flight
    mtombs,      \* UrbState::cancelled
    workers,     \* running workers: [id, ctl, flag]
    done,        \* their completions, not yet taken by the completion pump
    resets, stops

hostVars == <<kernel, unlinked, helper, handles, tombs, nextId, hin, frames>>
pierVars == <<bridge, guard, session, notice, down, up, lane>>
macVars  == <<responder, mac, inflight, mtombs, workers, done>>
vars     == <<hostVars, pierVars, macVars, resets, stops>>

Handles  == Control \cup Interrupt
Failures == {"unknown URB", "tombstone limit", "in-flight limit"}

Forget(f, id) == Restrict(f, DOMAIN f \ {id})

Init ==
    /\ kernel = [h \in Handles |-> "idle"]
    /\ unlinked = {}
    /\ helper = "running"
    /\ handles = << >>
    /\ tombs = << >>
    /\ nextId = 1
    /\ hin = << >>
    /\ frames = << >>
    /\ bridge = TRUE
    /\ guard = {}
    /\ session = "live"
    /\ down = << >>
    /\ up = << >>
    /\ lane = TRUE
    /\ notice = "none"
    /\ responder = TRUE
    /\ mac = "serving"
    /\ inflight = {}
    /\ mtombs = {}
    /\ workers = {}
    /\ done = << >>
    /\ resets = 0
    /\ stops = 0

-----------------------------------------------------------------------------
(* The kernel.                                                             *)

KernelSubmit(h) ==
    /\ helper = "running" /\ kernel[h] = "idle"
    /\ kernel' = [kernel EXCEPT ![h] = "queued"]
    /\ UNCHANGED <<unlinked, helper, handles, tombs, nextId, hin, frames,
                   pierVars, macVars, resets, stops>>

\* An URB nobody has fetched goes straight back to its driver.
KernelUnlink(h) ==
    /\ helper = "running" /\ kernel[h] # "idle" /\ h \notin unlinked
    /\ IF kernel[h] = "queued"
         THEN kernel' = [kernel EXCEPT ![h] = "idle"] /\ UNCHANGED unlinked
         ELSE unlinked' = unlinked \cup {h} /\ UNCHANGED kernel
    /\ UNCHANGED <<helper, handles, tombs, nextId, hin, frames,
                   pierVars, macVars, resets, stops>>

Giveback(h) ==
    /\ kernel' = [kernel EXCEPT ![h] = "idle"]
    /\ unlinked' = unlinked \ {h}

\* The controller closes with its process: the kernel keeps nothing.
HelperEnds(why) ==
    /\ helper' = why
    /\ kernel' = [h \in Handles |-> "idle"]
    /\ unlinked' = {}
    /\ handles' = << >>
    /\ tombs' = << >>
    /\ hin' = << >>

-----------------------------------------------------------------------------
(* run_bridge: completions first, then one piece of the kernel's work.     *)

HelperCompletion ==
    /\ helper = "running" /\ hin # << >>
    /\ LET id == Head(hin) IN
       \/ /\ id \in DOMAIN handles
          /\ handles' = Forget(handles, id)
          /\ Giveback(handles[id])
          /\ hin' = Tail(hin)
          /\ UNCHANGED <<helper, tombs>>
       \/ /\ id \notin DOMAIN handles /\ id \in DOMAIN tombs
          /\ tombs' = IF tombs[id] = 1 THEN Forget(tombs, id)
                                       ELSE [tombs EXCEPT ![id] = @ - 1]
          /\ hin' = Tail(hin)
          /\ UNCHANGED <<helper, handles, kernel, unlinked>>
       \/ /\ id \notin DOMAIN handles \cup DOMAIN tombs
          /\ HelperEnds("unknown URB")
    /\ UNCHANGED <<nextId, frames, pierVars, macVars, resets, stops>>

\* The submit's answer and the cancel's.
StaleCompletions == 2

HelperCancelWith(h, kept, max, returned) ==
    /\ helper = "running" /\ h \in unlinked /\ h \in Range(handles)
    /\ LET id == CHOOSE i \in DOMAIN handles : handles[i] = h IN
       \/ /\ Cardinality(DOMAIN tombs) >= max
          /\ HelperEnds("tombstone limit")
          /\ UNCHANGED frames
       \/ /\ Cardinality(DOMAIN tombs) < max
          /\ handles' = Restrict(handles, (DOMAIN handles \ {id}) \cup kept)
          /\ tombs' = [i \in DOMAIN tombs \cup {id} |->
                         IF i = id THEN StaleCompletions ELSE tombs[i]]
          /\ frames' = Append(frames, [t |-> "cancel", id |-> id,
                                       ctl |-> h \in Control])
          /\ returned
          /\ UNCHANGED <<helper, hin>>
    /\ UNCHANGED <<nextId, pierVars, macVars, resets, stops>>

\* Mutant: a cancelled URB keeps its place in the handle map.
HelperCancelKeepsHandle(h) ==
    HelperCancelWith(h, DOMAIN handles, Limit, Giveback(h))

\* Mutant: the giveback is left to the Deck's answer.
HelperCancelUnreturned(h) ==
    HelperCancelWith(h, {}, Limit, UNCHANGED <<kernel, unlinked>>)

HelperCancel(h) == HelperCancelWith(h, {}, Limit, Giveback(h))

HelperSubmit(h) ==
    /\ helper = "running" /\ kernel[h] = "queued" /\ nextId <= MaxIds
    /\ nextId' = nextId + 1
    /\ \/ /\ Cardinality(DOMAIN handles) + 1 > Limit
          /\ HelperEnds("in-flight limit")
          /\ UNCHANGED frames
       \/ /\ Cardinality(DOMAIN handles) + 1 <= Limit
          /\ handles' = [i \in DOMAIN handles \cup {nextId} |->
                           IF i = nextId THEN h ELSE handles[i]]
          /\ kernel' = [kernel EXCEPT ![h] = "out"]
          /\ frames' = Append(frames, [t |-> "submit", id |-> nextId,
                                       ctl |-> h \in Control])
          /\ UNCHANGED <<unlinked, helper, tombs, hin>>
    /\ UNCHANGED <<pierVars, macVars, resets, stops>>

-----------------------------------------------------------------------------
(* The Pier's dispatcher.                                                  *)

\* Leaving the dispatcher's loop shuts the helper down and, with the
\* connection, the lane.
SessionEnds(why) ==
    /\ session' = why
    /\ bridge' = FALSE
    /\ HelperEnds(IF helper = "running" THEN "stopped" ELSE helper)
    /\ frames' = << >>
    /\ down' = << >>
    /\ up' = << >>
    /\ UNCHANGED lane

\* Nothing more crosses a disabled lane.
Sent(q, m) == IF lane THEN Append(q, m) ELSE q

\* next_frame: the guard remembers control requests and forgets cancelled
\* ones; the frame then waits for the bulk lane.
PierForward ==
    /\ bridge /\ session = "live" /\ frames # << >>
    /\ LET f == Head(frames) IN
       \/ /\ f.t = "submit" /\ f.ctl /\ Cardinality(guard) >= Limit
          /\ SessionEnds("guard")
          /\ UNCHANGED <<guard, nextId>>
       \/ /\ ~(f.t = "submit" /\ f.ctl /\ Cardinality(guard) >= Limit)
          /\ guard' = IF f.t = "cancel" THEN guard \ {f.id}
                      ELSE IF f.ctl THEN guard \cup {f.id} ELSE guard
          /\ down' = Sent(down, f)
          /\ frames' = Tail(frames)
          /\ UNCHANGED <<kernel, unlinked, helper, handles, tombs, nextId, hin,
                         bridge, session, up, lane>>
    /\ UNCHANGED <<notice, macVars, resets, stops>>

\* The frame reader reaches the end of a failed helper's stdout.
PierSeesHelperEnd ==
    /\ bridge /\ session = "live" /\ frames = << >> /\ helper \in Failures
    /\ SessionEnds(helper)
    /\ UNCHANGED <<nextId, guard, notice, macVars, resets, stops>>

\* UsbBridgeUrbComplete from the Deck.
PierCompletion ==
    /\ session = "live" /\ up # << >>
    /\ \/ /\ ~bridge
          /\ SessionEnds("late completion")
          /\ UNCHANGED guard
       \/ /\ bridge /\ helper # "running"
          /\ SessionEnds(helper)
          /\ UNCHANGED guard
       \/ /\ bridge /\ helper = "running"
          /\ guard' = guard \ {Head(up)}
          /\ hin' = Append(hin, Head(up))
          /\ up' = Tail(up)
          /\ UNCHANGED <<kernel, unlinked, helper, handles, tombs, frames,
                         bridge, session, down, lane>>
    /\ UNCHANGED <<nextId, notice, macVars, resets, stops>>

\* A lane that fails loses what it had not delivered, in both directions.
LaneLoses(d, u) ==
    /\ down' = SubSeq(down, 1, d)
    /\ up' = SubSeq(up, 1, u)

LaneReset(d, u) ==
    /\ session = "live" /\ resets < MaxResets /\ lane
    /\ d < Len(down) \/ u < Len(up)
    /\ resets' = resets + 1
    /\ LaneLoses(d, u)
    /\ UNCHANGED <<hostVars, bridge, guard, session, notice, lane, macVars, stops>>

\* The lane is disabled, or could not take a frame in time: the dispatcher
\* stops the bridge and tells the Deck on the control lane.
PierUnavailable(d, u) ==
    /\ bridge /\ session = "live" /\ stops < MaxStops
    /\ stops' = stops + 1
    /\ bridge' = FALSE
    /\ HelperEnds(IF helper = "running" THEN "stopped" ELSE helper)
    /\ frames' = << >>
    /\ notice' = "sent"
    /\ lane' \in {lane, FALSE}
    /\ LaneLoses(d, u)
    /\ UNCHANGED <<nextId, guard, session, macVars, resets>>

-----------------------------------------------------------------------------
(* The Deck and its privileged helper.                                     *)

\* PhysicalDevice::submit.
Submit(f) ==
    /\ inflight' = inflight \cup {f.id}
    /\ workers' = workers \cup {[id |-> f.id, ctl |-> f.ctl, flag |-> FALSE]}
    /\ UNCHANGED <<hostVars, bridge, session, up, lane, mtombs>>

\* admit_submission.
Admitted(f) == f.id \notin inflight \cup mtombs /\ Cardinality(inflight) < Limit

Flag(ids) == {[w EXCEPT !.flag = w.flag \/ w.id \in ids] : w \in workers}

\* PhysicalDevice::cancel: an answer is due whether or not the URB was known.
Cancel(f) ==
    /\ inflight' = inflight \ {f.id}
    /\ workers' = Flag({f.id} \cap inflight)
    /\ mtombs' = mtombs \cup ({f.id} \cap inflight)
    /\ up' = Sent(up, f.id)
    /\ UNCHANGED <<hostVars, bridge, session, lane>>

\* record_cancellation.
Cancellable(f) == f.id \in inflight => Cardinality(mtombs) < Limit

\* The Deck's session loop hands one frame to its helper.  A refusal ends the
\* helper's connection, and with it the session.
DeckFrame ==
    /\ session = "live" /\ down # << >>
    /\ LET f  == Head(down)
           ok == IF f.t = "submit" THEN Admitted(f) ELSE Cancellable(f)
       IN \/ /\ ~responder
             /\ SessionEnds("no responder")
             /\ UNCHANGED <<inflight, workers, mtombs>>
          \/ /\ responder /\ ~ok
             /\ SessionEnds("device refused")
             /\ UNCHANGED <<inflight, workers, mtombs>>
          \/ /\ responder /\ ok
             /\ down' = Tail(down)
             /\ IF f.t = "submit" THEN Submit(f) ELSE Cancel(f)
    /\ UNCHANGED <<nextId, guard, notice, responder, mac, done, resets, stops>>

\* perform_urb ends: a control transfer by its timeout, an interrupt read with
\* a report or when it sees its flag.
WorkerEnds(w) ==
    /\ workers' = workers \ {w}
    /\ done' = IF mac = "serving" THEN Append(done, w.id) ELSE done
    /\ UNCHANGED <<hostVars, pierVars, responder, mac, inflight, mtombs,
                   resets, stops>>

Report(w) == ~w.ctl /\ ~w.flag /\ WorkerEnds(w)

Expire(w) == (w.ctl \/ w.flag) /\ WorkerEnds(w)

\* next_completion: a cancelled URB's completion only clears its tombstone.
Pump ==
    /\ mac = "serving" /\ responder /\ session = "live" /\ done # << >>
    /\ LET id == Head(done) IN
       /\ done' = Tail(done)
       /\ inflight' = inflight \ {id}
       /\ mtombs' = IF id \in inflight THEN mtombs ELSE mtombs \ {id}
       /\ up' = IF id \in inflight THEN Sent(up, id) ELSE up
    /\ UNCHANGED <<hostVars, bridge, guard, session, notice, down, lane,
                   responder, mac, workers, resets, stops>>

\* tablet_mode_result, or the Deck's own bulk worker giving up, stops the
\* responder; the session goes on.
DeckNotice ==
    /\ session = "live" /\ notice = "sent"
    /\ notice' = "seen"
    /\ responder' = FALSE
    /\ UNCHANGED <<hostVars, bridge, guard, session, down, up, lane, mac,
                   inflight, mtombs, workers, done, resets, stops>>

DeckDisabled(d, u) ==
    /\ session = "live" /\ responder /\ stops < MaxStops
    /\ stops' = stops + 1
    /\ responder' = FALSE
    /\ lane' = FALSE
    /\ LaneLoses(d, u)
    /\ UNCHANGED <<hostVars, bridge, guard, session, notice, mac, inflight,
                   mtombs, workers, done, resets>>

MacStopsWith(flagged) ==
    /\ mac = "serving" /\ (~responder \/ session # "live")
    /\ mac' = "stopping"
    /\ responder' = FALSE
    /\ workers' = flagged
    /\ inflight' = {}
    /\ done' = << >>
    /\ UNCHANGED <<hostVars, pierVars, mtombs, resets, stops>>

\* handle_client after run_requests: shutdown flags every worker still in
\* flight.
MacStops == MacStopsWith(Flag(inflight))

\* The last reference to the device reattaches the tablet's own driver.
MacReleases ==
    /\ mac = "stopping" /\ workers = {}
    /\ mac' = "released"
    /\ UNCHANGED <<hostVars, pierVars, responder, inflight, mtombs, workers,
                   done, resets, stops>>

-----------------------------------------------------------------------------
Next ==
    \/ \E h \in Handles : \/ KernelSubmit(h) \/ KernelUnlink(h)
                          \/ HelperCancel(h) \/ HelperSubmit(h)
    \/ HelperCompletion
    \/ PierForward
    \/ PierSeesHelperEnd
    \/ PierCompletion
    \/ \E d \in 0..Len(down), u \in 0..Len(up) :
          \/ LaneReset(d, u) \/ PierUnavailable(d, u) \/ DeckDisabled(d, u)
    \/ DeckFrame
    \/ \E w \in workers : Report(w) \/ Expire(w)
    \/ Pump
    \/ DeckNotice
    \/ MacStops
    \/ MacReleases

Spec == Init /\ [][Next]_vars

-----------------------------------------------------------------------------

\* Every URB the helper fetched is owed to the kernel exactly once: the handle
\* map names each fetched handle under one id and names no other handle, so
\* a stale completion is never given back in place of the request that uses the
\* handle now (run_bridge's handles and cancelled maps).
OwedOnce ==
    helper = "running" =>
        /\ Range(handles) = {h \in Handles : kernel[h] = "out"}
        /\ IsInjective(handles)

\* A control request, and any URB the kernel wants back, is given back
\* (the kernel's caller waits for it without a timeout of the bridge's own).
UrbsReturn ==
    \A h \in Handles :
        (kernel[h] = "out" /\ (h \in Control \/ h \in unlinked))
            ~> kernel[h] = "idle"

\* A cancelled URB's tombstone goes away once the Deck has answered: with no
\* request out and nothing under way in either direction, none is left
\* (run_bridge counts on two answers; the Deck's helper says "the worker's own
\* late completion is dropped by the tombstone").
TombstonesClear ==
    (/\ helper = "running" /\ responder
     /\ frames = << >> /\ down = << >> /\ up = << >> /\ hin = << >>
     /\ done = << >> /\ workers = {}) => tombs = << >>

=============================================================================
