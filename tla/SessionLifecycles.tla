-------------------------- MODULE SessionLifecycles --------------------------
(***************************************************************************)
(* The bounded table of Pier lifecycles every host keeps                     *)
(* (shared/session/src/host_lifecycle.rs), and the hosts that report to it.  *)
(* Each table operation runs under one lock, except stream_started, which    *)
(* looks the session up, adds it and advances it under three.  Sessions of    *)
(* different keys report concurrently; the reports of one session are in     *)
(* order, and a set-up that fails returns without reporting its end.         *)
(***************************************************************************)
EXTENDS Naturals, Sequences

CONSTANTS Sessions,    \* session keys
          MaxTracked   \* MAX_TRACKED_SESSIONS

ASSUME MaxTrackedAssumption == MaxTracked \in Nat \ {0}

VARIABLES table,     \* Vec<(String, PierLifecycle)>
          place,     \* where each session's task is
          recorded   \* what stream_started and transport_lost last confirmed to it

vars == <<table, place, recorded>>

States == {"Listening", "Authenticating", "PreparingSession", "SessionReady", "Streaming",
           "Recovering"}
Refused == "refused"

-----------------------------------------------------------------------------
(* One lifecycle (PierLifecycle). *)

Arrows == [Listening |-> [AuthenticationAccepted |-> "Authenticating"],
           Authenticating |-> [NativeSessionReady |-> "PreparingSession", SessionEnded |-> "Listening"],
           PreparingSession |-> [StreamReady |-> "SessionReady", SessionEnded |-> "Listening"],
           SessionReady |-> [StreamReady |-> "Streaming", SessionEnded |-> "Listening"],
           Streaming |-> [TransportLost |-> "Recovering", SessionEnded |-> "Listening"],
           Recovering |-> [RecoveryComplete |-> "SessionReady", SessionEnded |-> "Listening"]]

Apply(state, event) ==
    IF state # Refused /\ event \in DOMAIN Arrows[state] THEN Arrows[state][event] ELSE Refused

\* stream_started on a tracked session: both evidence gates, then Streaming.
Started(state) ==
    LET prepared == IF state = "Authenticating"
                    THEN Apply(Apply(state, "NativeSessionReady"), "StreamReady")
                    ELSE IF state = "Recovering" THEN Apply(state, "RecoveryComplete")
                    ELSE state
    IN  Apply(prepared, "StreamReady")

-----------------------------------------------------------------------------
(* The table. *)

Tracked(k) == \E i \in DOMAIN table : table[i].key = k
At(k) == CHOOSE i \in DOMAIN table : table[i].key = k
StateOf(k) == IF Tracked(k) THEN table[At(k)].state ELSE "none"

\* Mutant: a session that waits for its Deck counts as abandoned.
AbandonedRecovering(entry) == entry.state # "Streaming"

Abandoned(entry) == entry.state \notin {"Streaming", "Recovering"}

\* remove: the entries behind the i-th move up.
Removed(t, i) == SubSeq(t, 1, i - 1) \o SubSeq(t, i + 1, Len(t))

\* The table with room for one more, if any: the first abandoned session goes.
WithRoom ==
    IF Len(table) < MaxTracked THEN <<table>>
    ELSE LET abandoned == {i \in DOMAIN table : Abandoned(table[i])} IN
         IF abandoned = {} THEN <<>>
         ELSE <<Removed(table, CHOOSE i \in abandoned : \A j \in abandoned : i <= j)>>

\* authenticated: a recovering session stays so, another known one is refused.
Authenticated(k) ==
    IF Tracked(k)
    THEN [table EXCEPT ![At(k)].state = IF Apply(@, "AuthenticationAccepted") = Refused THEN @
                                        ELSE Apply(@, "AuthenticationAccepted")]
    ELSE IF WithRoom = <<>> THEN table
    ELSE Append(Head(WithRoom), [key |-> k, state |-> "Authenticating"])

\* swap_remove: the last entry takes the place of the forgotten one.
Forgotten(k) ==
    LET last == Len(table) IN
    SubSeq([table EXCEPT ![At(k)] = table[last]], 1, last - 1)

-----------------------------------------------------------------------------
(* The hosts. *)

Is(k, pc) == place[k] = pc
Goto(k, pc) == place' = [place EXCEPT ![k] = pc]
Record(k, what) == recorded' = [recorded EXCEPT ![k] = what]

\* A sign-in, or the resume of a detached session.
Authenticate(k) ==
    /\ place[k] \in {"idle", "detached"}
    /\ table' = Authenticated(k)
    /\ Goto(k, "setup")
    /\ UNCHANGED recorded

\* A Pier without authentication reports nothing before its stream.
OpenUnauthenticated(k) == Is(k, "idle") /\ Goto(k, "setup") /\ UNCHANGED <<table, recorded>>

\* Set-up fails: a first attachment may just return; with an owner it detaches,
\* and the lifecycle refuses the loss of a session that does not stream.
SetupFails(k) ==
    /\ Is(k, "setup")
    /\ \/ recorded[k] = "no" /\ Goto(k, "idle")
       \/ Goto(k, "detached")
    /\ UNCHANGED <<table, recorded>>

LookUp(k) ==
    /\ Is(k, "setup")
    /\ Goto(k, IF Tracked(k) THEN "ready" ELSE "missing")
    /\ UNCHANGED <<table, recorded>>

AddMissing(k) ==
    /\ Is(k, "missing")
    /\ table' = Authenticated(k)
    /\ Goto(k, "ready")
    /\ UNCHANGED recorded

\* With complete evidence or not; a refusal leaves the entry as it was, and the
\* session streams all the same.
StartStream(k) ==
    /\ Is(k, "ready")
    /\ Goto(k, "streaming")
    /\ \/ /\ Tracked(k) /\ Started(StateOf(k)) # Refused
          /\ table' = [table EXCEPT ![At(k)].state = Started(@)]
          /\ Record(k, "Streaming")
       \/ UNCHANGED <<table, recorded>>

\* The transport is lost and the session held.
TransportLost(k) ==
    /\ Is(k, "streaming")
    /\ Goto(k, "detached")
    /\ LET next == IF Tracked(k) THEN Apply(StateOf(k), "TransportLost") ELSE Refused IN
       IF next = Refused THEN UNCHANGED <<table, recorded>>
       ELSE /\ table' = [table EXCEPT ![At(k)].state = next]
            /\ Record(k, next)

\* The session is over; an entry that can end is forgotten.
Ended(k) ==
    /\ place[k] \in {"streaming", "detached"}
    /\ Goto(k, "idle")
    /\ Record(k, "no")
    /\ table' = IF Tracked(k) /\ Apply(StateOf(k), "SessionEnded") # Refused THEN Forgotten(k)
                ELSE table

Init ==
    /\ table = <<>>
    /\ place = [k \in Sessions |-> "idle"]
    /\ recorded = [k \in Sessions |-> "no"]

Next == \E k \in Sessions :
    \/ Authenticate(k) \/ OpenUnauthenticated(k) \/ SetupFails(k) \/ LookUp(k) \/ AddMissing(k)
    \/ StartStream(k) \/ TransportLost(k) \/ Ended(k)

Spec == Init /\ [][Next]_vars

-----------------------------------------------------------------------------
(* Properties. *)

TypeOK ==
    /\ table \in Seq([key : Sessions, state : States])
    /\ place \in [Sessions -> {"idle", "setup", "missing", "ready", "streaming", "detached"}]
    /\ recorded \in [Sessions -> {"no", "Streaming", "Recovering"}]

\* A full table never costs a live session its entry: what stream_started or
\* transport_lost confirmed is still there, however the set-ups, evictions and
\* ends of other sessions interleave with its own three lock scopes.
ConfirmedStaysTracked == \A k \in Sessions : recorded[k] # "no" => StateOf(k) = recorded[k]

\* An entry that can never be evicted belongs to a session that still runs:
\* ends that are reported leave no such entry behind to fill the table.
LiveEntriesRun ==
    \A k \in Sessions : StateOf(k) \in {"Streaming", "Recovering"} => recorded[k] = StateOf(k)

\* The table keeps its bound and one entry per session, also when a session is
\* added between the look-up and the advance of stream_started.
TableIsBounded ==
    /\ Len(table) <= MaxTracked
    /\ \A i, j \in DOMAIN table : table[i].key = table[j].key => i = j
=============================================================================
