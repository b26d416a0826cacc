----------------------------- MODULE WaylandInput -----------------------------
(***************************************************************************)
(* Input of a headless Wayland desktop.  In the Pier, an attachment's      *)
(* injector (hosts/linux input/wayland.rs) plans key edges against its     *)
(* mirror of the held keys and queues them; its delivery task sends them   *)
(* one request at a time on a socket, gives up on a late reply, reconnects *)
(* and is superseded.  In the desktop's agent, the input service           *)
(* (session/wayland/input.rs) serves the newest connection, releases what  *)
(* an older one held, and shares the compositor with the output            *)
(* reconfiguration (session/wayland/reconfigure.rs).                       *)
(***************************************************************************)
EXTENDS Integers, Sequences, FiniteSets

CONSTANTS
    Keys,         \* keys of the keyboard; buttons behave alike
    Mods,         \* the keys among them that are modifiers
    Injectors,    \* 1..n: the attachments, in the order they come
    QueueCap,     \* INJECTION_QUEUE_CAPACITY
    MaxAttempts,  \* RECONNECT_BACKOFF.len()
    MaxEvents,    \* bound: key events and resets of the Deck
    MaxBreaks,    \* bound: replies and hellos given up on
    MaxReconfigs, \* bound: output reconfigurations
    MaxFaults,    \* bound: calls the compositor's bus fails
    MaxConns      \* bound: connections to the input socket

ASSUME ModsAssumption == Mods \subseteq Keys /\ IsFiniteSet(Mods)

VARIABLES
    down,     \* the keys the user holds
    plan,     \* per injector: held (mirror), epoch, todo (planned, not queued), dropped
    queue,    \* per injector: InjectionQueue
    task,     \* per injector: the delivery task
    conn,     \* the connections so far
    backlog,  \* connections the service has not accepted
    serving,  \* the input service: current connection, the command it injects
    held,     \* HeldInput of the service
    comp,     \* the keys the compositor has down
    astray,   \* history: keys whose last command the compositor failed, or that a
              \* reconfiguration took since
    reconf,   \* the output reconfiguration
    count,    \* events, breaks and reconfigurations so far
    faults    \* failures of the compositor's bus so far

vars == <<down, plan, queue, task, conn, backlog, serving, held, comp, astray, reconf, count, faults>>
pier == <<down, plan, queue>>
agent == <<backlog, serving, held, comp, astray, reconf, faults>>

Key(k, pressed) == [op |-> "key", key |-> k, pressed |-> pressed]
ReleaseAll == [op |-> "release_all"]
Hello == [op |-> "hello"]

Init ==
    /\ down = {} /\ held = {} /\ comp = {} /\ astray = {} /\ faults = 0
    /\ plan = [i \in Injectors |-> [held |-> {}, epoch |-> 0, todo |-> <<>>, dropped |-> FALSE]]
    /\ queue = [i \in Injectors |-> [pending |-> <<>>, epoch |-> 0, accepting |-> TRUE, closed |-> FALSE]]
    /\ task = [i \in Injectors |-> [pc |-> "idle", conn |-> 0, next |-> 0, attempt |-> 0,
                                    drain |-> FALSE, status |-> "none"]]
    /\ conn = <<>> /\ backlog = <<>>
    /\ serving = [conn |-> 0, command |-> Hello]
    /\ reconf = [pc |-> "idle", taken |-> {}]
    /\ count = [events |-> 0, breaks |-> 0, reconfigs |-> 0]

--------------------------------------------------------------------------------
(* The injector: planning and queueing on the input lane's task. *)

Live(i) == task[i].pc \notin {"idle", "open"} /\ ~plan[i].dropped

Edge(has, k, pressed) == IF (k \in has) = pressed THEN <<>> ELSE <<Key(k, pressed)>>

\* The members of a finite set, one after the other.
Listed(S) == CHOOSE f \in [1 .. Cardinality(S) -> S] : \A a, b \in DOMAIN f : f[a] = f[b] => a = b

\* The modifiers' edges, in some fixed order like the table's.
ModifierEdges(has, mask) ==
    Listed({Key(m, m \in mask) : m \in {n \in Mods : (n \in has) # (n \in mask)}})

\* plan_key_edges: the modifier mask first, then the key, each only when the
\* mirror disagrees.
KeyEdges(has, k, pressed, mask) ==
    IF k \in Mods THEN Edge(has, k, pressed)
    ELSE ModifierEdges(has, mask) \o Edge(has, k, pressed)

Applied(has, c) == IF c.op = "release_all" THEN {}
                   ELSE IF c.pressed THEN has \cup {c.key} ELSE has \ {c.key}

Touches(c, k) == c.op = "release_all" \/ c.key = k

\* What is held after some commands: a key nothing touched since it was held,
\* or since it was pressed.
Replay(has, commands) ==
    {k \in Keys :
        \/ k \in has /\ \A j \in DOMAIN commands : ~Touches(commands[j], k)
        \/ \E j \in DOMAIN commands :
              /\ commands[j] = Key(k, TRUE)
              /\ \A l \in DOMAIN commands : l > j => ~Touches(commands[l], k)}

\* Mutant: a broken connection leaves the mirror as it was.
SyncedStale(i) == plan[i].held

\* sync: the mirror is forgotten when the connection broke since the last call.
Synced(i) == IF queue[i].epoch # plan[i].epoch THEN {} ELSE plan[i].held

\* The planned commands, and the mirror after them.
Planned(i, commands, mirror) ==
    plan' = [plan EXCEPT ![i] =
                IF task[i].status = "connected"
                THEN [@ EXCEPT !.held = mirror, !.epoch = queue[i].epoch, !.todo = commands]
                ELSE [@ EXCEPT !.held = Synced(i), !.epoch = queue[i].epoch]]

Happens == /\ count.events < MaxEvents /\ count' = [count EXCEPT !.events = @ + 1]
           /\ \A i \in Injectors : plan[i].todo = <<>>

\* The user presses or releases a key, and the attachment's injector plans it.
KeyEvent(k) ==
    LET now == IF k \in down THEN down \ {k} ELSE down \cup {k}
    IN /\ Happens
       /\ down' = now
       /\ IF \E i \in Injectors : Live(i)
          THEN \E i \in Injectors :
                  /\ Live(i)
                  /\ LET edges == KeyEdges(Synced(i), k, k \in now, now \cap Mods)
                     IN Planned(i, edges, Replay(Synced(i), edges))
          ELSE plan' = plan
       /\ UNCHANGED <<queue, task, conn, agent>>

\* reset_held: the input lane failed, was replaced or ended.
ResetHeld(i) ==
    /\ Happens /\ Live(i)
    /\ Planned(i, <<ReleaseAll>>, {})
    /\ UNCHANGED <<down, queue, task, conn, agent>>

\* A full queue is replaced by one release of everything.
Enqueued(q, c) ==
    [q EXCEPT !.pending = IF Len(@) >= QueueCap THEN <<ReleaseAll>> ELSE Append(@, c)]

Collapses(q) == Len(q.pending) >= QueueCap

\* push_at: the next planned command; refused or collapsed, the rest of the
\* plan is dropped and the mirror forgotten.
PushAt(i) ==
    /\ plan[i].todo # <<>>
    /\ LET q == queue[i]
           refused == q.closed \/ q.epoch # plan[i].epoch \/ ~q.accepting
       IN /\ queue' = IF refused THEN queue ELSE [queue EXCEPT ![i] = Enqueued(q, Head(plan[i].todo))]
          /\ plan' = [plan EXCEPT ![i] =
                         IF refused \/ Collapses(q) THEN [@ EXCEPT !.held = {}, !.todo = <<>>]
                         ELSE [@ EXCEPT !.todo = Tail(plan[i].todo)]]
    /\ UNCHANGED <<down, task, conn, count, agent>>

\* The attachment ends: everything is released, and the queue closed.
Drop(i) ==
    /\ Live(i) /\ plan[i].todo = <<>>
    /\ plan' = [plan EXCEPT ![i].dropped = TRUE]
    /\ queue' = [queue EXCEPT ![i] =
                    [(IF @.accepting /\ ~@.closed THEN Enqueued(@, ReleaseAll) ELSE @)
                        EXCEPT !.closed = TRUE, !.accepting = FALSE]]
    /\ UNCHANGED <<down, task, conn, count, agent>>

--------------------------------------------------------------------------------
(* The delivery task. *)

\* A new connection, its hello written, waits to be accepted.
Connects(i) ==
    /\ Len(conn) < MaxConns
    /\ conn' = Append(conn, [owner |-> i, lines |-> <<Hello>>, replies |-> <<>>,
                             expired |-> FALSE, shut |-> FALSE, over |-> FALSE])
    /\ backlog' = Append(backlog, Len(conn) + 1)
    /\ UNCHANGED <<serving, held, comp, astray, reconf, faults>>

Close(cs, c) == IF c = 0 THEN cs ELSE [cs EXCEPT ![c].shut = TRUE]

Reply(i) == Head(conn[task[i].conn].replies)
HasReply(i) == conn[task[i].conn].replies # <<>>
TakeReply(c) == conn' = [conn EXCEPT ![c].replies = Tail(@)]

\* An attachment connects once the one before it has dropped its injector.
Connect(i) ==
    /\ task[i].pc = "idle" /\ (i > 1 => plan[i-1].dropped)
    /\ Connects(i)
    /\ task' = [task EXCEPT ![i].pc = "open", ![i].next = Len(conn) + 1]
    /\ UNCHANGED <<pier, count>>

\* Mutant: the end is not published.
EndsSilently(i, status) ==
    /\ task' = [task EXCEPT ![i].pc = "done"]
    /\ conn' = Close(Close(conn, task[i].conn), task[i].next)

\* The delivery ends for good: its connections close and the queue too.
Ends(i, status) ==
    /\ task' = [task EXCEPT ![i].pc = "done", ![i].status = status]
    /\ conn' = Close(Close(conn, task[i].conn), task[i].next)

Shut(q) == [q EXCEPT !.closed = TRUE, !.accepting = FALSE]
Interrupted(q) == [q EXCEPT !.pending = <<>>, !.accepting = FALSE, !.epoch = @ + 1]
Resumed(q) == [q EXCEPT !.pending = <<>>, !.accepting = TRUE]

\* The hello was answered and proven: delivery starts, or goes on.
Opened(i) ==
    LET n == task[i].next
    IN /\ task[i].pc \in {"open", "reopen"}
       /\ conn[n].replies # <<>> /\ Head(conn[n].replies) = "ok"
       /\ IF queue[i].closed
          THEN /\ Ends(i, "closed") /\ queue' = queue
          ELSE /\ conn' = [Close(conn, task[i].conn) EXCEPT ![n].replies = Tail(@)]
               /\ queue' = [queue EXCEPT ![i] = IF task[i].pc = "reopen" THEN Resumed(@) ELSE @]
               /\ task' = [task EXCEPT ![i] = [@ EXCEPT !.pc = "serve", !.conn = n, !.next = 0,
                                                        !.status = "connected"]]
       /\ UNCHANGED <<down, plan, count, agent>>

\* A newer connection came before the hello was answered: not retried.
OpenSuperseded(i) ==
    LET n == task[i].next
    IN /\ task[i].pc \in {"open", "reopen"}
       /\ conn[n].replies # <<>> /\ Head(conn[n].replies) = "superseded"
       /\ Ends(i, IF queue[i].closed THEN "closed" ELSE "superseded")
       /\ queue' = [queue EXCEPT ![i] = Shut(@)]
       /\ UNCHANGED <<down, plan, count, agent>>

\* The service closed the connection of the hello.
Refused(i) == LET c == conn[task[i].next] IN c.over /\ c.replies = <<>>

\* The hello is not answered in time, or its connection is closed.
OpenFails(i) ==
    /\ task[i].pc \in {"open", "reopen"}
    /\ IF Refused(i) THEN count' = count
       ELSE count.breaks < MaxBreaks /\ count' = [count EXCEPT !.breaks = @ + 1]
    /\ IF task[i].pc = "reopen" /\ task[i].attempt < MaxAttempts
       THEN /\ task' = [task EXCEPT ![i].pc = "backoff", ![i].next = 0]
            /\ conn' = [conn EXCEPT ![task[i].next].shut = TRUE, ![task[i].next].expired = TRUE]
            /\ queue' = queue
       ELSE /\ Ends(i, IF queue[i].closed THEN "closed" ELSE "unreachable")
            /\ queue' = [queue EXCEPT ![i] = Shut(@)]
    /\ UNCHANGED <<down, plan, agent>>

\* One more attempt after its backoff, unless the injector was dropped.
Backoff(i) ==
    /\ task[i].pc = "backoff"
    /\ IF queue[i].closed
       THEN Ends(i, "closed") /\ UNCHANGED agent
       ELSE /\ Connects(i)
            /\ task' = [task EXCEPT ![i].pc = "reopen", ![i].attempt = @ + 1, ![i].next = Len(conn) + 1]
    /\ UNCHANGED <<pier, count>>

\* serve: the next command is sent; a connection the service closed takes none.
SendNext(i) ==
    LET c == task[i].conn
    IN /\ task[i].pc = "serve" /\ queue[i].pending # <<>>
       /\ queue' = [queue EXCEPT ![i].pending = Tail(@)]
       /\ conn' = [conn EXCEPT ![c].lines = IF conn[c].over THEN @ ELSE Append(@, Head(queue[i].pending))]
       /\ task' = [task EXCEPT ![i].pc = "reply", ![i].drain = queue[i].closed]
       /\ UNCHANGED <<down, plan, count, agent>>

\* The reply; a refused command is only counted.
Replied(i) ==
    /\ task[i].pc = "reply" /\ HasReply(i) /\ Reply(i) # "superseded"
    /\ TakeReply(task[i].conn)
    /\ task' = [task EXCEPT ![i].pc = "serve"]
    /\ UNCHANGED <<pier, count, agent>>

\* The notice of a newer connection, read as a reply or on an idle connection.
Superseded(i) ==
    /\ task[i].pc \in {"serve", "reply"} /\ HasReply(i) /\ Reply(i) = "superseded"
    /\ (task[i].pc = "serve" => queue[i].pending = <<>> /\ ~queue[i].closed)
    /\ Ends(i, "superseded")
    /\ queue' = [queue EXCEPT ![i] = Shut(Interrupted(@))]
    /\ UNCHANGED <<down, plan, count, agent>>

\* The service closed the connection without a notice: the queue is dropped and
\* its epoch advanced, before the status is published.
Eof(i) ==
    /\ task[i].pc \in {"serve", "reply"} /\ ~HasReply(i) /\ conn[task[i].conn].over
    /\ (task[i].pc = "serve" => queue[i].pending = <<>> /\ ~queue[i].closed)
    /\ task' = [task EXCEPT ![i].pc = "broken"]
    /\ queue' = [queue EXCEPT ![i] = Interrupted(@)]
    /\ UNCHANGED <<down, plan, conn, count, agent>>

\* The reply is late: the request is past its deadline from now on.  A command
\* sent after the queue closed shares the drain budget, which is now over.
GiveUp(i) ==
    /\ task[i].pc = "reply" /\ count.breaks < MaxBreaks
    /\ count' = [count EXCEPT !.breaks = @ + 1]
    /\ conn' = [conn EXCEPT ![task[i].conn].expired = TRUE, ![task[i].conn].shut = task[i].drain]
    /\ IF task[i].drain
       THEN /\ task' = [task EXCEPT ![i].pc = "done", ![i].status = "closed"]
            /\ queue' = queue
       ELSE /\ task' = [task EXCEPT ![i].pc = "broken"]
            /\ queue' = [queue EXCEPT ![i] = Interrupted(@)]
    /\ UNCHANGED <<down, plan, agent>>

\* ConnectionStatus::Reconnecting is published, and the attempts start.
Reconnecting(i) ==
    /\ task[i].pc = "broken"
    /\ task' = [task EXCEPT ![i] = [@ EXCEPT !.pc = "backoff", !.attempt = 0, !.status = "reconnecting"]]
    /\ UNCHANGED <<pier, conn, count, agent>>

\* The queue is closed and everything in it was answered.
Drained(i) ==
    /\ task[i].pc = "serve" /\ queue[i].closed /\ queue[i].pending = <<>>
    /\ Ends(i, "closed")
    /\ UNCHANGED <<pier, count, agent>>

--------------------------------------------------------------------------------
(* The agent's input service. *)

Idle == serving.command = Hello

Locked == reconf.pc = "locked"

\* Mutant: a connection that ends keeps what it held.
ReleaseNothing == UNCHANGED <<held, comp, astray, faults>>

\* The compositor fails the calls about some keys, or none: all of them while the
\* outputs are reconfigured, any when its bus fails.
Misses(keys, missed) ==
    IF Locked THEN missed = keys /\ faults' = faults
    ELSE \/ missed = {} /\ faults' = faults
         \/ missed # {} /\ faults < MaxFaults /\ faults' = faults + 1

\* release_held: everything held is forgotten, then released; a release that fails
\* is only logged.
ReleaseHeld ==
    \E missed \in SUBSET held :
        /\ Misses(held, missed)
        /\ held' = {}
        /\ comp' = comp \ (held \ missed)
        /\ astray' = (astray \ held) \cup (missed \cap comp)

Answer(c, reply) == conn' = [conn EXCEPT ![c].lines = Tail(@), ![c].replies = Append(@, reply)]

\* The next connection, when none is served.
Accept ==
    /\ serving.conn = 0 /\ backlog # <<>>
    /\ serving' = [serving EXCEPT !.conn = Head(backlog)]
    /\ backlog' = Tail(backlog)
    /\ UNCHANGED <<pier, task, conn, held, comp, astray, reconf, count, faults>>

\* A newer connection takes over between two requests: the older one is told
\* and closed, and everything it held is released.
Supersede ==
    /\ serving.conn # 0 /\ Idle /\ backlog # <<>>
    /\ conn' = [conn EXCEPT ![serving.conn].replies = Append(@, "superseded"),
                            ![serving.conn].lines = <<>>, ![serving.conn].over = TRUE]
    /\ serving' = [serving EXCEPT !.conn = Head(backlog)]
    /\ backlog' = Tail(backlog)
    /\ ReleaseHeld
    /\ UNCHANGED <<pier, task, reconf, count>>

HasLine == serving.conn # 0 /\ Idle /\ conn[serving.conn].lines # <<>>
Line == Head(conn[serving.conn].lines)

\* handle: a request past its deadline is refused; a press is recorded as held
\* before it is injected.
Handle(expired) ==
    /\ HasLine
    /\ \/ /\ expired
          /\ Answer(serving.conn, "refused") /\ UNCHANGED <<serving, held, comp, astray, faults>>
       \/ /\ ~expired /\ Line = Hello
          /\ Answer(serving.conn, "ok") /\ UNCHANGED <<serving, held, comp, astray, faults>>
       \/ /\ ~expired /\ Line = ReleaseAll
          /\ Answer(serving.conn, "ok") /\ ReleaseHeld /\ UNCHANGED serving
       \/ /\ ~expired /\ Line.op = "key"
          /\ serving' = [serving EXCEPT !.command = Line]
          /\ held' = IF Line.pressed THEN held \cup {Line.key} ELSE held
          /\ UNCHANGED <<conn, comp, astray, faults>>
    /\ UNCHANGED <<pier, task, backlog, reconf, count>>

\* A request is read only when no connection waits to be accepted.
ReadLine == HasLine /\ backlog = <<>> /\ Handle(conn[serving.conn].expired)

\* inject, from notify on: an edge the compositor took is recorded.  One it failed
\* is refused and leaves what is held as the press was recorded before; the error
\* may come after the effect, except during a reconfiguration, which refuses the
\* edge at once.
Notify ==
    LET c == serving.command
    IN /\ ~Idle
       /\ \/ /\ ~Locked /\ faults' = faults
             /\ comp' = Applied(comp, c) /\ held' = Applied(held, c)
             /\ astray' = astray \ {c.key}
             /\ Answer(serving.conn, "ok")
          \/ /\ Misses({c.key}, {c.key})
             /\ comp' = comp \/ (~Locked /\ comp' = Applied(comp, c))
             /\ held' = held
             /\ astray' = astray \cup {c.key}
             /\ Answer(serving.conn, "refused")
       /\ serving' = [serving EXCEPT !.command = Hello]
       /\ UNCHANGED <<pier, task, backlog, reconf, count>>

\* The connection ended: what it held is released, and the next one accepted.
ReadEof ==
    /\ serving.conn # 0 /\ Idle /\ backlog = <<>>
    /\ conn[serving.conn].shut /\ conn[serving.conn].lines = <<>>
    /\ conn' = [conn EXCEPT ![serving.conn].over = TRUE]
    /\ serving' = [serving EXCEPT !.conn = 0]
    /\ ReleaseHeld
    /\ UNCHANGED <<pier, task, backlog, reconf, count>>

\* A reply cannot be written: the connection is closed without a notice.
ReplyFails ==
    /\ serving.conn # 0 /\ Idle /\ count.breaks < MaxBreaks
    /\ conn[serving.conn].replies # <<>>
    /\ count' = [count EXCEPT !.breaks = @ + 1]
    /\ conn' = [conn EXCEPT ![serving.conn].replies = SubSeq(@, 1, Len(@) - 1), ![serving.conn].lines = <<>>,
                            ![serving.conn].over = TRUE]
    /\ serving' = [serving EXCEPT !.conn = 0]
    /\ ReleaseHeld
    /\ UNCHANGED <<pier, task, backlog, reconf>>

Service == Accept \/ Supersede \/ ReadLine \/ Notify \/ ReadEof

--------------------------------------------------------------------------------
(* The output reconfiguration, on another task of the agent. *)

\* configure: everything held is taken ...
ReconfTake ==
    /\ reconf.pc = "idle" /\ count.reconfigs < MaxReconfigs
    /\ count' = [count EXCEPT !.reconfigs = @ + 1]
    /\ reconf' = [pc |-> "taken", taken |-> held]
    /\ held' = {} /\ astray' = astray \cup held
    /\ UNCHANGED <<pier, task, conn, backlog, serving, comp, faults>>

\* ... and released ...
ReconfRelease ==
    /\ reconf.pc = "taken"
    /\ \E missed \in SUBSET reconf.taken :
         Misses(reconf.taken, missed) /\ comp' = comp \ (reconf.taken \ missed)
    /\ astray' = astray \cup reconf.taken
    /\ reconf' = [pc |-> "released", taken |-> {}]
    /\ UNCHANGED <<pier, task, conn, backlog, serving, held, count>>

\* ... then the live set is write-locked ...
ReconfLock ==
    /\ reconf.pc = "released"
    /\ reconf' = [reconf EXCEPT !.pc = "locked"]
    /\ UNCHANGED <<pier, task, conn, backlog, serving, held, comp, astray, count, faults>>

\* ... until the transaction committed or was restored.
ReconfDone ==
    /\ reconf.pc = "locked"
    /\ reconf' = [reconf EXCEPT !.pc = "idle"]
    /\ UNCHANGED <<pier, task, conn, backlog, serving, held, comp, astray, count, faults>>

ReconfigureGoesOn == ReconfRelease \/ ReconfLock \/ ReconfDone
Reconfigure == ReconfTake \/ ReconfigureGoesOn

--------------------------------------------------------------------------------
Deliver(i) ==
    \/ Connect(i) \/ Opened(i) \/ OpenSuperseded(i) \/ OpenFails(i) \/ Backoff(i)
    \/ SendNext(i) \/ Replied(i) \/ Superseded(i) \/ Eof(i) \/ GiveUp(i)
    \/ Reconnecting(i) \/ Drained(i)

Next ==
    \/ \E k \in Keys : KeyEvent(k)
    \/ \E i \in Injectors : ResetHeld(i) \/ PushAt(i) \/ Drop(i) \/ Deliver(i)
    \/ Service \/ ReplyFails \/ Reconfigure

Spec == Init /\ [][Next]_vars

\* Every task of both processes goes on; nobody has to fail, type or leave.
DeliverGoesOn(i) ==
    \/ Opened(i) \/ OpenSuperseded(i) \/ Backoff(i) \/ SendNext(i) \/ Replied(i)
    \/ Superseded(i) \/ Eof(i) \/ Reconnecting(i) \/ Drained(i)
    \/ (task[i].next # 0 /\ Refused(i) /\ OpenFails(i))

--------------------------------------------------------------------------------

\* The injector's connection is the one served, and its plan is not stale.
Serves(i) ==
    /\ task[i].pc \in {"serve", "reply"} /\ ~plan[i].dropped
    /\ task[i].conn = serving.conn /\ plan[i].epoch = queue[i].epoch

\* What the planner believes held is what the compositor will hold once every
\* command on its way was injected: the comment of InjectionQueue, "the
\* planner's held-state mirror can never disagree with what was delivered".  A
\* key may only differ while its own last command is one the compositor failed,
\* or since a reconfiguration took it behind the mirror's back: no failure, full
\* queue, broken or superseded connection spoils another key, and the next edge
\* the compositor takes ends the difference.
MirrorAgrees ==
    \A i \in Injectors : Serves(i) =>
        plan[i].held \ astray
            = Replay(comp, conn[serving.conn].lines \o queue[i].pending \o plan[i].todo) \ astray

\* HeldInput's promise: "A connection that drops or is superseded [...]
\* releases everything still held, so the compositor never keeps a stuck key".
\* With no connection served, a key is down only when its own release failed or
\* a reconfiguration took it from what was held; any other press or release the
\* compositor failed is made good.
EndedHoldsNothing == serving.conn = 0 => comp \subseteq astray

\* A broken connection is not left reconnecting: it heals, or the loss is told.
Heals == \A i \in Injectors : (task[i].status = "reconnecting") ~> (task[i].status # "reconnecting")

================================================================================
