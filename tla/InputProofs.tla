----------------------------- MODULE InputProofs -----------------------------
(***************************************************************************)
(* That the planner's mirror of the pressed keys agrees with what the      *)
(* compositor will hold once every command on its way is delivered, and    *)
(* that an input service nobody is connected to holds no key: proofs about *)
(* WaylandInput.                                                           *)
(***************************************************************************)
EXTENDS WaylandInput, FiniteSetTheorems, TLAPS

\* The commands, the lines of a connection and the answers to them.
Keyed == [op : {"key"}, key : Keys, pressed : BOOLEAN]
Commands == Keyed \cup {ReleaseAll}
Lines == Seq(Commands \cup {Hello})
Replies == Seq({"ok", "refused", "superseded"})

\* The records of a connection, a delivery task, its queue and a planner.
ConnRecs == [owner : Injectors, lines : Lines, replies : Replies,
             expired : BOOLEAN, shut : BOOLEAN, over : BOOLEAN]
TaskRecs == [pc : {"idle", "open", "serve", "reply", "broken", "backoff", "reopen", "done"},
             conn : Nat, next : Nat, attempt : Nat, drain : BOOLEAN,
             status : {"none", "connected", "reconnecting", "closed", "superseded", "unreachable"}]
QueueRecs == [pending : Seq(Commands), epoch : Nat, accepting : BOOLEAN, closed : BOOLEAN]
PlanRecs == [held : SUBSET Keys, epoch : Nat, todo : Seq(Commands), dropped : BOOLEAN]

\* The types of the variables.
TypeOK ==
    /\ conn \in Seq(ConnRecs) /\ backlog \in Seq(Nat)
    /\ task \in [Injectors -> TaskRecs]
    /\ queue \in [Injectors -> QueueRecs]
    /\ plan \in [Injectors -> PlanRecs]
    /\ serving \in [conn : Nat, command : Commands \cup {Hello}]
    /\ held \in SUBSET Keys /\ comp \in SUBSET Keys

\* The task waits for an answer to its hello; the task delivers commands.
Opening(i) == task[i].pc \in {"open", "reopen"}
Serving(i) == task[i].pc \in {"serve", "reply"}

\* The backlog holds connections in the order they came, newer than the one
\* served, with nothing answered.
Backlogged ==
    /\ \A j \in DOMAIN backlog : /\ backlog[j] \in DOMAIN conn /\ serving.conn < backlog[j]
                                 /\ conn[backlog[j]].replies = <<>> /\ ~conn[backlog[j]].over
    /\ \A j, l \in DOMAIN backlog : j < l => backlog[j] < backlog[l]

\* The service injects the first command of the connection it serves.
Injecting ==
    /\ serving.conn # 0 => serving.conn \in DOMAIN conn /\ ~conn[serving.conn].over
    /\ ~Idle => /\ serving.conn # 0 /\ serving.command \in Keyed
                /\ conn[serving.conn].lines # <<>>
                /\ serving.command = Head(conn[serving.conn].lines)

\* The service knows whatever the compositor holds, but for the keys astray, and
\* with nobody served it has nothing to release.
Known ==
    /\ comp \subseteq held \cup astray
    /\ serving.conn = 0 => held = {}

\* The connections a task knows are its own.
Owns(i) == \A c \in {task[i].conn, task[i].next} : c # 0 => c \in DOMAIN conn /\ conn[c].owner = i

\* A task that waits for a hello's answer has a connection of its own on which
\* nothing else was sent; once it is served no key but an astray one is down.
Fresh(i) ==
    Opening(i) =>
        /\ task[i].next \in DOMAIN conn
        /\ conn[task[i].next].owner = i /\ ~conn[task[i].next].expired
        /\ conn[task[i].next].lines \in {<<>>, <<Hello>>}
        /\ conn[task[i].next].lines = <<Hello>> => conn[task[i].next].replies = <<>>
        /\ task[i].next = serving.conn => comp \subseteq astray

\* A task that delivers has a connection of its own that has left the backlog,
\* was not given up on and carries commands only.
Carrying(i) ==
    Serving(i) =>
        /\ task[i].conn \in DOMAIN conn
        /\ conn[task[i].conn].owner = i /\ ~conn[task[i].conn].expired
        /\ conn[task[i].conn].lines \in Seq(Commands)
        /\ \A j \in DOMAIN backlog : backlog[j] # task[i].conn

\* Whether the queue takes commands follows from where the task is.
Queueing(i) ==
    /\ plan[i].epoch <= queue[i].epoch
    /\ ~plan[i].dropped /\ task[i].pc # "done" =>
         /\ ~queue[i].closed
         /\ queue[i].accepting <=> task[i].pc \in {"idle", "open", "serve", "reply"}
    /\ task[i].pc \in {"idle", "open"} => plan[i].todo = <<>> /\ ~plan[i].dropped

\* The part of the plan that will still be pushed: none once the queue was interrupted.
Todo(i) == IF queue[i].epoch # plan[i].epoch THEN <<>> ELSE plan[i].todo

\* What the commands on their way make of the keys D.
Delivered(i, D) == Replay(Replay(Replay(D, conn[serving.conn].lines), queue[i].pending), Todo(i))

\* Two sets of keys that differ on keys astray only.
Alike(A, B, S) == A \ S = B \ S

\* The compositor's keys as commands that all succeed would have left them: they
\* differ from what it holds on keys astray only.
Intended(D) == D \in SUBSET Keys /\ Alike(D, comp, astray)

\* The mirror, as the planner's next call finds it, is what the commands on their
\* way make of the intended keys, also where a key is astray; no key while no
\* connection delivers.
Mirrors(i) ==
    ~plan[i].dropped /\ task[i].pc # "done" =>
        /\ ~Serving(i) => queue[i].pending = <<>> /\ Synced(i) = Replay({}, Todo(i))
        /\ Serving(i) /\ task[i].conn = serving.conn => \E D : Intended(D) /\ Synced(i) = Delivered(i, D)

\* The inductive invariant.
IInv ==
    /\ TypeOK /\ Backlogged /\ Injecting /\ Known
    /\ \A i \in Injectors : Owns(i) /\ Fresh(i) /\ Carrying(i) /\ Queueing(i) /\ Mirrors(i)

-----------------------------------------------------------------------------
(* What a replay does. *)

\* A command is a key's edge or the release of everything.
LEMMA CommandForms ==
  ASSUME NEW c \in Commands
  PROVE  \/ c = ReleaseAll /\ c.op = "release_all"
         \/ c \in Keyed /\ c.op = "key" /\ c.key \in Keys /\ c.pressed \in BOOLEAN /\ c = Key(c.key, c.pressed)
  BY DEF Commands, Keyed, ReleaseAll, Key

\* The fields of a key command.
LEMMA Pressing ==
  ASSUME NEW k \in Keys, NEW p \in BOOLEAN
  PROVE  /\ Key(k, p) \in Commands /\ Key(k, p).op = "key" /\ Key(k, p).key = k /\ Key(k, p).pressed = p
  BY DEF Key, Commands, Keyed

\* Replaying nothing changes nothing.
LEMMA ReplayNone ==
  ASSUME NEW has \in SUBSET Keys
  PROVE  Replay(has, <<>>) = has
  BY DEF Replay

\* A replay yields keys.
LEMMA ReplayKeys ==
  ASSUME NEW has, NEW s
  PROVE  Replay(has, s) \in SUBSET Keys
  BY Zenon DEF Replay

\* The commands that touch a key, and the ones that press it.
TouchedAt(s, k) == {j \in DOMAIN s : Touches(s[j], k)}
PressedAt(s, k) == {j \in DOMAIN s : s[j] = Key(k, TRUE)}

\* Some press has no later touch.
LastPressed(T, P) == \E j \in P : \A l \in T : ~(l > j)

\* A key is held after a replay when it was and nothing touches it, or when the last
\* touch presses it.
LEMMA ReplayHas ==
  ASSUME NEW has, NEW s, NEW k \in Keys, DOMAIN s \subseteq Nat
  PROVE  k \in Replay(has, s) <=>
           \/ k \in has /\ TouchedAt(s, k) = {}
           \/ LastPressed(TouchedAt(s, k), PressedAt(s, k))
<1>1. k \in Replay(has, s) <=>
           \/ k \in has /\ \A j \in DOMAIN s : ~Touches(s[j], k)
           \/ \E j \in DOMAIN s : /\ s[j] = Key(k, TRUE)
                                 /\ \A l \in DOMAIN s : l > j => ~Touches(s[l], k)
  BY ZenonT(60) DEF Replay
<1> QED
  BY ZenonT(60), <1>1 DEF TouchedAt, PressedAt, LastPressed

\* The same for index sets that grow by the last index.
LEMMA LastWins ==
  ASSUME NEW n \in Nat, NEW T \in SUBSET (1 .. n), NEW P \in SUBSET (1 .. n)
  PROVE  /\ LastPressed(T \cup {n + 1}, P \cup {n + 1})
         /\ ~LastPressed(T \cup {n + 1}, P)
  BY SMTT(60) DEF LastPressed

\* One more command is applied to what the others yield.
LEMMA ReplayAppend ==
  ASSUME NEW has \in SUBSET Keys, NEW s \in Seq(Commands), NEW c \in Commands
  PROVE  Replay(has, Append(s, c)) = Applied(Replay(has, s), c)
<1> DEFINE t == Append(s, c)
           n == Len(s)
<1>1. /\ DOMAIN t = 1 .. n + 1 /\ DOMAIN s = 1 .. n /\ n \in Nat
      /\ t[n + 1] = c /\ \A j \in 1 .. n : t[j] = s[j]
  OBVIOUS
<1> HIDE DEF t, n
<1>2. ASSUME NEW k \in Keys
      PROVE  k \in Replay(has, t) <=> (~Touches(c, k) /\ k \in Replay(has, s)) \/ c = Key(k, TRUE)
  <2>1. Key(k, TRUE).op = "key" /\ Key(k, TRUE).key = k
    BY Zenon, Pressing
  <2>2. c = Key(k, TRUE) => Touches(c, k)
    BY Zenon, <2>1 DEF Touches
  <2>3. DOMAIN t \subseteq Nat /\ DOMAIN s \subseteq Nat
    BY <1>1
  <2>4. TouchedAt(s, k) \in SUBSET (1 .. n) /\ PressedAt(s, k) \in SUBSET (1 .. n)
    BY Zenon, <1>1 DEF TouchedAt, PressedAt
  <2>5. \A j : j \in 1 .. n + 1 <=> j \in 1 .. n \/ j = n + 1
    BY <1>1
  <2>6. ASSUME NEW j
        PROVE  /\ j \in TouchedAt(t, k) <=> j \in TouchedAt(s, k) \/ (Touches(c, k) /\ j = n + 1)
               /\ j \in PressedAt(t, k) <=> j \in PressedAt(s, k) \/ (c = Key(k, TRUE) /\ j = n + 1)
    BY ZenonT(30), <1>1, <2>5 DEF TouchedAt, PressedAt
  <2>7. CASE c = Key(k, TRUE)
    <3>1. TouchedAt(t, k) = TouchedAt(s, k) \cup {n + 1} /\ PressedAt(t, k) = PressedAt(s, k) \cup {n + 1}
      BY Zenon, <2>2, <2>6, <2>7
    <3>2. LastPressed(TouchedAt(s, k) \cup {n + 1}, PressedAt(s, k) \cup {n + 1})
      BY Zenon, <1>1, <2>4, LastWins
    <3>3. LastPressed(TouchedAt(t, k), PressedAt(t, k))
      BY Zenon, <3>1, <3>2
    <3> QED
      BY Zenon, <2>3, <2>7, <3>3, ReplayHas
  <2>8. CASE c # Key(k, TRUE) /\ Touches(c, k)
    <3>1. TouchedAt(t, k) = TouchedAt(s, k) \cup {n + 1} /\ PressedAt(t, k) = PressedAt(s, k)
      BY Zenon, <2>6, <2>8
    <3>2. ~LastPressed(TouchedAt(s, k) \cup {n + 1}, PressedAt(s, k))
      BY Zenon, <1>1, <2>4, LastWins
    <3>3. ~LastPressed(TouchedAt(t, k), PressedAt(t, k)) /\ TouchedAt(t, k) # {}
      BY Zenon, <3>1, <3>2
    <3> QED
      BY Zenon, <2>3, <2>8, <3>3, ReplayHas
  <2>9. CASE c # Key(k, TRUE) /\ ~Touches(c, k)
    <3>1. TouchedAt(t, k) = TouchedAt(s, k) /\ PressedAt(t, k) = PressedAt(s, k)
      BY Zenon, <2>6, <2>9
    <3> QED
      BY Zenon, <2>3, <2>9, <3>1, ReplayHas
  <2> QED
    BY Zenon, <2>2, <2>7, <2>8, <2>9
<1>3. ASSUME NEW k \in Keys
      PROVE  k \in Applied(Replay(has, s), c) <=> (~Touches(c, k) /\ k \in Replay(has, s)) \/ c = Key(k, TRUE)
  <2>1. Key(k, TRUE).op = "key" /\ Key(k, TRUE).key = k /\ Key(k, TRUE).pressed = TRUE
    BY Zenon, Pressing
  <2>2. CASE c.op = "release_all"
    BY Zenon, <2>1, <2>2 DEF Applied, Touches
  <2>3. CASE c.op = "key" /\ c = Key(c.key, c.pressed) /\ c.pressed \in BOOLEAN
    <3>1. c.op # "release_all"
      BY <2>3
    <3>2. c = Key(k, TRUE) <=> c.key = k /\ c.pressed
      BY Zenon, <2>1, <2>3
    <3> QED
      BY Zenon, <3>1, <3>2 DEF Applied, Touches
  <2> QED
    BY Zenon, <2>2, <2>3, CommandForms
<1>4. Applied(Replay(has, s), c) \subseteq Keys
  BY CommandForms, ReplayKeys DEF Applied
<1> QED
  BY Zenon, <1>2, <1>3, <1>4, ReplayKeys DEF t

\* The indices T and P of a concatenation come from those of its two parts.
Shifted(m, n, T, P, T1, P1, T2, P2) ==
    /\ m \in Nat /\ n \in Nat /\ T \in SUBSET (1 .. m + n) /\ P \in SUBSET (1 .. m + n)
    /\ T1 \in SUBSET (1 .. m) /\ P1 \in SUBSET (1 .. m)
    /\ T2 \in SUBSET (1 .. n) /\ P2 \in SUBSET (1 .. n)
    /\ \A j \in 1 .. m : (j \in T <=> j \in T1) /\ (j \in P <=> j \in P1)
    /\ \A j \in 1 .. n : (m + j \in T <=> j \in T2) /\ (m + j \in P <=> j \in P2)

\* The last touch of a concatenation is the last of its second part that has one.
ShiftedLast(T, P, T1, P1, T2, P2) ==
    /\ T = {} <=> T1 = {} /\ T2 = {}
    /\ LastPressed(T, P) <=> LastPressed(T2, P2) \/ (T2 = {} /\ LastPressed(T1, P1))

\* Indices that come from two parts have their last touch there.
LEMMA Shift ==
  ASSUME NEW m, NEW n, NEW T, NEW P, NEW T1, NEW P1, NEW T2, NEW P2,
         Shifted(m, n, T, P, T1, P1, T2, P2)
  PROVE  ShiftedLast(T, P, T1, P1, T2, P2)
<1> USE DEF Shifted
<1>1. \A j \in 1 .. m + n : j \in 1 .. m \/ (j - m \in 1 .. n /\ m + (j - m) = j)
  OBVIOUS
<1>2. T = {} <=> T1 = {} /\ T2 = {}
  BY <1>1
<1>3. ASSUME NEW j \in P, \A l \in T : ~(l > j)
      PROVE  \/ \E i \in P2 : \A l \in T2 : ~(l > i)
             \/ T2 = {} /\ \E i \in P1 : \A l \in T1 : ~(l > i)
  <2>1. CASE j \in 1 .. m
    BY <1>3, <2>1
  <2>2. CASE j \notin 1 .. m
    <3>1. j - m \in P2 /\ j - m \in Nat
      BY <1>1, <2>2
    <3>2. \A l \in T2 : ~(l > j - m)
      BY <1>3, <3>1
    <3> QED
      BY <3>1, <3>2
  <2> QED
    BY <2>1, <2>2
<1>4. ASSUME NEW j \in P2, \A l \in T2 : ~(l > j)
      PROVE  m + j \in P /\ \A l \in T : ~(l > m + j)
  <2>1. ASSUME NEW l \in T  PROVE ~(l > m + j)
    <3>1. CASE l \in 1 .. m
      BY <3>1
    <3>2. CASE l \notin 1 .. m
      <4>1. l - m \in T2 /\ l - m \in Int
        BY <1>1, <3>2
      <4> QED
        BY <1>4, <4>1
    <3> QED
      BY <3>1, <3>2
  <2> QED
    BY <2>1
<1>5. ASSUME T2 = {}, NEW j \in P1, \A l \in T1 : ~(l > j)
      PROVE  j \in P /\ \A l \in T : ~(l > j)
  BY <1>1, <1>5
<1> QED
  BY Zenon, <1>2, <1>3, <1>4, <1>5 DEF LastPressed, ShiftedLast

\* Replaying a concatenation replays one part after the other.
LEMMA ReplayConcat ==
  ASSUME NEW has \in SUBSET Keys, NEW s \in Seq(Commands), NEW u \in Seq(Commands)
  PROVE  Replay(has, s \o u) = Replay(Replay(has, s), u)
<1> DEFINE t == s \o u
           m == Len(s)
           n == Len(u)
<1>1. /\ DOMAIN t = 1 .. m + n /\ DOMAIN s = 1 .. m /\ DOMAIN u = 1 .. n /\ n \in Nat /\ m \in Nat
      /\ \A j \in 1 .. m : t[j] = s[j]
      /\ \A j \in 1 .. n : t[m + j] = u[j]
  OBVIOUS
<1> HIDE DEF t, n, m
<1>2. ASSUME NEW k \in Keys
      PROVE  k \in Replay(has, t) <=> k \in Replay(Replay(has, s), u)
  <2>1. DOMAIN t \subseteq Nat /\ DOMAIN s \subseteq Nat /\ DOMAIN u \subseteq Nat
    BY <1>1
  <2>2. /\ TouchedAt(s, k) \in SUBSET (1 .. m) /\ PressedAt(s, k) \in SUBSET (1 .. m)
        /\ TouchedAt(u, k) \in SUBSET (1 .. n) /\ PressedAt(u, k) \in SUBSET (1 .. n)
        /\ TouchedAt(t, k) \in SUBSET (1 .. m + n) /\ PressedAt(t, k) \in SUBSET (1 .. m + n)
    BY Zenon, <1>1 DEF TouchedAt, PressedAt
  <2>3. (\A j \in 1 .. m : j \in 1 .. m + n) /\ (\A j \in 1 .. n : m + j \in 1 .. m + n)
    BY <1>1
  <2>4. /\ \A j \in 1 .. m : /\ j \in TouchedAt(t, k) <=> j \in TouchedAt(s, k)
                             /\ j \in PressedAt(t, k) <=> j \in PressedAt(s, k)
        /\ \A j \in 1 .. n : /\ m + j \in TouchedAt(t, k) <=> j \in TouchedAt(u, k)
                             /\ m + j \in PressedAt(t, k) <=> j \in PressedAt(u, k)
    BY ZenonT(30), <1>1, <2>3 DEF TouchedAt, PressedAt
  <2>5. ShiftedLast(TouchedAt(t, k), PressedAt(t, k), TouchedAt(s, k), PressedAt(s, k),
                    TouchedAt(u, k), PressedAt(u, k))
    <3>1. Shifted(m, n, TouchedAt(t, k), PressedAt(t, k), TouchedAt(s, k), PressedAt(s, k),
                  TouchedAt(u, k), PressedAt(u, k))
      BY Zenon, <1>1, <2>2, <2>4 DEF Shifted
    <3> QED
      BY Zenon, <3>1, Shift
  <2>6. k \in Replay(has, s) <=> \/ k \in has /\ TouchedAt(s, k) = {}
                               \/ LastPressed(TouchedAt(s, k), PressedAt(s, k))
    BY Zenon, <2>1, ReplayHas
  <2>7. k \in Replay(has, t) <=> \/ k \in has /\ TouchedAt(t, k) = {}
                               \/ LastPressed(TouchedAt(t, k), PressedAt(t, k))
    BY Zenon, <2>1, ReplayHas
  <2>8. k \in Replay(Replay(has, s), u) <=>
             \/ k \in Replay(has, s) /\ TouchedAt(u, k) = {}
             \/ LastPressed(TouchedAt(u, k), PressedAt(u, k))
    BY Zenon, <2>1, ReplayHas
  <2> QED
    BY Zenon, <2>5, <2>6, <2>7, <2>8 DEF ShiftedLast
<1>3. Replay(has, t) \subseteq Keys /\ Replay(Replay(has, s), u) \subseteq Keys
  BY Zenon, ReplayKeys
<1>4. Replay(has, t) = Replay(Replay(has, s), u)
  BY Zenon, <1>2, <1>3
<1> QED
  BY <1>4 DEF t

\* One command is applied.
LEMMA ReplayOne ==
  ASSUME NEW has \in SUBSET Keys, NEW c \in Commands
  PROVE  Replay(has, <<c>>) = Applied(has, c)
<1>1. <<>> \in Seq(Commands) /\ <<c>> = Append(<<>>, c)
  OBVIOUS
<1>2. Replay(has, Append(<<>>, c)) = Applied(Replay(has, <<>>), c)
  BY Zenon, <1>1, ReplayAppend
<1> QED
  BY Zenon, <1>1, <1>2, ReplayNone

\* A command applied to keys yields keys.
LEMMA AppliedKeys ==
  ASSUME NEW has \in SUBSET Keys, NEW c \in Commands
  PROVE  Applied(has, c) \in SUBSET Keys
  BY Zenon, CommandForms DEF Applied

\* The first command is applied, then the rest replayed.
LEMMA ReplayHead ==
  ASSUME NEW has \in SUBSET Keys, NEW s \in Seq(Commands), s # <<>>
  PROVE  Replay(has, s) = Replay(Applied(has, Head(s)), Tail(s))
<1>1. Head(s) \in Commands /\ Tail(s) \in Seq(Commands) /\ <<Head(s)>> \in Seq(Commands) /\ s = <<Head(s)>> \o Tail(s)
  OBVIOUS
<1> QED
  BY ZenonT(60), <1>1, ReplayConcat, ReplayOne

-----------------------------------------------------------------------------
(* What is left alone. *)

\* What a step of one delivery task may do to the rest.
TaskFrame(i) ==
    /\ UNCHANGED <<plan, serving, held, comp, astray>>
    /\ \A j \in Injectors : j # i => task'[j] = task[j] /\ queue'[j] = queue[j]
    /\ \A c \in DOMAIN conn :
          /\ c \in DOMAIN conn' /\ conn'[c].owner = conn[c].owner /\ conn'[c].over = conn[c].over
          /\ conn[c].owner # i => conn'[c] = conn[c]
          /\ conn[c].replies = <<>> => conn'[c].replies = <<>>
          /\ conn[c].lines # <<>> => conn'[c].lines # <<>> /\ Head(conn'[c].lines) = Head(conn[c].lines)
    /\ \/ backlog' = backlog
       \/ /\ backlog' = Append(backlog, Len(conn) + 1) /\ Len(conn) + 1 \in DOMAIN conn'
          /\ conn'[Len(conn) + 1].replies = <<>> /\ ~conn'[Len(conn) + 1].over

\* A delivery task's step leaves the other tasks alone, so its own part of the
\* invariant is all that is to be shown.
LEMMA TaskKeeps ==
  ASSUME IInv, TypeOK', NEW i \in Injectors, TaskFrame(i),
         Owns(i)', Fresh(i)', Carrying(i)', Queueing(i)', Mirrors(i)'
  PROVE  IInv'
<1>a. plan' = plan /\ serving' = serving /\ held' = held /\ comp' = comp /\ astray' = astray
  BY Zenon DEF TaskFrame
<1>b. \A j \in Injectors : j # i => task'[j] = task[j] /\ queue'[j] = queue[j]
  BY Zenon DEF TaskFrame
<1>c. \A c \in DOMAIN conn :
        /\ c \in DOMAIN conn' /\ conn'[c].owner = conn[c].owner /\ conn'[c].over = conn[c].over
        /\ conn[c].owner # i => conn'[c] = conn[c]
        /\ conn[c].replies = <<>> => conn'[c].replies = <<>>
        /\ conn[c].lines # <<>> => conn'[c].lines # <<>> /\ Head(conn'[c].lines) = Head(conn[c].lines)
  BY Zenon DEF TaskFrame
<1>1. /\ DOMAIN conn = 1 .. Len(conn) /\ Len(conn) \in Nat /\ serving.conn \in Nat
      /\ backlog \in Seq(Nat) /\ (serving.conn # 0 => serving.conn \in DOMAIN conn)
  BY DEF IInv, TypeOK, Injecting
<1>2. \A j \in DOMAIN backlog' :
        \/ j \in DOMAIN backlog /\ backlog'[j] = backlog[j]
        \/ /\ backlog'[j] = Len(conn) + 1 /\ Len(conn) + 1 \in DOMAIN conn' /\ j = Len(backlog) + 1
           /\ conn'[Len(conn) + 1].replies = <<>> /\ ~conn'[Len(conn) + 1].over
  <2>1. CASE backlog' = backlog
    BY Zenon, <2>1
  <2>2. CASE /\ backlog' = Append(backlog, Len(conn) + 1) /\ Len(conn) + 1 \in DOMAIN conn'
             /\ conn'[Len(conn) + 1].replies = <<>> /\ ~conn'[Len(conn) + 1].over
    <3>1. ASSUME NEW j \in DOMAIN backlog'
          PROVE  (j \in DOMAIN backlog /\ backlog'[j] = backlog[j])
                    \/ (j = Len(backlog) + 1 /\ backlog'[j] = Len(conn) + 1)
      BY <1>1, <2>2
    <3> QED
      BY Zenon, <2>2, <3>1
  <2> QED
    BY Zenon, <2>1, <2>2 DEF TaskFrame
<1>3. Backlogged'
  <2>1. \A j \in DOMAIN backlog : /\ backlog[j] \in DOMAIN conn /\ serving.conn < backlog[j]
                                 /\ conn[backlog[j]].replies = <<>> /\ ~conn[backlog[j]].over
    BY Zenon DEF IInv, Backlogged
  <2>2. \A j, l \in DOMAIN backlog : j < l => backlog[j] < backlog[l]
    BY Zenon DEF IInv, Backlogged
  <2>3. ASSUME NEW j \in DOMAIN backlog'
        PROVE  /\ backlog'[j] \in DOMAIN conn' /\ serving'.conn < backlog'[j]
               /\ conn'[backlog'[j]].replies = <<>> /\ ~conn'[backlog'[j]].over
    <3>1. serving.conn < Len(conn) + 1
      BY <1>1
    <3>2. CASE j \in DOMAIN backlog /\ backlog'[j] = backlog[j]
      BY Zenon, <1>a, <1>c, <2>1, <3>2
    <3> QED
      BY Zenon, <1>a, <1>2, <3>1, <3>2
  <2>4. ASSUME NEW j \in DOMAIN backlog', NEW l \in DOMAIN backlog', j < l
        PROVE  backlog'[j] < backlog'[l]
    <3>1. DOMAIN backlog = 1 .. Len(backlog) /\ Len(backlog) \in Nat
      BY <1>1
    <3>2. j \in DOMAIN backlog /\ backlog'[j] = backlog[j]
      BY <1>1, <1>2, <2>4, <3>1
    <3>3. backlog[j] < Len(conn) + 1
      BY <1>1, <2>1, <3>2
    <3> QED
      BY Zenon, <1>2, <2>2, <2>4, <3>2, <3>3
  <2> QED
    BY Zenon, <2>3, <2>4 DEF Backlogged
<1>4. Injecting'
  BY Zenon, <1>a, <1>c DEF IInv, Injecting, Idle
<1>5. Known'
  BY Zenon, <1>a DEF IInv, Known
<1>6. ASSUME NEW j \in Injectors, j # i
      PROVE  Owns(j)' /\ Fresh(j)' /\ Carrying(j)' /\ Queueing(j)' /\ Mirrors(j)'
  <2>1. Owns(j) /\ Fresh(j) /\ Carrying(j) /\ Queueing(j) /\ Mirrors(j)
    BY Zenon DEF IInv
  <2>2. task'[j] = task[j] /\ queue'[j] = queue[j] /\ plan' = plan /\ comp' = comp /\ serving' = serving
    BY Zenon, <1>6, <1>a, <1>b
  <2>3. Opening(j) => conn'[task[j].next] = conn[task[j].next] /\ task[j].next \in DOMAIN conn'
    <3>1. Opening(j) => task[j].next \in DOMAIN conn /\ conn[task[j].next].owner # i
      BY Zenon, <1>6, <2>1 DEF Fresh
    <3> QED
      BY Zenon, <1>c, <3>1
  <2>4. Serving(j) => conn'[task[j].conn] = conn[task[j].conn] /\ task[j].conn \in DOMAIN conn'
    <3>1. Serving(j) => task[j].conn \in DOMAIN conn /\ conn[task[j].conn].owner # i
      BY Zenon, <1>6, <2>1 DEF Carrying
    <3> QED
      BY Zenon, <1>c, <3>1
  <2>5. Fresh(j)'
    BY Zenon, <1>a, <2>1, <2>2, <2>3 DEF Fresh, Opening
  <2>6. Serving(j) => \A b \in DOMAIN backlog' : backlog'[b] # task[j].conn
    <3>1. Serving(j) => task[j].conn # Len(conn) + 1
      BY <1>1, <2>1 DEF Carrying
    <3> QED
      BY Zenon, <1>2, <2>1, <3>1 DEF Carrying
  <2>7. Carrying(j)'
    BY Zenon, <2>1, <2>2, <2>4, <2>6 DEF Carrying, Serving
  <2>8. Queueing(j)'
    BY Zenon, <2>1, <2>2 DEF Queueing
  <2>9. Mirrors(j)'
    <3>1. Synced(j)' = Synced(j) /\ Todo(j)' = Todo(j) /\ (Serving(j)' <=> Serving(j))
      BY Zenon, <2>2 DEF Synced, Todo, Serving
    <3>2. Serving(j) /\ task[j].conn = serving.conn => \A D : Delivered(j, D)' = Delivered(j, D)
      BY Zenon, <2>2, <2>4, <3>1 DEF Delivered
    <3>3. \A D : Intended(D)' <=> Intended(D)
      BY Zenon, <1>a DEF Intended
    <3> QED
      BY Zenon, <2>1, <2>2, <3>1, <3>2, <3>3 DEF Mirrors
  <2>10. Owns(j)'
    BY Zenon, <1>c, <2>1, <2>2 DEF Owns
  <2> QED
    BY Zenon, <2>5, <2>7, <2>8, <2>9, <2>10
<1> QED
  BY Zenon, <1>3, <1>4, <1>5, <1>6 DEF IInv

\* A planner's step touches its own plan and queue.
LEMMA PlanKeeps ==
  ASSUME IInv, TypeOK', NEW i \in Injectors, UNCHANGED <<task, conn, agent>>,
         \A j \in Injectors : j # i => plan'[j] = plan[j] /\ queue'[j] = queue[j],
         Queueing(i)', Mirrors(i)'
  PROVE  IInv'
<1>1. /\ task' = task /\ conn' = conn /\ backlog' = backlog /\ serving' = serving
      /\ held' = held /\ comp' = comp /\ astray' = astray
  BY Zenon DEF agent
<1>2. Backlogged' /\ Injecting' /\ Known'
  BY Zenon, <1>1 DEF IInv, Backlogged, Injecting, Idle, Known
<1>3. ASSUME NEW j \in Injectors  PROVE Owns(j)' /\ Fresh(j)' /\ Carrying(j)'
  <2>1. Owns(j) /\ Fresh(j) /\ Carrying(j)
    BY Zenon DEF IInv
  <2>2. Fresh(j)'
    BY Zenon, <1>1, <2>1 DEF Fresh, Opening
  <2>3. Carrying(j)'
    BY Zenon, <1>1, <2>1 DEF Carrying, Serving
  <2>4. Owns(j)'
    BY Zenon, <1>1, <2>1 DEF Owns
  <2> QED
    BY Zenon, <2>2, <2>3, <2>4
<1>4. ASSUME NEW j \in Injectors, j # i  PROVE Queueing(j)' /\ Mirrors(j)'
  <2>1. plan'[j] = plan[j] /\ queue'[j] = queue[j] /\ Queueing(j) /\ Mirrors(j)
    BY Zenon, <1>4 DEF IInv
  <2>2. Queueing(j)'
    BY Zenon, <1>1, <2>1 DEF Queueing
  <2>3. Synced(j)' = Synced(j) /\ Todo(j)' = Todo(j) /\ (Serving(j)' <=> Serving(j))
    BY Zenon, <1>1, <2>1 DEF Synced, Todo, Serving
  <2>4. \A D : Delivered(j, D)' = Delivered(j, D) /\ (Intended(D)' <=> Intended(D))
    BY Zenon, <1>1, <2>1, <2>3 DEF Delivered, Intended
  <2> QED
    BY Zenon, <1>1, <2>1, <2>2, <2>3, <2>4 DEF Mirrors
<1> QED
  BY Zenon, <1>2, <1>3, <1>4 DEF IInv

-----------------------------------------------------------------------------
(* The records. *)

\* One entry of a function is replaced.
LEMMA Edit ==
  ASSUME NEW S, NEW D, NEW f \in [D -> S], NEW i \in D, NEW r \in S, NEW g, g = [f EXCEPT ![i] = r]
  PROVE  g \in [D -> S] /\ g[i] = r /\ \A j \in D : j # i => g[j] = f[j]
  OBVIOUS

\* One of the connections is replaced.
LEMMA ConnEdit ==
  ASSUME NEW cs \in Seq(ConnRecs), NEW c \in DOMAIN cs, NEW r \in ConnRecs, NEW d, d = [cs EXCEPT ![c] = r]
  PROVE  /\ d \in Seq(ConnRecs) /\ DOMAIN d = DOMAIN cs /\ Len(d) = Len(cs) /\ d[c] = r
         /\ \A b \in DOMAIN cs : b # c => d[b] = cs[b]
  OBVIOUS

\* A task that ends.
LEMMA TaskDone ==
  ASSUME NEW r \in TaskRecs, NEW st \in {"closed", "superseded", "unreachable"},
         NEW s, s = [r EXCEPT !.pc = "done", !.status = st]
  PROVE  s \in TaskRecs /\ s.pc = "done" /\ s.conn = r.conn /\ s.next = r.next
  BY Zenon DEF TaskRecs

\* Only the shut and expired flags of one task's connections may change.
Quiet(ds, cs, i) ==
    /\ ds \in Seq(ConnRecs) /\ DOMAIN ds = DOMAIN cs
    /\ \A c \in DOMAIN cs :
          /\ ds[c].owner = cs[c].owner /\ ds[c].over = cs[c].over
          /\ ds[c].lines = cs[c].lines /\ ds[c].replies = cs[c].replies
          /\ cs[c].owner # i => ds[c] = cs[c]

\* One quiet change after another is quiet.
LEMMA QuietAgain ==
  ASSUME NEW i, NEW cs, NEW ds, NEW es, Quiet(ds, cs, i), Quiet(es, ds, i)
  PROVE  Quiet(es, cs, i)
<1>1. es \in Seq(ConnRecs) /\ DOMAIN es = DOMAIN cs
  BY Zenon DEF Quiet
<1>2. ASSUME NEW c \in DOMAIN cs
      PROVE  /\ es[c].owner = cs[c].owner /\ es[c].over = cs[c].over
             /\ es[c].lines = cs[c].lines /\ es[c].replies = cs[c].replies
             /\ cs[c].owner # i => es[c] = cs[c]
  <2>1. /\ ds[c].owner = cs[c].owner /\ ds[c].over = cs[c].over
        /\ ds[c].lines = cs[c].lines /\ ds[c].replies = cs[c].replies
        /\ cs[c].owner # i => ds[c] = cs[c] 
        /\ c \in DOMAIN ds
    BY Zenon DEF Quiet
  <2>2. /\ es[c].owner = ds[c].owner /\ es[c].over = ds[c].over
        /\ es[c].lines = ds[c].lines /\ es[c].replies = ds[c].replies
        /\ ds[c].owner # i => es[c] = ds[c]
    BY Zenon, <2>1 DEF Quiet
  <2> QED
    BY Zenon, <2>1, <2>2
<1> QED
  BY Zenon, <1>1, <1>2 DEF Quiet

\* A connection replaced by one that differs in those flags.
LEMMA QuietEdit ==
  ASSUME NEW cs \in Seq(ConnRecs), NEW c \in DOMAIN cs, NEW r \in ConnRecs,
         r.owner = cs[c].owner, r.over = cs[c].over, r.lines = cs[c].lines, r.replies = cs[c].replies
  PROVE  Quiet([cs EXCEPT ![c] = r], cs, cs[c].owner)
<1>1. PICK d : d = [cs EXCEPT ![c] = r]
  BY Zenon
<1>2. d \in Seq(ConnRecs) /\ DOMAIN d = DOMAIN cs /\ d[c] = r /\ \A b \in DOMAIN cs : b # c => d[b] = cs[b]
  BY Zenon, <1>1, ConnEdit
<1>3. ASSUME NEW b \in DOMAIN cs
      PROVE  /\ d[b].owner = cs[b].owner /\ d[b].over = cs[b].over
             /\ d[b].lines = cs[b].lines /\ d[b].replies = cs[b].replies
             /\ cs[b].owner # cs[c].owner => d[b] = cs[b]
  BY Zenon, <1>2
<1> QED
  BY Zenon, <1>1, <1>2, <1>3 DEF Quiet

\* Closing a connection says so and no more.
LEMMA Closes ==
  ASSUME NEW cs \in Seq(ConnRecs), NEW c, NEW i, c # 0 => c \in DOMAIN cs /\ cs[c].owner = i
  PROVE  Quiet(Close(cs, c), cs, i)
<1>1. CASE c = 0
  BY Zenon, <1>1 DEF Close, Quiet
<1>2. CASE c # 0
  <2>1. c \in DOMAIN cs /\ cs[c] \in ConnRecs
    BY <1>2
  <2>2. PICK r : r = [cs[c] EXCEPT !.shut = TRUE]
    BY Zenon
  <2>3. /\ r \in ConnRecs /\ r.owner = cs[c].owner /\ r.over = cs[c].over /\ r.lines = cs[c].lines
        /\ r.replies = cs[c].replies
    BY Zenon, <2>1, <2>2 DEF ConnRecs
  <2>4. Close(cs, c) = [cs EXCEPT ![c] = r]
    BY Zenon, <1>2, <2>2 DEF Close
  <2> QED
    BY Zenon, <1>2, <2>1, <2>3, <2>4, QuietEdit
<1> QED
  BY Zenon, <1>1, <1>2

\* A quiet step's frame.
LEMMA QuietFrame ==
  ASSUME NEW i \in Injectors, Quiet(conn', conn, i), UNCHANGED <<plan, agent>>,
         \A j \in Injectors : j # i => task'[j] = task[j] /\ queue'[j] = queue[j]
  PROVE  TaskFrame(i)
  BY Zenon DEF TaskFrame, Quiet, agent

\* The connections a task closes are its own.
LEMMA OwnClosed ==
  ASSUME IInv, NEW i \in Injectors
  PROVE  Quiet(Close(Close(conn, task[i].conn), task[i].next), conn, i)
<1>1. /\ conn \in Seq(ConnRecs)
      /\ task[i].conn # 0 => task[i].conn \in DOMAIN conn /\ conn[task[i].conn].owner = i
      /\ task[i].next # 0 => task[i].next \in DOMAIN conn /\ conn[task[i].next].owner = i
  BY Zenon DEF IInv, TypeOK, Owns
<1>2. PICK d : d = Close(conn, task[i].conn)
  BY Zenon
<1>3. Quiet(d, conn, i)
  BY Zenon, <1>1, <1>2, Closes
<1>4. d \in Seq(ConnRecs) /\ (task[i].next # 0 => task[i].next \in DOMAIN d /\ d[task[i].next].owner = i)
  BY Zenon, <1>1, <1>3 DEF Quiet
<1>5. Quiet(Close(d, task[i].next), d, i)
  BY Zenon, <1>4, Closes
<1> QED
  BY Zenon, <1>2, <1>3, <1>5, QuietAgain

-----------------------------------------------------------------------------
(* The delivery task's steps. *)

\* A step that ends the delivery.
LEMMA DoneKeeps ==
  ASSUME IInv, NEW i \in Injectors, NEW t \in TaskRecs, NEW q \in QueueRecs,
         task' = [task EXCEPT ![i] = t], queue' = [queue EXCEPT ![i] = q],
         t.pc = "done", t.conn = task[i].conn, t.next = task[i].next, queue[i].epoch <= q.epoch,
         Quiet(conn', conn, i), UNCHANGED <<plan, agent>>
  PROVE  IInv'
<1>1. /\ task' \in [Injectors -> TaskRecs] /\ task'[i] = t
      /\ \A j \in Injectors : j # i => task'[j] = task[j]
  BY Zenon, Edit DEF IInv, TypeOK
<1>2. /\ queue' \in [Injectors -> QueueRecs] /\ queue'[i] = q
      /\ \A j \in Injectors : j # i => queue'[j] = queue[j]
  BY Zenon, Edit DEF IInv, TypeOK
<1>3. conn' \in Seq(ConnRecs)
  BY Zenon DEF Quiet
<1>4. TypeOK'
  BY Zenon, <1>1, <1>2, <1>3 DEF IInv, TypeOK, agent
<1>5. TaskFrame(i)
  BY Zenon, <1>1, <1>2, QuietFrame
<1>6. Owns(i)'
  <2>1. \A c \in {task[i].conn, task[i].next} : c # 0 => c \in DOMAIN conn /\ conn[c].owner = i
    BY Zenon DEF IInv, Owns
  <2>2. \A c \in DOMAIN conn : c \in DOMAIN conn' /\ conn'[c].owner = conn[c].owner
    BY Zenon DEF Quiet
  <2>3. task'[i].conn \in {task[i].conn} /\ task'[i].next \in {0, task[i].next}
    BY Zenon, <1>1
  <2> QED
    BY ZenonT(60), <2>1, <2>2, <2>3 DEF Owns
<1>7. Fresh(i)' /\ Carrying(i)' /\ Mirrors(i)'
  BY Zenon, <1>1 DEF Fresh, Carrying, Mirrors, Opening, Serving
<1>8. Queueing(i)'
  <2>1. plan'[i].epoch <= q.epoch
    BY DEF IInv, TypeOK, Queueing, PlanRecs, QueueRecs
  <2> QED
    BY Zenon, <1>1, <1>2, <2>1 DEF Queueing
<1> QED
  BY Zenon, <1>4, <1>5, <1>6, <1>7, <1>8, TaskKeeps

\* A step that leaves the delivery without a connection.
LEMMA AwayKeeps ==
  ASSUME IInv, NEW i \in Injectors, NEW t \in TaskRecs, NEW q \in QueueRecs,
         task' = [task EXCEPT ![i] = t], queue' = [queue EXCEPT ![i] = q],
         t.pc \in {"broken", "backoff"}, t.conn = task[i].conn, t.next \in {0, task[i].next},
         \/ q = queue[i] /\ task[i].pc \in {"broken", "backoff", "reopen"}
         \/ /\ q.pending = <<>> /\ ~q.accepting /\ q.closed = queue[i].closed
            /\ q.epoch = queue[i].epoch + 1 /\ task[i].pc # "done",
         Quiet(conn', conn, i), UNCHANGED <<plan, agent>>
  PROVE  IInv'
<1>1. /\ task' \in [Injectors -> TaskRecs] /\ task'[i] = t
      /\ \A j \in Injectors : j # i => task'[j] = task[j]
  BY Zenon, Edit DEF IInv, TypeOK
<1>2. /\ queue' \in [Injectors -> QueueRecs] /\ queue'[i] = q
      /\ \A j \in Injectors : j # i => queue'[j] = queue[j]
  BY Zenon, Edit DEF IInv, TypeOK
<1>3. conn' \in Seq(ConnRecs)
  BY Zenon DEF Quiet
<1>4. TypeOK'
  BY Zenon, <1>1, <1>2, <1>3 DEF IInv, TypeOK, agent
<1>5. TaskFrame(i)
  BY Zenon, <1>1, <1>2, QuietFrame
<1>6. Owns(i)'
  <2>1. \A c \in {task[i].conn, task[i].next} : c # 0 => c \in DOMAIN conn /\ conn[c].owner = i
    BY Zenon DEF IInv, Owns
  <2>2. \A c \in DOMAIN conn : c \in DOMAIN conn' /\ conn'[c].owner = conn[c].owner
    BY Zenon DEF Quiet
  <2>3. task'[i].conn \in {task[i].conn} /\ task'[i].next \in {0, task[i].next}
    BY Zenon, <1>1
  <2> QED
    BY ZenonT(60), <2>1, <2>2, <2>3 DEF Owns
<1>7. Fresh(i)' /\ Carrying(i)'
  BY Zenon, <1>1 DEF Fresh, Carrying, Opening, Serving
<1>8. Queueing(i) /\ Mirrors(i) /\ plan' = plan
  BY Zenon DEF IInv
<1>9. CASE q = queue[i] /\ task[i].pc \in {"broken", "backoff", "reopen"}
  <2>1. Queueing(i)'
    BY Zenon, <1>1, <1>2, <1>8, <1>9 DEF Queueing
  <2>2. Synced(i)' = Synced(i) /\ Todo(i)' = Todo(i) /\ ~Serving(i) /\ ~Serving(i)'
    BY Zenon, <1>1, <1>2, <1>8, <1>9 DEF Synced, Todo, Serving
  <2>3. Mirrors(i)'
    BY Zenon, <1>1, <1>2, <1>8, <1>9, <2>2 DEF Mirrors
  <2> QED
    BY Zenon, <1>4, <1>5, <1>6, <1>7, <2>1, <2>3, TaskKeeps
<1>10. CASE /\ q.pending = <<>> /\ ~q.accepting /\ q.closed = queue[i].closed
            /\ q.epoch = queue[i].epoch + 1 /\ task[i].pc # "done"
  <2>1. plan[i].epoch <= q.epoch /\ q.epoch # plan[i].epoch
    BY SMTT(60), <1>8, <1>10 DEF IInv, TypeOK, Queueing, PlanRecs, QueueRecs
  <2>2. Queueing(i)'
    BY Zenon, <1>1, <1>2, <1>8, <1>10, <2>1 DEF Queueing
  <2>3. Synced(i)' = {} /\ Todo(i)' = <<>> /\ ~Serving(i)'
    BY Zenon, <1>1, <1>2, <1>8, <2>1 DEF Synced, Todo, Serving
  <2>4. Replay({}, <<>>) = {}
    BY ReplayNone
  <2>5. Mirrors(i)'
    BY Zenon, <1>1, <1>2, <1>10, <2>3, <2>4 DEF Mirrors
  <2> QED
    BY Zenon, <1>4, <1>5, <1>6, <1>7, <2>2, <2>5, TaskKeeps
<1> QED
  BY Zenon, <1>9, <1>10

\* The types of one task's records.
LEMMA Typed ==
  ASSUME IInv, NEW i \in Injectors
  PROVE  /\ task[i] \in TaskRecs /\ queue[i] \in QueueRecs /\ plan[i] \in PlanRecs
         /\ conn \in Seq(ConnRecs) /\ queue[i].epoch \in Nat
  BY DEF IInv, TypeOK, QueueRecs

\* A queue left alone is replaced by itself.
LEMMA Unqueued ==
  ASSUME IInv, NEW i \in Injectors, queue' = queue
  PROVE  queue' = [queue EXCEPT ![i] = queue[i]]
  BY Zenon DEF IInv, TypeOK

\* What closing and interrupting a queue do.
LEMMA QueueShut ==
  ASSUME NEW r \in QueueRecs
  PROVE  Shut(r) \in QueueRecs /\ Shut(r).epoch = r.epoch
  BY Zenon DEF QueueRecs, Shut

\* An interrupted queue is empty, refuses, and is of the next epoch.
LEMMA QueueInterrupted ==
  ASSUME NEW r \in QueueRecs, NEW q, q = Interrupted(r)
  PROVE  /\ q \in QueueRecs /\ q.epoch = r.epoch + 1 /\ q.pending = <<>>
         /\ ~q.accepting /\ q.closed = r.closed /\ r.epoch <= q.epoch
<1>1. r.epoch \in Nat /\ r.epoch + 1 \in Nat /\ r.epoch <= r.epoch + 1 /\ <<>> \in Seq(Commands)
  BY DEF QueueRecs
<1>2. PICK e : e = r.epoch + 1
  BY Zenon
<1>3. q = [r EXCEPT !.pending = <<>>, !.accepting = FALSE, !.epoch = e]
  BY Zenon, <1>2 DEF Interrupted
<1> QED
  BY Zenon, <1>1, <1>2, <1>3 DEF QueueRecs

\* The end of a delivery.
LEMMA EndsKeeps ==
  ASSUME IInv, NEW i \in Injectors, NEW st \in {"closed", "superseded", "unreachable"}, Ends(i, st),
         NEW q \in QueueRecs, queue' = [queue EXCEPT ![i] = q], queue[i].epoch <= q.epoch,
         UNCHANGED <<plan, agent>>
  PROVE  IInv'
<1>1. PICK t : t = [task[i] EXCEPT !.pc = "done", !.status = st]
  BY Zenon
<1>2. t \in TaskRecs /\ t.pc = "done" /\ t.conn = task[i].conn /\ t.next = task[i].next
  <2>1. task[i] \in TaskRecs
    BY Zenon, Typed
  <2> QED
    BY ZenonT(60), <1>1, <2>1, TaskDone
<1>3. task' = [task EXCEPT ![i] = t]
  BY Zenon, <1>1 DEF Ends
<1>4. Quiet(conn', conn, i)
  BY Zenon, OwnClosed DEF Ends
<1> QED
  BY Zenon, <1>2, <1>3, <1>4, DoneKeeps

\* Opened on a closed queue.
LEMMA OpenedClosed ==
  ASSUME IInv, NEW i \in Injectors, Opened(i), queue[i].closed
  PROVE  IInv'
<1>1. Ends(i, "closed") /\ queue' = queue /\ UNCHANGED <<plan, agent>>
  BY Zenon DEF Opened
<1>2. queue' = [queue EXCEPT ![i] = queue[i]] /\ queue[i] \in QueueRecs /\ queue[i].epoch <= queue[i].epoch
  <2>1. queue[i].epoch <= queue[i].epoch
    BY Typed
  <2> QED
    BY Zenon, <1>1, <2>1, Unqueued, Typed
<1> QED
  BY Zenon, <1>1, <1>2, EndsKeeps

\* OpenSuperseded.
LEMMA OpenSupersededKeeps ==
  ASSUME IInv, NEW i \in Injectors, OpenSuperseded(i)
  PROVE  IInv'
<1>1. PICK st \in {"closed", "superseded", "unreachable"} : Ends(i, st)
  BY Zenon DEF OpenSuperseded
<1>2. queue' = [queue EXCEPT ![i] = Shut(queue[i])] /\ UNCHANGED <<plan, agent>>
  BY Zenon DEF OpenSuperseded
<1>3. Shut(queue[i]) \in QueueRecs /\ queue[i].epoch <= Shut(queue[i]).epoch
  <2>1. queue[i].epoch <= queue[i].epoch
    BY Typed
  <2> QED
    BY Zenon, <2>1, QueueShut, Typed
<1> QED
  BY Zenon, <1>1, <1>2, <1>3, EndsKeeps

\* OpenFails.
LEMMA OpenFailsKeeps ==
  ASSUME IInv, NEW i \in Injectors, OpenFails(i)
  PROVE  IInv'
<1>2. UNCHANGED <<plan, agent>>
  BY Zenon DEF OpenFails
<1>3. queue[i].epoch <= queue[i].epoch
  BY Typed
<1>4. CASE task[i].pc = "reopen" /\ task[i].attempt < MaxAttempts
  <2>1. /\ task' = [task EXCEPT ![i].pc = "backoff", ![i].next = 0] /\ queue' = queue
        /\ conn' = [conn EXCEPT ![task[i].next].shut = TRUE, ![task[i].next].expired = TRUE]
    BY Zenon, <1>4 DEF OpenFails
  <2>2. PICK t : t = [task[i] EXCEPT !.pc = "backoff", !.next = 0]
    BY Zenon
  <2>3. t \in TaskRecs /\ t.pc = "backoff" /\ t.conn = task[i].conn /\ t.next = 0
    <3>1. task[i] \in TaskRecs /\ 0 \in Nat
      BY Typed
    <3> QED
      BY Zenon, <2>2, <3>1 DEF TaskRecs
  <2>4. task' = [task EXCEPT ![i] = t]
    BY Zenon, <2>1, <2>2
  <2>5. task[i].next \in DOMAIN conn /\ conn[task[i].next].owner = i
    BY Zenon, <1>4 DEF IInv, Fresh, Opening
  <2>6. PICK r : r = [conn[task[i].next] EXCEPT !.shut = TRUE, !.expired = TRUE]
    BY Zenon
  <2>7. /\ r \in ConnRecs /\ r.owner = conn[task[i].next].owner /\ r.over = conn[task[i].next].over
        /\ r.lines = conn[task[i].next].lines /\ r.replies = conn[task[i].next].replies
    <3>1. conn[task[i].next] \in ConnRecs
      BY <2>5, Typed
    <3> QED
      BY Zenon, <2>6, <3>1 DEF ConnRecs
  <2>8. Quiet(conn', conn, i)
    <3>1. conn' = [conn EXCEPT ![task[i].next] = r]
      BY Zenon, <2>1, <2>6
    <3> QED
      BY Zenon, <2>5, <2>7, <3>1, QuietEdit, Typed
  <2>9. queue' = [queue EXCEPT ![i] = queue[i]] /\ queue[i] \in QueueRecs
    BY Zenon, <2>1, Unqueued, Typed
  <2> QED
    BY Zenon, <1>2, <1>4, <2>3, <2>4, <2>8, <2>9, AwayKeeps
<1>5. CASE ~(task[i].pc = "reopen" /\ task[i].attempt < MaxAttempts)
  <2>1. PICK st \in {"closed", "superseded", "unreachable"} : Ends(i, st)
    BY Zenon, <1>5 DEF OpenFails
  <2>2. queue' = [queue EXCEPT ![i] = Shut(queue[i])]
    BY Zenon, <1>5 DEF OpenFails
  <2>3. Shut(queue[i]) \in QueueRecs /\ queue[i].epoch <= Shut(queue[i]).epoch
    BY Zenon, <1>3, QueueShut, Typed
  <2> QED
    BY Zenon, <1>2, <2>1, <2>2, <2>3, EndsKeeps
<1> QED
  BY Zenon, <1>4, <1>5

\* A new connection is the last one, and waits.
LEMMA NewConn ==
  ASSUME IInv, NEW i \in Injectors, Connects(i), NEW n, n = Len(conn) + 1
  PROVE  /\ conn' \in Seq(ConnRecs) /\ backlog' \in Seq(Nat) /\ n \in Nat /\ n # 0 /\ n \in DOMAIN conn'
         /\ n \notin DOMAIN conn
         /\ conn'[n].owner = i /\ conn'[n].lines = <<Hello>> /\ conn'[n].replies = <<>>
         /\ ~conn'[n].expired /\ ~conn'[n].over
         /\ \A c \in DOMAIN conn : c \in DOMAIN conn' /\ conn'[c] = conn[c]
         /\ backlog' = Append(backlog, n) /\ serving' = serving /\ held' = held /\ comp' = comp /\ astray' = astray
<1>1. conn \in Seq(ConnRecs) /\ backlog \in Seq(Nat)
  BY Zenon DEF IInv, TypeOK
<1>2. PICK r : r = [owner |-> i, lines |-> <<Hello>>, replies |-> <<>>,
                    expired |-> FALSE, shut |-> FALSE, over |-> FALSE]
  BY Zenon
<1>3. /\ r.owner = i /\ r.lines = <<Hello>> /\ r.replies = <<>> /\ ~r.expired /\ ~r.over
  BY Zenon, <1>2
<1>4. r \in ConnRecs
  <2>1. <<Hello>> \in Lines /\ <<>> \in Replies
    BY DEF Lines, Replies
  <2> QED
    BY Zenon, <1>2, <2>1 DEF ConnRecs
<1>5. /\ conn' = Append(conn, r) /\ backlog' = Append(backlog, n)
      /\ serving' = serving /\ held' = held /\ comp' = comp /\ astray' = astray
  BY Zenon, <1>2 DEF Connects
<1>6. \A cs \in Seq(ConnRecs) : \A x \in ConnRecs :
         LET ds == Append(cs, x)  m == Len(cs) + 1
         IN  /\ ds \in Seq(ConnRecs) /\ m \in Nat /\ m # 0 /\ m \in DOMAIN ds /\ m \notin DOMAIN cs /\ ds[m] = x
             /\ \A c \in DOMAIN cs : c \in DOMAIN ds /\ ds[c] = cs[c]
  OBVIOUS
<1>7. /\ conn' \in Seq(ConnRecs) /\ n \in Nat /\ n # 0 /\ n \in DOMAIN conn' /\ n \notin DOMAIN conn
      /\ conn'[n] = r /\ \A c \in DOMAIN conn : c \in DOMAIN conn' /\ conn'[c] = conn[c]
  <2>1. LET ds == Append(conn, r)  m == Len(conn) + 1
        IN  /\ ds \in Seq(ConnRecs) /\ m \in Nat /\ m # 0 /\ m \in DOMAIN ds /\ m \notin DOMAIN conn /\ ds[m] = r
            /\ \A c \in DOMAIN conn : c \in DOMAIN ds /\ ds[c] = conn[c]
    BY Zenon, <1>1, <1>4, <1>6
  <2>2. conn' = Append(conn, r) /\ n = Len(conn) + 1
    BY Zenon, <1>5
  <2> QED
    BY Zenon, <2>1, <2>2
<1>8. backlog' \in Seq(Nat)
  BY <1>1, <1>5, <1>7
<1> QED
  BY Zenon, <1>3, <1>5, <1>7, <1>8

\* A delivery task connects.
LEMMA ConnectsKeeps ==
  ASSUME IInv, NEW i \in Injectors, Connects(i), NEW t \in TaskRecs,
         task' = [task EXCEPT ![i] = t], t.next = Len(conn) + 1, t.conn = task[i].conn,
         \/ task[i].pc = "idle" /\ t.pc = "open"
         \/ task[i].pc = "backoff" /\ t.pc = "reopen",
         UNCHANGED <<plan, queue>>
  PROVE  IInv'
<1>1. /\ task' \in [Injectors -> TaskRecs] /\ task'[i] = t
      /\ \A j \in Injectors : j # i => task'[j] = task[j]
  BY Zenon, Edit DEF IInv, TypeOK
<1>2. PICK n : n = Len(conn) + 1
  BY Zenon
<1>3. /\ conn' \in Seq(ConnRecs) /\ backlog' \in Seq(Nat) /\ n \in Nat /\ n # 0 /\ n \in DOMAIN conn'
      /\ n \notin DOMAIN conn
      /\ conn'[n].owner = i /\ conn'[n].lines = <<Hello>> /\ conn'[n].replies = <<>>
      /\ ~conn'[n].expired /\ ~conn'[n].over
      /\ \A c \in DOMAIN conn : c \in DOMAIN conn' /\ conn'[c] = conn[c]
      /\ backlog' = Append(backlog, n) /\ serving' = serving /\ held' = held /\ comp' = comp /\ astray' = astray
  BY Zenon, <1>2, NewConn
<1>4. TypeOK'
  BY Zenon, <1>1, <1>3 DEF IInv, TypeOK
<1>5. TaskFrame(i)
  <2>1. \A c \in DOMAIN conn :
          /\ c \in DOMAIN conn' /\ conn'[c].owner = conn[c].owner /\ conn'[c].over = conn[c].over
          /\ conn[c].owner # i => conn'[c] = conn[c]
          /\ conn[c].replies = <<>> => conn'[c].replies = <<>>
          /\ conn[c].lines # <<>> => conn'[c].lines # <<>> /\ Head(conn'[c].lines) = Head(conn[c].lines)
    BY Zenon, <1>3
  <2> QED
    BY Zenon, <1>1, <1>2, <1>3, <2>1 DEF TaskFrame
<1>6. t.next = n /\ n # serving.conn
  <2>1. serving.conn # 0 => serving.conn \in DOMAIN conn
    BY Zenon DEF IInv, Injecting
  <2> QED
    BY Zenon, <1>2, <1>3, <2>1
<1>7. Owns(i)'
  <2>1. task[i].conn # 0 => task[i].conn \in DOMAIN conn /\ conn[task[i].conn].owner = i
    BY Zenon DEF IInv, Owns
  <2>2. task'[i].conn = task[i].conn /\ task'[i].next = n
    BY Zenon, <1>1, <1>6
  <2>3. task'[i].conn # 0 => task'[i].conn \in DOMAIN conn' /\ conn'[task'[i].conn].owner = i
    BY Zenon, <1>3, <2>1, <2>2
  <2> QED
    BY Zenon, <1>3, <2>2, <2>3 DEF Owns
<1>8. Fresh(i)'
  BY Zenon, <1>1, <1>3, <1>6 DEF Fresh
<1>9. Carrying(i)' /\ ~Serving(i) /\ ~Serving(i)'
  BY Zenon, <1>1 DEF Carrying, Serving
<1>10. Queueing(i) /\ Mirrors(i)
  BY Zenon DEF IInv
<1>11. Queueing(i)'
  BY Zenon, <1>1, <1>10 DEF Queueing
<1>12. Mirrors(i)'
  <2>1. Synced(i)' = Synced(i) /\ Todo(i)' = Todo(i) /\ task[i].pc # "done"
    BY Zenon DEF Synced, Todo
  <2> QED
    BY Zenon, <1>9, <1>10, <2>1 DEF Mirrors
<1> QED
  BY Zenon, <1>4, <1>5, <1>7, <1>8, <1>9, <1>11, <1>12, TaskKeeps

\* Connect.
LEMMA ConnectKeeps ==
  ASSUME IInv, NEW i \in Injectors, Connect(i)
  PROVE  IInv'
<1>1. /\ task[i].pc = "idle" /\ Connects(i) /\ UNCHANGED <<plan, queue>>
      /\ task' = [task EXCEPT ![i].pc = "open", ![i].next = Len(conn) + 1]
  BY Zenon DEF Connect, pier
<1>2. PICK t : t = [task[i] EXCEPT !.pc = "open", !.next = Len(conn) + 1]
  BY Zenon
<1>3. task[i] \in TaskRecs /\ Len(conn) + 1 \in Nat
  BY Typed
<1>4. t \in TaskRecs /\ t.pc = "open" /\ t.conn = task[i].conn /\ t.next = Len(conn) + 1
  BY Zenon, <1>2, <1>3 DEF TaskRecs
<1>5. task' = [task EXCEPT ![i] = t]
  BY Zenon, <1>1, <1>2
<1> QED
  BY Zenon, <1>1, <1>4, <1>5, ConnectsKeeps

\* Backoff.
LEMMA BackoffKeeps ==
  ASSUME IInv, NEW i \in Injectors, Backoff(i)
  PROVE  IInv'
<1>1. task[i].pc = "backoff" /\ UNCHANGED <<plan, queue>>
  BY Zenon DEF Backoff, pier
<1>2. CASE queue[i].closed
  <2>1. Ends(i, "closed") /\ UNCHANGED <<plan, agent>>
    BY Zenon, <1>1, <1>2 DEF Backoff
  <2>2. queue[i].epoch <= queue[i].epoch
    BY Typed
  <2>3. queue' = [queue EXCEPT ![i] = queue[i]] /\ queue[i] \in QueueRecs
    BY Zenon, <1>1, Unqueued, Typed
  <2> QED
    BY Zenon, <2>1, <2>2, <2>3, EndsKeeps
<1>3. CASE ~queue[i].closed
  <2>1. Connects(i)
    BY Zenon, <1>3 DEF Backoff
  <2>2. PICK a \in Nat, n \in Nat : a = task[i].attempt + 1 /\ n = Len(conn) + 1
    <3>1. task[i].attempt + 1 \in Nat /\ Len(conn) + 1 \in Nat
      BY Typed DEF TaskRecs
    <3> QED
      BY Zenon, <3>1
  <2>3. PICK t : t = [task[i] EXCEPT !.pc = "reopen", !.attempt = a, !.next = n]
    BY Zenon
  <2>4. t.pc = "reopen" /\ t.conn = task[i].conn /\ t.next = Len(conn) + 1
    BY Zenon, <2>2, <2>3, Typed DEF TaskRecs
  <2>5. t \in TaskRecs
    BY Zenon, <2>3, Typed DEF TaskRecs
  <2>6. task' = [task EXCEPT ![i] = t]
    BY Zenon, <1>3, <2>2, <2>3 DEF Backoff
  <2> QED
    BY Zenon, <1>1, <2>1, <2>4, <2>5, <2>6, ConnectsKeeps
<1> QED
  BY Zenon, <1>2, <1>3

\* Superseded.
LEMMA SupersededKeeps ==
  ASSUME IInv, NEW i \in Injectors, Superseded(i)
  PROVE  IInv'
<1>1. /\ Ends(i, "superseded") /\ queue' = [queue EXCEPT ![i] = Shut(Interrupted(queue[i]))]
      /\ UNCHANGED <<plan, agent>>
  BY Zenon DEF Superseded
<1>2. /\ Shut(Interrupted(queue[i])) \in QueueRecs
      /\ queue[i].epoch <= Shut(Interrupted(queue[i])).epoch
  <2>1. PICK q : q = Interrupted(queue[i])
    BY Zenon
  <2>2. q \in QueueRecs /\ queue[i].epoch <= q.epoch
    BY Zenon, <2>1, QueueInterrupted, Typed
  <2> QED
    BY Zenon, <2>1, <2>2, QueueShut
<1> QED
  BY Zenon, <1>1, <1>2, EndsKeeps

\* Drained.
LEMMA DrainedKeeps ==
  ASSUME IInv, NEW i \in Injectors, Drained(i)
  PROVE  IInv'
<1>1. Ends(i, "closed") /\ queue' = queue /\ UNCHANGED <<plan, agent>>
  BY Zenon DEF Drained, pier
<1>2. queue[i].epoch <= queue[i].epoch
  BY Typed
<1>3. queue' = [queue EXCEPT ![i] = queue[i]] /\ queue[i] \in QueueRecs
  BY Zenon, <1>1, Unqueued, Typed
<1> QED
  BY Zenon, <1>1, <1>2, <1>3, EndsKeeps

\* The connections left alone are quiet.
LEMMA QuietSame ==
  ASSUME IInv, NEW i, conn' = conn
  PROVE  Quiet(conn', conn, i)
  BY Zenon DEF IInv, TypeOK, Quiet

\* Eof.
LEMMA EofKeeps ==
  ASSUME IInv, NEW i \in Injectors, Eof(i)
  PROVE  IInv'
<1>1. /\ task[i].pc # "done" /\ task' = [task EXCEPT ![i].pc = "broken"]
      /\ queue' = [queue EXCEPT ![i] = Interrupted(queue[i])]
      /\ conn' = conn /\ UNCHANGED <<plan, agent>>
  BY Zenon DEF Eof
<1>2. PICK t : t = [task[i] EXCEPT !.pc = "broken"]
  BY Zenon
<1>3. t \in TaskRecs /\ t.pc = "broken" /\ t.conn = task[i].conn /\ t.next = task[i].next
  <2>1. task[i] \in TaskRecs
    BY Zenon, Typed
  <2> QED
    BY Zenon, <1>2, <2>1 DEF TaskRecs
<1>4. task' = [task EXCEPT ![i] = t] /\ Quiet(conn', conn, i)
  BY Zenon, <1>1, <1>2, QuietSame
<1>5. PICK q : q = Interrupted(queue[i])
  BY Zenon
<1>6. /\ q \in QueueRecs /\ q.epoch = queue[i].epoch + 1 /\ q.pending = <<>>
      /\ ~q.accepting /\ q.closed = queue[i].closed /\ queue' = [queue EXCEPT ![i] = q]
  BY Zenon, <1>1, <1>5, QueueInterrupted, Typed
<1>8. t.pc \in {"broken", "backoff"} /\ t.next \in {0, task[i].next}
  BY Zenon, <1>3
<1> QED
  BY Zenon, <1>1, <1>3, <1>4, <1>6, <1>8, AwayKeeps

\* GiveUp.
LEMMA GiveUpKeeps ==
  ASSUME IInv, NEW i \in Injectors, GiveUp(i)
  PROVE  IInv'
<1>1. /\ task[i].pc = "reply" /\ UNCHANGED <<plan, agent>>
      /\ conn' = [conn EXCEPT ![task[i].conn].expired = TRUE, ![task[i].conn].shut = task[i].drain]
  BY Zenon DEF GiveUp
<1>3. task[i].conn \in DOMAIN conn /\ conn[task[i].conn].owner = i
  BY Zenon, <1>1 DEF IInv, Carrying, Serving
<1>4. PICK r : r = [conn[task[i].conn] EXCEPT !.expired = TRUE, !.shut = task[i].drain]
  BY Zenon
<1>5. /\ r \in ConnRecs /\ r.owner = conn[task[i].conn].owner /\ r.over = conn[task[i].conn].over
      /\ r.lines = conn[task[i].conn].lines /\ r.replies = conn[task[i].conn].replies
  <2>1. conn[task[i].conn] \in ConnRecs /\ task[i].drain \in BOOLEAN
    BY <1>3, Typed DEF TaskRecs
  <2> QED
    BY Zenon, <1>4, <2>1 DEF ConnRecs
<1>6. Quiet(conn', conn, i)
  <2>1. conn' = [conn EXCEPT ![task[i].conn] = r]
    BY Zenon, <1>1, <1>4
  <2> QED
    BY Zenon, <1>3, <1>5, <2>1, QuietEdit, Typed
<1>7. task[i] \in TaskRecs
  BY Zenon, Typed
<1>8. CASE task[i].drain
  <2>1. PICK t : t = [task[i] EXCEPT !.pc = "done", !.status = "closed"]
    BY Zenon
  <2>2. t \in TaskRecs /\ t.pc = "done" /\ t.conn = task[i].conn /\ t.next = task[i].next
    BY Zenon, <1>7, <2>1, TaskDone
  <2>3. task' = [task EXCEPT ![i] = t] /\ queue' = queue
    BY Zenon, <1>8, <2>1 DEF GiveUp
  <2>4. queue' = [queue EXCEPT ![i] = queue[i]] /\ queue[i] \in QueueRecs
    BY Zenon, <2>3, Unqueued, Typed
  <2>5. queue[i].epoch <= queue[i].epoch
    BY Typed
  <2> QED
    BY Zenon, <1>1, <1>6, <2>2, <2>3, <2>4, <2>5, DoneKeeps
<1>9. CASE ~task[i].drain
  <2>1. PICK t : t = [task[i] EXCEPT !.pc = "broken"]
    BY Zenon
  <2>2. /\ t \in TaskRecs /\ t.pc \in {"broken", "backoff"} /\ t.conn = task[i].conn
        /\ t.next \in {0, task[i].next}
    BY Zenon, <1>7, <2>1 DEF TaskRecs
  <2>3. PICK q : q = Interrupted(queue[i])
    BY Zenon
  <2>4. task' = [task EXCEPT ![i] = t] /\ queue' = [queue EXCEPT ![i] = q]
    BY Zenon, <1>9, <2>1, <2>3 DEF GiveUp
  <2>5. /\ q \in QueueRecs /\ q.epoch = queue[i].epoch + 1 /\ q.pending = <<>>
        /\ ~q.accepting /\ q.closed = queue[i].closed
    BY Zenon, <2>3, QueueInterrupted, Typed
  <2>6. task[i].pc # "done"
    BY Zenon, <1>1
  <2> QED
    BY Zenon, <1>1, <1>6, <2>2, <2>4, <2>5, <2>6, AwayKeeps
<1> QED
  BY Zenon, <1>8, <1>9

\* Reconnecting.
LEMMA ReconnectingKeeps ==
  ASSUME IInv, NEW i \in Injectors, Reconnecting(i)
  PROVE  IInv'
<1>1. /\ task[i].pc = "broken" /\ queue' = queue /\ conn' = conn /\ UNCHANGED <<plan, agent>>
  BY Zenon DEF Reconnecting, pier
<1>2. PICK t : t = [task[i] EXCEPT !.pc = "backoff", !.attempt = 0, !.status = "reconnecting"]
  BY Zenon
<1>3. task[i] \in TaskRecs /\ 0 \in Nat
  BY Typed
<1>4. t.pc = "backoff" /\ t.conn = task[i].conn /\ t.next = task[i].next
  BY Zenon, <1>2, <1>3 DEF TaskRecs
<1>5. t \in TaskRecs
  BY Zenon, <1>2, <1>3 DEF TaskRecs
<1>6. task' = [task EXCEPT ![i] = t]
  BY Zenon, <1>2 DEF Reconnecting
<1>7. queue' = [queue EXCEPT ![i] = queue[i]] /\ queue[i] \in QueueRecs
  BY Zenon, <1>1, Unqueued, Typed
<1>8. Quiet(conn', conn, i)
  BY Zenon, <1>1, QuietSame
<1>9. t.pc \in {"broken", "backoff"} /\ t.next \in {0, task[i].next}
  BY Zenon, <1>4
<1> QED
  BY Zenon, <1>1, <1>4, <1>5, <1>6, <1>7, <1>8, <1>9, AwayKeeps

\* Replied: a reply is taken, and the next command may be sent.
LEMMA RepliedKeeps ==
  ASSUME IInv, NEW i \in Injectors, Replied(i)
  PROVE  IInv'
<1>1. PICK c : c = task[i].conn
  BY Zenon
<1>2. /\ task[i].pc = "reply" /\ conn[c].replies # <<>>
      /\ conn' = [conn EXCEPT ![c].replies = Tail(@)]
      /\ task' = [task EXCEPT ![i].pc = "serve"]
      /\ UNCHANGED <<plan, queue, agent>>
  BY Zenon, <1>1 DEF Replied, HasReply, TakeReply, pier
<1>3. Owns(i) /\ Fresh(i) /\ Carrying(i) /\ Queueing(i) /\ Mirrors(i) /\ Serving(i)
  BY Zenon, <1>2 DEF IInv, Serving
<1>4. c \in DOMAIN conn /\ conn[c] \in ConnRecs /\ Tail(conn[c].replies) \in Replies
  <2>1. c \in DOMAIN conn
    BY Zenon, <1>1, <1>3 DEF Carrying
  <2>2. conn[c] \in ConnRecs
    BY <2>1, Typed
  <2>3. conn[c].replies \in Replies
    BY Zenon, <2>2 DEF ConnRecs
  <2>4. Tail(conn[c].replies) \in Replies
    BY <1>2, <2>3 DEF Replies
  <2> QED
    BY Zenon, <2>1, <2>2, <2>4
<1>5. PICK r : r = [conn[c] EXCEPT !.replies = Tail(conn[c].replies)]
  BY Zenon
<1>6. /\ r \in ConnRecs /\ r.owner = conn[c].owner /\ r.over = conn[c].over
      /\ r.lines = conn[c].lines /\ r.expired = conn[c].expired
  BY Zenon, <1>4, <1>5 DEF ConnRecs
<1>7. /\ conn' \in Seq(ConnRecs) /\ DOMAIN conn' = DOMAIN conn /\ conn'[c] = r
      /\ \A b \in DOMAIN conn : b # c => conn'[b] = conn[b]
  <2>1. conn' = [conn EXCEPT ![c] = r]
    BY Zenon, <1>2, <1>5
  <2>2. conn \in Seq(ConnRecs)
    BY Zenon, Typed
  <2> QED
    BY Zenon, <1>4, <1>6, <2>1, <2>2, ConnEdit
<1>8. PICK t : t = [task[i] EXCEPT !.pc = "serve"]
  BY Zenon
<1>9. t \in TaskRecs /\ t.pc = "serve" /\ t.conn = c /\ t.next = task[i].next
  BY Zenon, <1>1, <1>8, Typed DEF TaskRecs
<1>10. /\ task' \in [Injectors -> TaskRecs] /\ task'[i] = t
       /\ \A j \in Injectors : j # i => task'[j] = task[j]
  <2>1. task' = [task EXCEPT ![i] = t]
    BY Zenon, <1>2, <1>8
  <2> QED
    BY Zenon, <1>9, <2>1, Edit DEF IInv, TypeOK
<1>11. TypeOK'
  BY Zenon, <1>2, <1>7, <1>10 DEF IInv, TypeOK, agent
<1>12. conn[c].owner = i
  BY Zenon, <1>1, <1>3 DEF Carrying
<1>13. TaskFrame(i)
  <2>1. ASSUME NEW b \in DOMAIN conn
        PROVE  /\ b \in DOMAIN conn' /\ conn'[b].owner = conn[b].owner /\ conn'[b].over = conn[b].over
               /\ conn[b].owner # i => conn'[b] = conn[b]
               /\ conn[b].replies = <<>> => conn'[b].replies = <<>>
               /\ conn'[b].lines = conn[b].lines
    BY Zenon, <1>2, <1>6, <1>7, <1>12
  <2> QED
    BY Zenon, <1>2, <1>10, <2>1 DEF TaskFrame, agent
<1>14. Owns(i)'
  <2>1. \A b \in DOMAIN conn : b \in DOMAIN conn' /\ conn'[b].owner = conn[b].owner
    BY Zenon, <1>6, <1>7
  <2>2. task'[i].conn = task[i].conn /\ task'[i].next = task[i].next
    BY Zenon, <1>1, <1>9, <1>10
  <2> QED
    BY Zenon, <1>3, <2>1, <2>2 DEF Owns
<1>15. Fresh(i)' /\ Serving(i)'
  BY Zenon, <1>9, <1>10 DEF Fresh, Opening, Serving
<1>16. Carrying(i)'
  <2>1. conn'[c].lines = conn[c].lines /\ conn'[c].expired = conn[c].expired /\ conn'[c].owner = conn[c].owner
    BY Zenon, <1>6, <1>7
  <2>2. task'[i].conn = c /\ backlog' = backlog /\ c \in DOMAIN conn'
    BY Zenon, <1>2, <1>4, <1>7, <1>9, <1>10 DEF agent
  <2> QED
    BY Zenon, <1>1, <1>3, <2>1, <2>2 DEF Carrying
<1>17. Queueing(i)'
  BY Zenon, <1>2, <1>3, <1>9, <1>10 DEF Queueing
<1>18. Mirrors(i)'
  <2>1. Synced(i)' = Synced(i) /\ Todo(i)' = Todo(i) /\ task[i].pc # "done"
    BY Zenon, <1>2 DEF Synced, Todo
  <2>2. conn'[c].lines = conn[c].lines /\ task'[i].conn = c /\ serving' = serving
    BY Zenon, <1>2, <1>6, <1>7, <1>9, <1>10 DEF agent
  <2>3. c = serving.conn => \A D : Delivered(i, D)' = Delivered(i, D)
    BY Zenon, <1>2, <2>1, <2>2 DEF Delivered
  <2>4. \A D : Intended(D)' <=> Intended(D)
    BY Zenon, <1>2 DEF Intended, agent
  <2> QED
    BY Zenon, <1>1, <1>2, <1>3, <1>15, <2>1, <2>2, <2>3, <2>4 DEF Mirrors
<1> QED
  BY Zenon, <1>11, <1>13, <1>14, <1>15, <1>16, <1>17, <1>18, TaskKeeps

\* SendNext: the first command of the queue goes to the connection's lines.
LEMMA SendNextKeeps ==
  ASSUME IInv, NEW i \in Injectors, SendNext(i)
  PROVE  IInv'
<1>1. PICK c, p, l : c = task[i].conn /\ p = queue[i].pending /\ l = conn[c].lines
  BY Zenon
<1>2. /\ task[i].pc = "serve" /\ p # <<>>
      /\ queue' = [queue EXCEPT ![i].pending = Tail(p)]
      /\ conn' = [conn EXCEPT ![c].lines = IF conn[c].over THEN l ELSE Append(l, Head(p))]
      /\ task' = [task EXCEPT ![i].pc = "reply", ![i].drain = queue[i].closed]
      /\ UNCHANGED <<plan, agent>>
  BY Zenon, <1>1 DEF SendNext
<1>3. Owns(i) /\ Fresh(i) /\ Carrying(i) /\ Queueing(i) /\ Mirrors(i) /\ Serving(i)
  BY Zenon, <1>2 DEF IInv, Serving
<1>4. /\ c \in DOMAIN conn /\ conn[c] \in ConnRecs /\ l \in Seq(Commands) /\ conn[c].owner = i
  <2>1. c \in DOMAIN conn /\ l \in Seq(Commands) /\ conn[c].owner = i
    BY Zenon, <1>1, <1>3 DEF Carrying
  <2>2. conn[c] \in ConnRecs
    BY <2>1, Typed
  <2> QED
    BY Zenon, <2>1, <2>2
<1>5. queue[i] \in QueueRecs /\ p \in Seq(Commands) /\ queue[i].closed \in BOOLEAN
  BY Zenon, <1>1, Typed DEF QueueRecs
<1>6. Head(p) \in Commands /\ Tail(p) \in Seq(Commands)
  BY <1>2, <1>5
<1>7. PICK m : m = IF conn[c].over THEN l ELSE Append(l, Head(p))
  BY Zenon
<1>8. m \in Seq(Commands) /\ m \in Lines /\ (l # <<>> => m # <<>> /\ Head(m) = Head(l))
  <2>1. ASSUME NEW s \in Seq(Commands), NEW x \in Commands
        PROVE  /\ Append(s, x) \in Seq(Commands) /\ (s # <<>> => Append(s, x) # <<>> /\ Head(Append(s, x)) = Head(s))
    OBVIOUS
  <2>2. m \in Seq(Commands) /\ (l # <<>> => m # <<>> /\ Head(m) = Head(l))
    BY Zenon, <1>4, <1>6, <1>7, <2>1
  <2>3. m \in Lines
    BY <2>2 DEF Lines
  <2> QED
    BY Zenon, <2>2, <2>3
<1>9. PICK r : r = [conn[c] EXCEPT !.lines = m]
  BY Zenon
<1>10. /\ r \in ConnRecs /\ r.owner = conn[c].owner /\ r.over = conn[c].over
       /\ r.lines = m /\ r.expired = conn[c].expired /\ r.replies = conn[c].replies
  BY Zenon, <1>4, <1>8, <1>9 DEF ConnRecs
<1>11. /\ conn' \in Seq(ConnRecs) /\ DOMAIN conn' = DOMAIN conn /\ conn'[c] = r
       /\ \A b \in DOMAIN conn : b # c => conn'[b] = conn[b]
  <2>1. conn' = [conn EXCEPT ![c] = r]
    BY Zenon, <1>2, <1>7, <1>9
  <2>2. conn \in Seq(ConnRecs)
    BY Zenon, Typed
  <2> QED
    BY Zenon, <1>4, <1>10, <2>1, <2>2, ConnEdit
<1>12. PICK t : t = [task[i] EXCEPT !.pc = "reply", !.drain = queue[i].closed]
  BY Zenon
<1>13. t \in TaskRecs /\ t.pc = "reply" /\ t.conn = c /\ t.next = task[i].next
  BY Zenon, <1>1, <1>5, <1>12, Typed DEF TaskRecs
<1>14. /\ task' \in [Injectors -> TaskRecs] /\ task'[i] = t
       /\ \A j \in Injectors : j # i => task'[j] = task[j]
  <2>1. task' = [task EXCEPT ![i] = t]
    BY Zenon, <1>2, <1>12
  <2> QED
    BY Zenon, <1>13, <2>1, Edit DEF IInv, TypeOK
<1>15. PICK q : q = [queue[i] EXCEPT !.pending = Tail(p)]
  BY Zenon
<1>16. /\ q \in QueueRecs /\ q.pending = Tail(p) /\ q.epoch = queue[i].epoch
       /\ q.accepting = queue[i].accepting /\ q.closed = queue[i].closed
  BY Zenon, <1>5, <1>6, <1>15 DEF QueueRecs
<1>17. /\ queue' \in [Injectors -> QueueRecs] /\ queue'[i] = q
       /\ \A j \in Injectors : j # i => queue'[j] = queue[j]
  <2>1. queue' = [queue EXCEPT ![i] = q]
    BY Zenon, <1>2, <1>15
  <2> QED
    BY Zenon, <1>16, <2>1, Edit DEF IInv, TypeOK
<1>18. TypeOK'
  BY Zenon, <1>2, <1>11, <1>14, <1>17 DEF IInv, TypeOK, agent
<1>19. TaskFrame(i)
  <2>1. ASSUME NEW b \in DOMAIN conn
        PROVE  /\ b \in DOMAIN conn' /\ conn'[b].owner = conn[b].owner /\ conn'[b].over = conn[b].over
               /\ conn[b].owner # i => conn'[b] = conn[b]
               /\ conn'[b].replies = conn[b].replies
               /\ conn[b].lines # <<>> => conn'[b].lines # <<>> /\ Head(conn'[b].lines) = Head(conn[b].lines)
    BY Zenon, <1>1, <1>4, <1>8, <1>10, <1>11
  <2> QED
    BY Zenon, <1>2, <1>14, <1>17, <2>1 DEF TaskFrame, agent
<1>20. Owns(i)'
  <2>1. \A b \in DOMAIN conn : b \in DOMAIN conn' /\ conn'[b].owner = conn[b].owner
    BY Zenon, <1>10, <1>11
  <2>2. task'[i].conn = task[i].conn /\ task'[i].next = task[i].next
    BY Zenon, <1>1, <1>13, <1>14
  <2> QED
    BY Zenon, <1>3, <2>1, <2>2 DEF Owns
<1>21. Fresh(i)' /\ Serving(i)'
  BY Zenon, <1>13, <1>14 DEF Fresh, Opening, Serving
<1>22. Carrying(i)'
  <2>1. conn'[c].lines \in Seq(Commands) /\ conn'[c].expired = conn[c].expired /\ conn'[c].owner = conn[c].owner
    BY Zenon, <1>8, <1>10, <1>11
  <2>2. task'[i].conn = c /\ backlog' = backlog /\ c \in DOMAIN conn'
    BY Zenon, <1>2, <1>4, <1>11, <1>13, <1>14 DEF agent
  <2> QED
    BY Zenon, <1>1, <1>3, <2>1, <2>2 DEF Carrying
<1>23. Queueing(i)'
  BY Zenon, <1>2, <1>3, <1>13, <1>14, <1>16, <1>17 DEF Queueing
<1>24. Mirrors(i)'
  <2>1. Synced(i)' = Synced(i) /\ Todo(i)' = Todo(i) /\ task[i].pc # "done"
    BY Zenon, <1>2, <1>16, <1>17 DEF Synced, Todo
  <2>2. /\ conn'[c].lines = m /\ task'[i].conn = c /\ serving' = serving
        /\ queue'[i].pending = Tail(p)
    BY Zenon, <1>2, <1>10, <1>11, <1>13, <1>14, <1>16, <1>17 DEF agent
  <2>3. \A D : Intended(D)' <=> Intended(D)
    BY Zenon, <1>2 DEF Intended, agent
  <2>4. ASSUME c = serving.conn, NEW D \in SUBSET Keys  PROVE Delivered(i, D)' = Delivered(i, D)
    <3>1. c # 0
      BY <1>4, Typed
    <3>2. m = Append(l, Head(p))
      BY Zenon, <1>7, <2>4, <3>1 DEF IInv, Injecting
    <3>3. Replay(D, m) = Applied(Replay(D, l), Head(p))
      BY Zenon, <1>4, <1>6, <3>2, ReplayAppend
    <3>4. Replay(D, l) \in SUBSET Keys
      BY Zenon, ReplayKeys
    <3>5. Replay(Replay(D, l), p) = Replay(Applied(Replay(D, l), Head(p)), Tail(p))
      BY Zenon, <1>2, <1>5, <3>4, ReplayHead
    <3>6. Delivered(i, D) = Replay(Replay(Replay(D, l), p), Todo(i))
      BY Zenon, <1>1, <2>4 DEF Delivered
    <3>7. Delivered(i, D)' = Replay(Replay(Replay(D, m), Tail(p)), Todo(i))
      BY Zenon, <2>1, <2>2, <2>4 DEF Delivered
    <3> QED
      BY Zenon, <3>3, <3>5, <3>6, <3>7
  <2>5. \A D : Intended(D) => D \in SUBSET Keys
    BY Zenon DEF Intended
  <2> QED
    BY Zenon, <1>1, <1>2, <1>3, <1>21, <2>1, <2>2, <2>3, <2>4, <2>5 DEF Mirrors
<1> QED
  BY Zenon, <1>18, <1>19, <1>20, <1>21, <1>22, <1>23, <1>24, TaskKeeps

\* Closing a connection does not expire one.
LEMMA CloseExpires ==
  ASSUME NEW cs \in Seq(ConnRecs), NEW c, c # 0 => c \in DOMAIN cs, NEW b \in DOMAIN cs
  PROVE  Close(cs, c)[b].expired = cs[b].expired
<1>1. CASE c = 0
  BY Zenon, <1>1 DEF Close
<1>2. CASE c # 0
  <2>1. PICK r : r = [cs[c] EXCEPT !.shut = TRUE]
    BY Zenon
  <2>2. cs[c] \in ConnRecs
    BY <1>2
  <2>3. r \in ConnRecs /\ r.expired = cs[c].expired
    BY Zenon, <2>1, <2>2 DEF ConnRecs
  <2>4. PICK d : d = [cs EXCEPT ![c] = r]
    BY Zenon
  <2>5. d[c] = r /\ \A a \in DOMAIN cs : a # c => d[a] = cs[a]
    <3>1. c \in DOMAIN cs
      BY Zenon, <1>2
    <3> QED
      BY Zenon, <2>3, <2>4, <3>1, ConnEdit
  <2>6. Close(cs, c) = d
    BY Zenon, <1>2, <2>1, <2>4 DEF Close
  <2> QED
    BY Zenon, <2>3, <2>5, <2>6
<1> QED
  BY Zenon, <1>1, <1>2

\* Opened: an answered hello's connection carries nothing, like the queue.
LEMMA OpenedKeeps ==
  ASSUME IInv, NEW i \in Injectors, Opened(i), ~queue[i].closed
  PROVE  IInv'
<1>1. PICK n, d : n = task[i].next /\ d = Close(conn, task[i].conn)
  BY Zenon
<1>2. /\ Opening(i) /\ conn[n].replies # <<>>
      /\ conn' = [d EXCEPT ![n].replies = Tail(@)]
      /\ queue' = [queue EXCEPT ![i] = IF task[i].pc = "reopen" THEN Resumed(queue[i]) ELSE queue[i]]
      /\ task' = [task EXCEPT ![i] = [task[i] EXCEPT !.pc = "serve", !.conn = n, !.next = 0, !.status = "connected"]]
      /\ UNCHANGED <<plan, agent>>
  BY Zenon, <1>1 DEF Opened, Opening
<1>3. Owns(i) /\ Fresh(i) /\ Queueing(i) /\ Mirrors(i) /\ ~Serving(i) /\ task[i].pc # "done"
  BY Zenon, <1>2 DEF IInv, Opening, Serving
<1>4. /\ n \in DOMAIN conn /\ conn[n].owner = i /\ ~conn[n].expired /\ conn[n].lines = <<>>
      /\ n = serving.conn => comp \subseteq astray
  BY Zenon, <1>1, <1>2, <1>3 DEF Fresh
<1>5. /\ conn \in Seq(ConnRecs)
      /\ task[i].conn # 0 => task[i].conn \in DOMAIN conn /\ conn[task[i].conn].owner = i
  BY Zenon, <1>3, Typed DEF Owns
<1>6. Quiet(d, conn, i) /\ d[n].expired = conn[n].expired
  BY Zenon, <1>1, <1>4, <1>5, Closes, CloseExpires
<1>7. /\ d \in Seq(ConnRecs) /\ DOMAIN d = DOMAIN conn /\ d[n].replies = conn[n].replies
      /\ d[n].owner = i /\ d[n].lines = <<>> /\ d[n].over = conn[n].over
  BY Zenon, <1>4, <1>6 DEF Quiet
<1>8. d[n] \in ConnRecs /\ n \in Nat /\ Tail(d[n].replies) \in Replies
  <2>1. d[n] \in ConnRecs /\ n \in Nat
    BY <1>4, <1>7
  <2>2. d[n].replies \in Replies
    BY Zenon, <2>1 DEF ConnRecs
  <2>3. Tail(d[n].replies) \in Replies
    BY <1>2, <1>7, <2>2 DEF Replies
  <2> QED
    BY Zenon, <2>1, <2>3
<1>9. PICK r : r = [d[n] EXCEPT !.replies = Tail(d[n].replies)]
  BY Zenon
<1>10. r \in ConnRecs /\ r.owner = i /\ r.over = conn[n].over /\ r.lines = <<>> /\ ~r.expired
  BY Zenon, <1>4, <1>6, <1>7, <1>8, <1>9 DEF ConnRecs
<1>11. /\ conn' \in Seq(ConnRecs) /\ DOMAIN conn' = DOMAIN conn /\ conn'[n] = r
       /\ \A b \in DOMAIN conn : b # n => conn'[b] = d[b]
  <2>1. conn' = [d EXCEPT ![n] = r]
    BY Zenon, <1>2, <1>9
  <2>2. n \in DOMAIN d
    BY Zenon, <1>4, <1>7
  <2> QED
    BY Zenon, <1>7, <1>10, <2>1, <2>2, ConnEdit
<1>12. PICK t : t = [task[i] EXCEPT !.pc = "serve", !.conn = n, !.next = 0, !.status = "connected"]
  BY Zenon
<1>13. t.pc = "serve" /\ t.conn = n /\ t.next = 0
  BY Zenon, <1>12, Typed DEF TaskRecs
<1>14. t \in TaskRecs
  <2>1. 0 \in Nat
    OBVIOUS
  <2> QED
    BY Zenon, <1>8, <1>12, <2>1, Typed DEF TaskRecs
<1>15. /\ task' \in [Injectors -> TaskRecs] /\ task'[i] = t
       /\ \A j \in Injectors : j # i => task'[j] = task[j]
  <2>1. task' = [task EXCEPT ![i] = t]
    BY Zenon, <1>2, <1>12
  <2> QED
    BY Zenon, <1>14, <2>1, Edit DEF IInv, TypeOK
<1>16. PICK q : q = IF task[i].pc = "reopen" THEN Resumed(queue[i]) ELSE queue[i]
  BY Zenon
<1>17. /\ q \in QueueRecs /\ q.epoch = queue[i].epoch /\ q.closed = queue[i].closed
       /\ task[i].pc = "reopen" => q.pending = <<>> /\ q.accepting
       /\ task[i].pc # "reopen" => q = queue[i]
  <2>1. <<>> \in Seq(Commands)
    OBVIOUS
  <2> QED
    BY Zenon, <1>16, <2>1, Typed DEF QueueRecs, Resumed
<1>18. /\ queue' \in [Injectors -> QueueRecs] /\ queue'[i] = q
       /\ \A j \in Injectors : j # i => queue'[j] = queue[j]
  <2>1. queue' = [queue EXCEPT ![i] = q]
    BY Zenon, <1>2, <1>16
  <2> QED
    BY Zenon, <1>17, <2>1, Edit DEF IInv, TypeOK
<1>19. TypeOK'
  BY Zenon, <1>2, <1>11, <1>15, <1>18 DEF IInv, TypeOK, agent
<1>20. TaskFrame(i)
  <2>1. ASSUME NEW b \in DOMAIN conn
        PROVE  /\ b \in DOMAIN conn' /\ conn'[b].owner = conn[b].owner /\ conn'[b].over = conn[b].over
               /\ conn[b].owner # i => conn'[b] = conn[b]
               /\ conn[b].replies = <<>> => conn'[b].replies = <<>>
               /\ conn'[b].lines = conn[b].lines
    <3>1. CASE b = n
      BY Zenon, <1>2, <1>4, <1>10, <1>11, <3>1
    <3>2. CASE b # n
      BY Zenon, <1>6, <1>11, <3>2 DEF Quiet
    <3> QED
      BY Zenon, <3>1, <3>2
  <2> QED
    BY Zenon, <1>2, <1>15, <1>18, <2>1 DEF TaskFrame, agent
<1>21. Owns(i)'
  BY Zenon, <1>4, <1>10, <1>11, <1>13, <1>15 DEF Owns
<1>22. Fresh(i)' /\ Serving(i)'
  BY Zenon, <1>13, <1>15 DEF Fresh, Opening, Serving
<1>23. Carrying(i)'
  <2>1. <<>> \in Seq(Commands)
    OBVIOUS
  <2>2. \A j \in DOMAIN backlog : backlog[j] # n
    BY Zenon, <1>2 DEF IInv, Backlogged
  <2>3. task'[i].conn = n /\ backlog' = backlog /\ n \in DOMAIN conn'
    BY Zenon, <1>2, <1>4, <1>11, <1>13, <1>15 DEF agent
  <2> QED
    BY Zenon, <1>10, <1>11, <2>1, <2>2, <2>3 DEF Carrying
<1>24. Queueing(i)'
  BY Zenon, <1>2, <1>3, <1>13, <1>15, <1>17, <1>18 DEF Queueing, Opening
<1>25. Mirrors(i)'
  <2>1. Synced(i)' = Synced(i) /\ Todo(i)' = Todo(i) /\ task'[i].conn = n
    BY Zenon, <1>2, <1>13, <1>15, <1>17, <1>18 DEF Synced, Todo
  <2>2. serving' = serving /\ conn'[n].lines = <<>>
    BY Zenon, <1>2, <1>10, <1>11 DEF agent
  <2>3. ~plan[i].dropped => queue'[i].pending = <<>> /\ Synced(i) = Replay({}, Todo(i))
    BY Zenon, <1>3, <1>17, <1>18 DEF Mirrors
  <2>4. Replay({}, <<>>) = {}
    BY ReplayNone
  <2>5. ASSUME ~plan[i].dropped, n = serving.conn  PROVE Delivered(i, {})' = Synced(i)
    BY Zenon, <2>1, <2>2, <2>3, <2>4, <2>5 DEF Delivered
  <2>6. n = serving.conn => Intended({})'
    <3>1. comp' = comp /\ astray' = astray
      BY Zenon, <1>2 DEF agent
    <3> QED
      BY SMT, <1>4, <3>1 DEF Intended, Alike
  <2> QED
    BY Zenon, <1>2, <1>22, <2>1, <2>2, <2>5, <2>6 DEF Mirrors
<1> QED
  BY Zenon, <1>19, <1>20, <1>21, <1>22, <1>23, <1>24, <1>25, TaskKeeps

-----------------------------------------------------------------------------
(* The planner's steps. *)

\* A finite set has an enumeration.
LEMMA Enumerated ==
  ASSUME NEW S, IsFiniteSet(S)
  PROVE  Listed(S) \in Seq(S)
<1>1. PICK n \in Nat : ExistsBijection(1 .. n, S)
  BY FS_NatBijection
<1>2. n = Cardinality(S)
  BY <1>1, FS_CountingElements
<1>3. PICK f \in [1 .. n -> S] : \A a, b \in 1 .. n : f[a] = f[b] => a = b
  BY <1>1 DEF ExistsBijection, Bijection, Injection, IsInjective
<1>4. Listed(S) \in [1 .. n -> S]
  BY <1>2, <1>3 DEF Listed
<1> QED
  BY <1>4

\* What is planned for the modifiers are commands.
LEMMA ModifierEdgesType ==
  ASSUME NEW has, NEW mask
  PROVE  ModifierEdges(has, mask) \in Seq(Commands)
<1> DEFINE M == {n \in Mods : (n \in has) # (n \in mask)}
           S == {Key(m, m \in mask) : m \in M}
<1>1. IsFiniteSet(M)
  BY FS_Subset, ModsAssumption
<1>2. IsFiniteSet(S)
  <2> DEFINE f == [m \in M |-> Key(m, m \in mask)]
  <2>1. f \in Surjection(M, S)
    BY DEF Surjection
  <2> HIDE DEF f, M, S
  <2> QED
    BY <1>1, <2>1, FS_Surjection
<1>3. S \subseteq Commands
  <2>1. \A m \in Mods, b \in BOOLEAN : Key(m, b) \in Commands
    BY ModsAssumption DEF Commands, Keyed, Key
  <2>2. \A m : (m \in mask) \in BOOLEAN
    BY SMT
  <2>3. \A m \in Mods : Key(m, m \in mask) \in Commands
    BY Zenon, <2>1, <2>2
  <2> QED
    BY Zenon, <2>3
<1>4. Listed(S) \in Seq(S)
  BY <1>2, Enumerated
<1>5. Listed(S) \in Seq(Commands)
  <2> HIDE DEF S
  <2> QED
    BY <1>3, <1>4
<1> QED
  BY Zenon, <1>5 DEF ModifierEdges

\* What is planned for a key are commands.
LEMMA KeyEdgesType ==
  ASSUME NEW has, NEW k \in Keys, NEW pressed \in BOOLEAN, NEW mask
  PROVE  KeyEdges(has, k, pressed, mask) \in Seq(Commands)
<1>1. Key(k, pressed) \in Commands
  BY DEF Commands, Keyed, Key
<1>2. Edge(has, k, pressed) \in Seq(Commands)
  <2>1. <<>> \in Seq(Commands) /\ <<Key(k, pressed)>> \in Seq(Commands)
    BY <1>1
  <2> QED
    BY Zenon, <2>1 DEF Edge
<1>3. \A s, u \in Seq(Commands) : s \o u \in Seq(Commands)
  OBVIOUS
<1> QED
  BY Zenon, <1>2, <1>3, ModifierEdgesType DEF KeyEdges

\* A plan made of commands, whose mirror is what they make of the mirror before.
LEMMA PlannedKeeps ==
  ASSUME IInv, NEW i \in Injectors, Live(i), plan[i].todo = <<>>, NEW s \in Seq(Commands),
         Planned(i, s, Replay(Synced(i), s)), UNCHANGED <<queue, task, conn, agent>>
  PROVE  IInv'
<1>1. PICK p : p = IF task[i].status = "connected"
                   THEN [plan[i] EXCEPT !.held = Replay(Synced(i), s), !.epoch = queue[i].epoch, !.todo = s]
                   ELSE [plan[i] EXCEPT !.held = Synced(i), !.epoch = queue[i].epoch]
  BY Zenon
<1>2. plan' = [plan EXCEPT ![i] = p]
  BY Zenon, <1>1 DEF Planned
<1>3. /\ plan[i] \in PlanRecs /\ queue[i].epoch \in Nat /\ Synced(i) \in SUBSET Keys
      /\ Replay(Synced(i), s) \in SUBSET Keys
  <2>1. Synced(i) \in SUBSET Keys
    BY Zenon, Typed DEF PlanRecs, Synced
  <2> QED
    BY Zenon, <2>1, Typed, ReplayKeys
<1>4. /\ p \in PlanRecs /\ p.epoch = queue[i].epoch /\ p.dropped = plan[i].dropped
      /\ \/ p.held = Replay(Synced(i), s) /\ p.todo = s
         \/ p.held = Synced(i) /\ p.todo = <<>>
  <2>1. CASE task[i].status = "connected"
    <3>1. p = [plan[i] EXCEPT !.held = Replay(Synced(i), s), !.epoch = queue[i].epoch, !.todo = s]
      BY Zenon, <1>1, <2>1
    <3>2. p \in PlanRecs
      BY Zenon, <1>3, <3>1 DEF PlanRecs
    <3>3. p.epoch = queue[i].epoch /\ p.dropped = plan[i].dropped /\ p.held = Replay(Synced(i), s) /\ p.todo = s
      BY Zenon, <1>3, <3>1 DEF PlanRecs
    <3> QED
      BY Zenon, <3>2, <3>3
  <2>2. CASE task[i].status # "connected"
    <3>1. p = [plan[i] EXCEPT !.held = Synced(i), !.epoch = queue[i].epoch]
      BY Zenon, <1>1, <2>2
    <3>2. p \in PlanRecs
      BY Zenon, <1>3, <3>1 DEF PlanRecs
    <3>3. p.epoch = queue[i].epoch /\ p.dropped = plan[i].dropped /\ p.held = Synced(i) /\ p.todo = <<>>
      BY Zenon, <1>3, <3>1 DEF PlanRecs
    <3> QED
      BY Zenon, <3>2, <3>3
  <2> QED
    BY Zenon, <2>1, <2>2
<1>5. /\ plan' \in [Injectors -> PlanRecs] /\ plan'[i] = p
      /\ \A j \in Injectors : j # i => plan'[j] = plan[j]
  BY Zenon, <1>2, <1>4, Edit DEF IInv, TypeOK
<1>6. TypeOK'
  BY Zenon, <1>5 DEF IInv, TypeOK, agent
<1>7. /\ queue' = queue /\ task' = task /\ conn' = conn /\ serving' = serving
      /\ Queueing(i) /\ Mirrors(i) /\ ~plan[i].dropped /\ task[i].pc \notin {"idle", "open"}
  BY Zenon DEF IInv, Live, agent
<1>8. Queueing(i)'
  <2>1. p.epoch <= queue'[i].epoch
    BY <1>3, <1>4, <1>7
  <2> QED
    BY Zenon, <1>4, <1>5, <1>7, <2>1 DEF Queueing
<1>9. Synced(i)' = p.held /\ Todo(i)' = p.todo /\ Todo(i) = <<>>
  BY Zenon, <1>4, <1>5, <1>7 DEF Synced, Todo
<1>10. Mirrors(i)'
  <2>1. \A D : Intended(D)' <=> Intended(D)
    BY Zenon DEF Intended, agent
  <2>2. Replay({}, <<>>) = {}
    BY ReplayNone
  <2>3. ASSUME NEW D
        PROVE  /\ Delivered(i, D) = Synced(i) /\ p.held = Replay(Synced(i), s) /\ p.todo = s => Delivered(i, D)' = p.held
               /\ Delivered(i, D) = Synced(i) /\ p.held = Synced(i) /\ p.todo = <<>> => Delivered(i, D)' = p.held
    <3>1. PICK X : X = Replay(Replay(D, conn[serving.conn].lines), queue[i].pending)
      BY Zenon
    <3>2. Delivered(i, D)' = Replay(X, p.todo) /\ Delivered(i, D) = Replay(X, <<>>)
      BY Zenon, <1>7, <1>9, <3>1 DEF Delivered
    <3>3. Replay(X, <<>>) = X
      <4>1. X \in SUBSET Keys
        BY Zenon, <3>1, ReplayKeys
      <4> QED
        BY <4>1, ReplayNone
    <3> QED
      BY Zenon, <3>2, <3>3
  <2>4. Serving(i)' <=> Serving(i)
    BY Zenon, <1>7 DEF Serving
  <2>5. /\ task[i].pc # "done" /\ ~Serving(i) => queue[i].pending = <<>> /\ Synced(i) = {}
        /\ task[i].pc # "done" /\ Serving(i) /\ task[i].conn = serving.conn =>
             \E D : Intended(D) /\ Synced(i) = Delivered(i, D)
    BY Zenon, <1>7, <1>9, <2>2 DEF Mirrors
  <2>6. CASE p.held = Replay(Synced(i), s) /\ p.todo = s
    BY Zenon, <1>7, <1>9, <2>1, <2>3, <2>4, <2>5, <2>6 DEF Mirrors
  <2>7. CASE p.held = Synced(i) /\ p.todo = <<>>
    BY Zenon, <1>7, <1>9, <2>1, <2>2, <2>3, <2>4, <2>5, <2>7 DEF Mirrors
  <2> QED
    BY Zenon, <1>4, <2>6, <2>7
<1> QED
  BY Zenon, <1>5, <1>6, <1>7, <1>8, <1>10, PlanKeeps

\* An event comes when every plan was queued.
LEMMA Happened ==
  ASSUME Happens
  PROVE  \A i \in Injectors : plan[i].todo = <<>>
  BY Zenon DEF Happens

\* ResetHeld.
LEMMA ResetHeldKeeps ==
  ASSUME IInv, NEW i \in Injectors, ResetHeld(i)
  PROVE  IInv'
<1>1. /\ plan[i].todo = <<>> /\ Live(i) /\ UNCHANGED <<queue, task, conn, agent>>
  BY Zenon, Happened DEF ResetHeld
<1>2. ReleaseAll \in Commands /\ ReleaseAll.op = "release_all"
  BY Zenon DEF Commands, ReleaseAll
<1>3. Synced(i) \in SUBSET Keys
  BY Typed DEF Synced, PlanRecs
<1>4. Replay(Synced(i), <<ReleaseAll>>) = {}
  BY Zenon, <1>2, <1>3, ReplayOne DEF Applied
<1>5. <<ReleaseAll>> \in Seq(Commands)
  BY <1>2
<1>6. Planned(i, <<ReleaseAll>>, Replay(Synced(i), <<ReleaseAll>>))
  BY Zenon, <1>4 DEF ResetHeld
<1> QED
  BY Zenon, <1>1, <1>5, <1>6, PlannedKeeps

\* KeyEvent; without a live injector the plans are left alone.
LEMMA KeyEventKeeps ==
  ASSUME IInv, NEW k \in Keys, KeyEvent(k)
  PROVE  IInv'
<1>1. /\ UNCHANGED <<queue, task, conn, agent>> /\ \A i \in Injectors : plan[i].todo = <<>>
  BY Zenon, Happened DEF KeyEvent
<1>2. PICK now : now = IF k \in down THEN down \ {k} ELSE down \cup {k}
  BY Zenon
<1>3. CASE \E i \in Injectors : Live(i)
  <2>1. PICK i \in Injectors :
          Live(i) /\ Planned(i, KeyEdges(Synced(i), k, k \in now, now \cap Mods),
                             Replay(Synced(i), KeyEdges(Synced(i), k, k \in now, now \cap Mods)))
    BY Zenon, <1>2, <1>3 DEF KeyEvent
  <2>2. PICK s : s = KeyEdges(Synced(i), k, k \in now, now \cap Mods)
    BY Zenon
  <2>3. s \in Seq(Commands)
    <3>1. (k \in now) \in BOOLEAN
      BY SMT
    <3> QED
      BY Zenon, <2>2, <3>1, KeyEdgesType
  <2>4. Planned(i, s, Replay(Synced(i), s)) /\ Live(i)
    BY Zenon, <2>1, <2>2
  <2> QED
    BY Zenon, <1>1, <2>3, <2>4, PlannedKeeps
<1>4. CASE ~\E i \in Injectors : Live(i)
  <2>1. plan' = plan
    BY Zenon, <1>4 DEF KeyEvent
  <2>2. CASE Injectors = {}
    BY Zenon, <1>1, <2>1, <2>2 DEF IInv, TypeOK, Backlogged, Injecting, Idle, Known, agent
  <2>3. CASE Injectors # {}
    <3>1. PICK i \in Injectors : TRUE
      BY Zenon, <2>3
    <3>2. TypeOK'
      BY Zenon, <1>1, <2>1 DEF IInv, TypeOK, agent
    <3>3. Queueing(i)' /\ Mirrors(i)'
      <4>1. /\ queue' = queue /\ task' = task /\ conn' = conn /\ serving' = serving
            /\ Queueing(i) /\ Mirrors(i)
        BY Zenon, <1>1 DEF IInv, agent
      <4>2. Queueing(i)'
        BY Zenon, <2>1, <4>1 DEF Queueing
      <4>3. Synced(i)' = Synced(i) /\ Todo(i)' = Todo(i) /\ (Serving(i)' <=> Serving(i))
        BY Zenon, <2>1, <4>1 DEF Synced, Todo, Serving
      <4>4. \A D : Delivered(i, D)' = Delivered(i, D) /\ (Intended(D)' <=> Intended(D))
        BY Zenon, <1>1, <4>1, <4>3 DEF Delivered, Intended, agent
      <4> QED
        BY Zenon, <2>1, <4>1, <4>2, <4>3, <4>4 DEF Mirrors
    <3> QED
      BY Zenon, <1>1, <2>1, <3>2, <3>3, PlanKeeps
  <2> QED
    BY Zenon, <2>2, <2>3
<1> QED
  BY Zenon, <1>3, <1>4

\* Queueing a command touches what is pending.
LEMMA QueueEnqueued ==
  ASSUME NEW r \in QueueRecs, NEW c \in Commands, NEW q, q = Enqueued(r, c)
  PROVE  /\ q \in QueueRecs /\ q.epoch = r.epoch /\ q.accepting = r.accepting /\ q.closed = r.closed
         /\ Collapses(r) => q.pending = <<ReleaseAll>>
         /\ ~Collapses(r) => q.pending = Append(r.pending, c)
<1>1. PICK p : p = IF Len(r.pending) >= QueueCap THEN <<ReleaseAll>> ELSE Append(r.pending, c)
  BY Zenon
<1>2. p \in Seq(Commands)
  <2>1. ReleaseAll \in Commands
    BY Zenon DEF Commands
  <2>2. <<ReleaseAll>> \in Seq(Commands) /\ \A s \in Seq(Commands) : Append(s, c) \in Seq(Commands)
    BY <2>1
  <2>3. r.pending \in Seq(Commands)
    BY Zenon DEF QueueRecs
  <2> QED
    BY Zenon, <1>1, <2>2, <2>3
<1>3. q = [r EXCEPT !.pending = p]
  BY Zenon, <1>1 DEF Enqueued
<1>4. q \in QueueRecs /\ q.epoch = r.epoch /\ q.accepting = r.accepting /\ q.closed = r.closed /\ q.pending = p
  BY Zenon, <1>2, <1>3 DEF QueueRecs
<1> QED
  BY Zenon, <1>1, <1>4 DEF Collapses

\* The mirror after a command was queued, refused or collapsed.
LEMMA PushMirrors ==
  ASSUME NEW X \in SUBSET Keys, NEW s \in Seq(Commands), NEW u \in Seq(Commands), u # <<>>
  PROVE  /\ Replay(Replay(X, <<ReleaseAll>>), <<>>) = {}
         /\ Replay(Replay(X, Append(s, Head(u))), Tail(u)) = Replay(Replay(X, s), u)
<1>1. Replay(X, <<ReleaseAll>>) = {}
  <2>1. ReleaseAll \in Commands /\ ReleaseAll.op = "release_all"
    BY Zenon DEF Commands, ReleaseAll
  <2> QED
    BY Zenon, <2>1, ReplayOne DEF Applied
<1>2. Replay({}, <<>>) = {}
  BY ReplayNone
<1>3. Head(u) \in Commands /\ Replay(X, s) \in SUBSET Keys
  BY ReplayKeys
<1>4. Replay(X, Append(s, Head(u))) = Applied(Replay(X, s), Head(u))
  BY Zenon, <1>3, ReplayAppend
<1>5. Replay(Replay(X, s), u) = Replay(Applied(Replay(X, s), Head(u)), Tail(u))
  BY Zenon, <1>3, ReplayHead
<1> QED
  BY Zenon, <1>1, <1>2, <1>4, <1>5

\* PushAt.
LEMMA PushAtKeeps ==
  ASSUME IInv, NEW i \in Injectors, PushAt(i)
  PROVE  IInv'
<1>1. PICK q, u, refused : /\ q = queue[i] /\ u = plan[i].todo
                           /\ refused = (q.closed \/ q.epoch # plan[i].epoch \/ ~q.accepting)
  BY Zenon
<1>2. /\ u # <<>> /\ UNCHANGED <<task, conn, agent>>
      /\ queue' = IF refused THEN queue ELSE [queue EXCEPT ![i] = Enqueued(q, Head(u))]
      /\ plan' = [plan EXCEPT ![i] = IF refused \/ Collapses(q) THEN [plan[i] EXCEPT !.held = {}, !.todo = <<>>]
                                     ELSE [plan[i] EXCEPT !.todo = Tail(u)]]
  BY Zenon, <1>1 DEF PushAt
<1>3. /\ task' = task /\ conn' = conn /\ serving' = serving
      /\ Queueing(i) /\ Mirrors(i) /\ task[i].pc \notin {"idle", "open"}
  BY Zenon, <1>1, <1>2 DEF IInv, Queueing, agent
<1>4. q \in QueueRecs /\ u \in Seq(Commands) /\ plan[i] \in PlanRecs
  BY Zenon, <1>1, Typed DEF PlanRecs
<1>5. Head(u) \in Commands /\ Tail(u) \in Seq(Commands) /\ <<>> \in Seq(Commands)
  BY <1>2, <1>4
<1>6. PICK r : r = IF refused THEN q ELSE Enqueued(q, Head(u))
  BY Zenon
<1>7. /\ r \in QueueRecs /\ r.epoch = q.epoch /\ r.accepting = q.accepting /\ r.closed = q.closed
      /\ refused => r = q
      /\ ~refused /\ Collapses(q) => r.pending = <<ReleaseAll>>
      /\ ~refused /\ ~Collapses(q) => r.pending = Append(q.pending, Head(u))
  BY Zenon, <1>4, <1>5, <1>6, QueueEnqueued
<1>8. /\ queue' \in [Injectors -> QueueRecs] /\ queue'[i] = r
      /\ \A j \in Injectors : j # i => queue'[j] = queue[j]
  <2>1. queue \in [Injectors -> QueueRecs]
    BY Zenon DEF IInv, TypeOK
  <2>2. queue' = [queue EXCEPT ![i] = r]
    BY Zenon, <1>1, <1>2, <1>6, <2>1
  <2> QED
    BY Zenon, <1>7, <2>1, <2>2, Edit
<1>9. PICK p : p = IF refused \/ Collapses(q) THEN [plan[i] EXCEPT !.held = {}, !.todo = <<>>]
                   ELSE [plan[i] EXCEPT !.todo = Tail(u)]
  BY Zenon
<1>10. /\ p \in PlanRecs /\ p.epoch = plan[i].epoch /\ p.dropped = plan[i].dropped
       /\ refused \/ Collapses(q) => p.held = {} /\ p.todo = <<>>
       /\ ~refused /\ ~Collapses(q) => p.held = plan[i].held /\ p.todo = Tail(u)
  <2>1. CASE refused \/ Collapses(q)
    <3>1. p = [plan[i] EXCEPT !.held = {}, !.todo = <<>>]
      BY Zenon, <1>9, <2>1
    <3>2. {} \in SUBSET Keys
      OBVIOUS
    <3>3. p \in PlanRecs
      BY Zenon, <1>4, <1>5, <3>1, <3>2 DEF PlanRecs
    <3>4. p.epoch = plan[i].epoch /\ p.dropped = plan[i].dropped /\ p.held = {} /\ p.todo = <<>>
      BY Zenon, <1>4, <3>1 DEF PlanRecs
    <3> QED
      BY Zenon, <2>1, <3>3, <3>4
  <2>2. CASE ~refused /\ ~Collapses(q)
    <3>1. p = [plan[i] EXCEPT !.todo = Tail(u)]
      BY Zenon, <1>9, <2>2
    <3>2. p \in PlanRecs
      BY Zenon, <1>4, <1>5, <3>1 DEF PlanRecs
    <3>3. p.epoch = plan[i].epoch /\ p.dropped = plan[i].dropped /\ p.held = plan[i].held /\ p.todo = Tail(u)
      BY Zenon, <1>4, <3>1 DEF PlanRecs
    <3> QED
      BY Zenon, <2>2, <3>2, <3>3
  <2> QED
    BY Zenon, <2>1, <2>2
<1>11. /\ plan' \in [Injectors -> PlanRecs] /\ plan'[i] = p
       /\ \A j \in Injectors : j # i => plan'[j] = plan[j]
  <2>1. plan' = [plan EXCEPT ![i] = p]
    BY Zenon, <1>2, <1>9
  <2> QED
    BY Zenon, <1>10, <2>1, Edit DEF IInv, TypeOK
<1>12. TypeOK'
  BY Zenon, <1>2, <1>8, <1>11 DEF IInv, TypeOK, agent
<1>13. Queueing(i)'
  BY Zenon, <1>1, <1>3, <1>7, <1>8, <1>10, <1>11 DEF Queueing
<1>14. Mirrors(i)'
  <2>1. SUFFICES ASSUME ~plan[i].dropped, task[i].pc # "done"
                 PROVE  /\ ~Serving(i) => r.pending = <<>> /\ Synced(i)' = Replay({}, Todo(i)')
                        /\ Serving(i) /\ task[i].conn = serving.conn =>
                             \E D : Intended(D)' /\ Synced(i)' = Delivered(i, D)'
    BY Zenon, <1>3, <1>8, <1>10, <1>11 DEF Mirrors, Serving
  <2>2. \A D : Intended(D)' <=> Intended(D)
    BY Zenon, <1>2 DEF Intended, agent
  <2>3. q.pending \in Seq(Commands)
    BY Zenon, <1>4 DEF QueueRecs
  <2>4. ASSUME NEW D
        PROVE  \E X \in SUBSET Keys : /\ Delivered(i, D) = Replay(Replay(X, q.pending), Todo(i))
                                      /\ Delivered(i, D)' = Replay(Replay(X, r.pending), Todo(i)')
    <3>1. PICK X : X = Replay(D, conn[serving.conn].lines)
      BY Zenon
    <3>2. X \in SUBSET Keys
      BY Zenon, <3>1, ReplayKeys
    <3> QED
      BY Zenon, <1>1, <1>3, <1>8, <3>1, <3>2 DEF Delivered
  <2>5. /\ Synced(i)' = (IF q.epoch # plan[i].epoch THEN {} ELSE p.held)
        /\ Todo(i)' = (IF q.epoch # plan[i].epoch THEN <<>> ELSE p.todo)
    BY Zenon, <1>7, <1>8, <1>10, <1>11 DEF Synced, Todo
  <2>6. /\ Synced(i) = (IF q.epoch # plan[i].epoch THEN {} ELSE plan[i].held)
        /\ Todo(i) = (IF q.epoch # plan[i].epoch THEN <<>> ELSE u)
    BY Zenon, <1>1 DEF Synced, Todo
  <2>7. /\ ~Serving(i) => q.pending = <<>> /\ Synced(i) = Replay({}, Todo(i))
        /\ Serving(i) /\ task[i].conn = serving.conn => \E D : Intended(D) /\ Synced(i) = Delivered(i, D)
    BY Zenon, <1>1, <1>3, <2>1 DEF Mirrors
  <2>8. ~q.closed /\ (q.accepting <=> Serving(i))
    BY Zenon, <1>1, <1>3, <2>1 DEF Queueing, Serving
  <2>9. CASE q.epoch # plan[i].epoch
    <3>1. refused /\ r = q
      BY Zenon, <1>1, <1>7, <2>9
    <3>2. Synced(i)' = Synced(i) /\ Todo(i)' = Todo(i)
      BY Zenon, <2>5, <2>6, <2>9
    <3>3. \A D : Delivered(i, D)' = Delivered(i, D)
      BY Zenon, <2>4, <3>1, <3>2
    <3> QED
      BY Zenon, <2>2, <2>7, <3>1, <3>2, <3>3
  <2>10. CASE q.epoch = plan[i].epoch /\ ~q.accepting
    <3>1. refused /\ r = q /\ p.held = {} /\ p.todo = <<>>
      BY Zenon, <1>1, <1>7, <1>10, <2>10
    <3>2. Replay({}, <<>>) = {}
      BY ReplayNone
    <3> QED
      BY Zenon, <2>5, <2>7, <2>8, <2>10, <3>1, <3>2
  <2>11. CASE q.epoch = plan[i].epoch /\ q.accepting /\ Collapses(q)
    <3>1. r.pending = <<ReleaseAll>> /\ p.held = {} /\ p.todo = <<>>
      BY Zenon, <1>1, <1>7, <1>10, <2>8, <2>11
    <3>2. \A X \in SUBSET Keys : Replay(Replay(X, <<ReleaseAll>>), <<>>) = {}
      BY Zenon, <1>2, <1>4, <2>3, PushMirrors
    <3>3. Synced(i)' = {} /\ Todo(i)' = <<>>
      BY Zenon, <2>5, <2>11, <3>1
    <3>4. \A D : Delivered(i, D)' = {}
      BY Zenon, <2>4, <3>1, <3>2, <3>3
    <3> QED
      BY Zenon, <2>2, <2>7, <2>8, <2>11, <3>3, <3>4
  <2>12. CASE q.epoch = plan[i].epoch /\ q.accepting /\ ~Collapses(q)
    <3>1. r.pending = Append(q.pending, Head(u)) /\ p.held = plan[i].held /\ p.todo = Tail(u)
      BY Zenon, <1>1, <1>7, <1>10, <2>8, <2>12
    <3>2. \A X \in SUBSET Keys :
             Replay(Replay(X, Append(q.pending, Head(u))), Tail(u)) = Replay(Replay(X, q.pending), u)
      BY Zenon, <1>2, <1>4, <2>3, PushMirrors
    <3>3. Synced(i)' = Synced(i) /\ Todo(i)' = Tail(u) /\ Todo(i) = u
      BY Zenon, <2>5, <2>6, <2>12, <3>1
    <3>4. \A D : Delivered(i, D)' = Delivered(i, D)
      BY Zenon, <2>4, <3>1, <3>2, <3>3
    <3> QED
      BY Zenon, <2>2, <2>7, <2>8, <2>12, <3>3, <3>4
  <2> QED
    BY Zenon, <2>9, <2>10, <2>11, <2>12
<1> QED
  BY Zenon, <1>2, <1>3, <1>8, <1>11, <1>12, <1>13, <1>14, PlanKeeps

\* Drop.
LEMMA DropKeeps ==
  ASSUME IInv, NEW i \in Injectors, Drop(i)
  PROVE  IInv'
<1>1. PICK r : r = IF queue[i].accepting /\ ~queue[i].closed THEN Enqueued(queue[i], ReleaseAll) ELSE queue[i]
  BY Zenon
<1>2. /\ UNCHANGED <<task, conn, agent>> /\ task[i].pc \notin {"idle", "open"}
      /\ plan' = [plan EXCEPT ![i].dropped = TRUE]
      /\ queue' = [queue EXCEPT ![i] = [r EXCEPT !.closed = TRUE, !.accepting = FALSE]]
  BY Zenon, <1>1 DEF Drop, Live
<1>3. r \in QueueRecs /\ r.epoch = queue[i].epoch
  <2>1. ReleaseAll \in Commands
    BY Zenon DEF Commands
  <2> QED
    <3>1. queue[i] \in QueueRecs
      BY Zenon, Typed
    <3>2. Enqueued(queue[i], ReleaseAll) \in QueueRecs /\ Enqueued(queue[i], ReleaseAll).epoch = queue[i].epoch
      BY Zenon, <2>1, <3>1, QueueEnqueued
    <3> QED
      BY Zenon, <1>1, <3>1, <3>2
<1>4. PICK q : q = [r EXCEPT !.closed = TRUE, !.accepting = FALSE]
  BY Zenon
<1>5. q \in QueueRecs /\ q.epoch = queue[i].epoch
  BY Zenon, <1>3, <1>4 DEF QueueRecs
<1>6. /\ queue' \in [Injectors -> QueueRecs] /\ queue'[i] = q
      /\ \A j \in Injectors : j # i => queue'[j] = queue[j]
  <2>1. queue' = [queue EXCEPT ![i] = q]
    BY Zenon, <1>2, <1>4
  <2> QED
    BY Zenon, <1>5, <2>1, Edit DEF IInv, TypeOK
<1>7. PICK p : p = [plan[i] EXCEPT !.dropped = TRUE]
  BY Zenon
<1>8. p \in PlanRecs /\ p.epoch = plan[i].epoch /\ p.dropped
  BY Zenon, <1>7, Typed DEF PlanRecs
<1>9. /\ plan' \in [Injectors -> PlanRecs] /\ plan'[i] = p
      /\ \A j \in Injectors : j # i => plan'[j] = plan[j]
  <2>1. plan' = [plan EXCEPT ![i] = p]
    BY Zenon, <1>2, <1>7
  <2> QED
    BY Zenon, <1>8, <2>1, Edit DEF IInv, TypeOK
<1>10. TypeOK'
  BY Zenon, <1>2, <1>6, <1>9 DEF IInv, TypeOK, agent
<1>11. Queueing(i)'
  <2>1. plan[i].epoch <= queue[i].epoch
    BY Zenon DEF IInv, Queueing
  <2> QED
    BY Zenon, <1>2, <1>5, <1>6, <1>8, <1>9, <2>1 DEF Queueing
<1>12. Mirrors(i)'
  BY Zenon, <1>8, <1>9 DEF Mirrors
<1> QED
  BY Zenon, <1>2, <1>6, <1>9, <1>10, <1>11, <1>12, PlanKeeps

-----------------------------------------------------------------------------
(* The input service's steps. *)

\* What a step of the service may do to the connections: the one it serves
\* changes, and keeps its owner and whether its requests are past their deadline.
ServedOnly ==
    /\ conn' \in Seq(ConnRecs) /\ DOMAIN conn' = DOMAIN conn
    /\ \A c \in DOMAIN conn : c # serving.conn => conn'[c] = conn[c]
    /\ serving.conn # 0 => /\ conn'[serving.conn].owner = conn[serving.conn].owner
                           /\ conn'[serving.conn].expired = conn[serving.conn].expired

\* A step that ends a connection and serves the next one or none: the connection
\* that was served carries nothing any more, and no key is left but an astray one.
LEMMA LeavesKeeps ==
  ASSUME IInv, UNCHANGED <<task, plan, queue>>,
         serving' \in [conn : Nat, command : Commands \cup {Hello}], serving'.command = Hello,
         \/ backlog # <<>> /\ serving'.conn = Head(backlog) /\ backlog' = Tail(backlog)
         \/ serving'.conn = 0 /\ backlog' = backlog,
         ServedOnly, serving.conn # 0 => conn'[serving.conn].lines = <<>>,
         held' = {}, comp' \in SUBSET Keys, comp' \subseteq astray'
  PROVE  IInv'
<1>1. /\ DOMAIN conn = 1 .. Len(conn) /\ backlog \in Seq(Nat) /\ serving.conn \in Nat
      /\ DOMAIN backlog = 1 .. Len(backlog) /\ Len(backlog) \in Nat
      /\ task' = task /\ plan' = plan /\ queue' = queue /\ held' \in SUBSET Keys
  BY DEF IInv, TypeOK
<1>2. /\ \A j \in DOMAIN backlog : /\ backlog[j] \in DOMAIN conn /\ serving.conn < backlog[j]
                                   /\ conn[backlog[j]].replies = <<>> /\ ~conn[backlog[j]].over
      /\ \A j, l \in DOMAIN backlog : j < l => backlog[j] < backlog[l]
  BY Zenon DEF IInv, Backlogged
<1>3. \A j \in DOMAIN backlog : /\ backlog[j] # serving.conn /\ 0 < backlog[j]
  BY <1>1, <1>2
<1>4. \A j \in DOMAIN backlog : conn'[backlog[j]] = conn[backlog[j]]
  BY Zenon, <1>2, <1>3 DEF ServedOnly
<1>5. \/ serving'.conn = 0 /\ backlog' = backlog
      \/ /\ 1 \in DOMAIN backlog /\ serving'.conn = backlog[1] /\ backlog' \in Seq(Nat)
         /\ \A j \in DOMAIN backlog' : j + 1 \in DOMAIN backlog /\ backlog'[j] = backlog[j + 1] /\ j \in Nat /\ 1 < j + 1
  <2>1. ASSUME NEW b \in Seq(Nat), b # <<>>
        PROVE  /\ 1 \in DOMAIN b /\ Head(b) = b[1] /\ Tail(b) \in Seq(Nat)
               /\ \A j \in DOMAIN Tail(b) : j + 1 \in DOMAIN b /\ Tail(b)[j] = b[j + 1] /\ j \in Nat /\ 1 < j + 1
    BY <2>1
  <2>2. CASE backlog # <<>> /\ serving'.conn = Head(backlog) /\ backlog' = Tail(backlog)
    <3>1. /\ 1 \in DOMAIN backlog /\ Head(backlog) = backlog[1] /\ Tail(backlog) \in Seq(Nat)
          /\ \A j \in DOMAIN Tail(backlog) :
                j + 1 \in DOMAIN backlog /\ Tail(backlog)[j] = backlog[j + 1] /\ j \in Nat /\ 1 < j + 1
      BY Zenon, <1>1, <2>1, <2>2
    <3> QED
      BY Zenon, <2>2, <3>1
  <2> QED
    BY Zenon, <2>2
<1>6. TypeOK'
  <2>1. backlog' \in Seq(Nat)
    BY Zenon, <1>1, <1>5
  <2> QED
    BY Zenon, <1>1, <2>1 DEF IInv, TypeOK, ServedOnly
<1>7. \A j \in DOMAIN backlog' : \E l \in DOMAIN backlog : backlog'[j] = backlog[l] /\ serving'.conn < backlog[l]
  <2>1. CASE serving'.conn = 0 /\ backlog' = backlog
    BY Zenon, <1>3, <2>1
  <2>2. CASE /\ 1 \in DOMAIN backlog /\ serving'.conn = backlog[1] /\ backlog' \in Seq(Nat)
             /\ \A j \in DOMAIN backlog' : j + 1 \in DOMAIN backlog /\ backlog'[j] = backlog[j + 1] /\ j \in Nat /\ 1 < j + 1
    BY Zenon, <1>2, <2>2
  <2> QED
    BY Zenon, <1>5, <2>1, <2>2
<1>8. Backlogged'
  <2>1. ASSUME NEW j \in DOMAIN backlog', NEW l \in DOMAIN backlog', j < l
        PROVE  backlog'[j] < backlog'[l]
    <3>1. CASE serving'.conn = 0 /\ backlog' = backlog
      BY Zenon, <1>2, <2>1, <3>1
    <3>2. CASE \A k \in DOMAIN backlog' : k + 1 \in DOMAIN backlog /\ backlog'[k] = backlog[k + 1] /\ k \in Nat /\ 1 < k + 1
      <4>1. j + 1 < l + 1
        BY <2>1, <3>2
      <4> QED
        BY Zenon, <1>2, <3>2, <4>1
    <3> QED
      BY Zenon, <1>5, <3>1, <3>2
  <2>2. ASSUME NEW j \in DOMAIN backlog'
        PROVE  /\ backlog'[j] \in DOMAIN conn' /\ serving'.conn < backlog'[j]
               /\ conn'[backlog'[j]].replies = <<>> /\ ~conn'[backlog'[j]].over
    <3>1. PICK l \in DOMAIN backlog : backlog'[j] = backlog[l] /\ serving'.conn < backlog[l]
      BY Zenon, <1>7
    <3>2. conn'[backlog[l]] = conn[backlog[l]] /\ backlog[l] \in DOMAIN conn'
      BY Zenon, <1>2, <1>4 DEF ServedOnly
    <3> QED
      BY Zenon, <1>2, <3>1, <3>2
  <2> QED
    BY Zenon, <2>1, <2>2 DEF Backlogged
<1>9. serving'.conn # 0 => \E l \in DOMAIN backlog : serving'.conn = backlog[l]
  BY Zenon, <1>5
<1>10. Injecting'
  <2>1. serving'.conn # 0 => serving'.conn \in DOMAIN conn' /\ ~conn'[serving'.conn].over
    BY Zenon, <1>2, <1>4, <1>9 DEF ServedOnly
  <2> QED
    BY Zenon, <2>1 DEF Injecting, Idle
<1>11. Known'
  BY Zenon DEF Known
<1>12. ASSUME NEW i \in Injectors
       PROVE  Owns(i)' /\ Fresh(i)' /\ Carrying(i)' /\ Queueing(i)' /\ Mirrors(i)'
  <2>1. Owns(i) /\ Fresh(i) /\ Carrying(i) /\ Queueing(i) /\ Mirrors(i)
    BY Zenon DEF IInv
  <2>2. ASSUME NEW c \in DOMAIN conn
        PROVE  /\ c \in DOMAIN conn' /\ conn'[c].owner = conn[c].owner /\ conn'[c].expired = conn[c].expired
               /\ conn'[c].lines = <<>> \/ conn'[c] = conn[c]
    <3>1. CASE c = serving.conn
      <4>1. c # 0
        BY <1>1
      <4> QED
        BY Zenon, <3>1, <4>1 DEF ServedOnly
    <3>2. CASE c # serving.conn
      BY Zenon, <3>2 DEF ServedOnly
    <3> QED
      BY Zenon, <3>1, <3>2
  <2>3. Owns(i)'
    <3>1. \A c \in {task[i].conn, task[i].next} : c # 0 => c \in DOMAIN conn /\ conn[c].owner = i
      BY Zenon, <2>1 DEF Owns
    <3>2. \A c \in DOMAIN conn : c \in DOMAIN conn' /\ conn'[c].owner = conn[c].owner
      BY Zenon, <2>2
    <3>3. \A c \in {task[i].conn, task[i].next} : c # 0 => c \in DOMAIN conn' /\ conn'[c].owner = i
      BY Zenon, <3>1, <3>2
    <3> QED
      BY Zenon, <1>1, <3>3 DEF Owns
  <2>4. <<>> # <<Hello>> /\ <<>> \in Seq(Commands)
    OBVIOUS
  <2>5. Fresh(i)'
    <3>1. SUFFICES ASSUME Opening(i)
                   PROVE  /\ task[i].next \in DOMAIN conn'
                          /\ conn'[task[i].next].owner = i /\ ~conn'[task[i].next].expired
                          /\ conn'[task[i].next].lines \in {<<>>, <<Hello>>}
                          /\ conn'[task[i].next].lines = <<Hello>> => conn'[task[i].next].replies = <<>>
                          /\ comp' \subseteq astray'
      BY Zenon, <1>1 DEF Fresh, Opening
    <3>2. /\ task[i].next \in DOMAIN conn
          /\ conn[task[i].next].owner = i /\ ~conn[task[i].next].expired
          /\ conn[task[i].next].lines \in {<<>>, <<Hello>>}
          /\ conn[task[i].next].lines = <<Hello>> => conn[task[i].next].replies = <<>>
      BY Zenon, <2>1, <3>1 DEF Fresh
    <3>3. PICK c : c = task[i].next
      BY Zenon
    <3> QED
      BY Zenon, <2>2, <2>4, <3>2, <3>3
  <2>6. Carrying(i)'
    <3>1. SUFFICES ASSUME Serving(i)
                   PROVE  /\ task[i].conn \in DOMAIN conn'
                          /\ conn'[task[i].conn].owner = i /\ ~conn'[task[i].conn].expired
                          /\ conn'[task[i].conn].lines \in Seq(Commands)
                          /\ \A j \in DOMAIN backlog' : backlog'[j] # task[i].conn
      BY Zenon, <1>1 DEF Carrying, Serving
    <3>2. /\ task[i].conn \in DOMAIN conn
          /\ conn[task[i].conn].owner = i /\ ~conn[task[i].conn].expired
          /\ conn[task[i].conn].lines \in Seq(Commands)
          /\ \A j \in DOMAIN backlog : backlog[j] # task[i].conn
      BY Zenon, <2>1, <3>1 DEF Carrying
    <3>3. PICK c : c = task[i].conn
      BY Zenon
    <3>4. \A j \in DOMAIN backlog' : backlog'[j] # c
      BY Zenon, <1>7, <3>2, <3>3
    <3> QED
      BY Zenon, <2>2, <2>4, <3>2, <3>3, <3>4
  <2>7. Queueing(i)'
    BY Zenon, <1>1, <2>1 DEF Queueing
  <2>8. Serving(i) => task[i].conn # serving'.conn
    <3>1. Serving(i) => task[i].conn # 0
      BY <1>1, <2>1 DEF Carrying
    <3> QED
      BY Zenon, <1>9, <2>1, <3>1 DEF Carrying
  <2>9. Mirrors(i)'
    <3>1. Synced(i)' = Synced(i) /\ Todo(i)' = Todo(i) /\ (Serving(i)' <=> Serving(i))
      BY Zenon, <1>1 DEF Synced, Todo, Serving
    <3> QED
      BY Zenon, <1>1, <2>1, <2>8, <3>1 DEF Mirrors
  <2> QED
    BY Zenon, <2>3, <2>5, <2>6, <2>7, <2>9
<1> QED
  BY Zenon, <1>6, <1>8, <1>10, <1>11, <1>12 DEF IInv

\* What is released in the end is everything but the keys astray, now with those
\* whose release failed.
LEMMA Released ==
  ASSUME IInv, ReleaseHeld
  PROVE  held' = {} /\ comp' \in SUBSET Keys /\ comp' \subseteq astray'
<1>1. PICK missed \in SUBSET held :
        /\ held' = {} /\ comp' = comp \ (held \ missed) /\ astray' = (astray \ held) \cup (missed \cap comp)
  BY Zenon DEF ReleaseHeld
<1>2. comp \in SUBSET Keys /\ comp \subseteq held \cup astray
  BY Zenon DEF IInv, TypeOK, Known
<1> QED
  BY SMT, <1>1, <1>2

\* The service's next connection is of its type.
LEMMA ServingNext ==
  ASSUME IInv, NEW n \in Nat, serving' = [serving EXCEPT !.conn = n], Idle
  PROVE  /\ serving' \in [conn : Nat, command : Commands \cup {Hello}]
         /\ serving'.conn = n /\ serving'.command = Hello
  BY Zenon DEF IInv, TypeOK, Idle

\* The first of the backlog.
LEMMA BacklogHead ==
  ASSUME IInv, backlog # <<>>
  PROVE  Head(backlog) \in Nat
  BY DEF IInv, TypeOK

\* The served connection is replaced.
LEMMA ServedEdit ==
  ASSUME IInv, serving.conn # 0, NEW r \in ConnRecs, conn' = [conn EXCEPT ![serving.conn] = r],
         r.owner = conn[serving.conn].owner, r.expired = conn[serving.conn].expired
  PROVE  ServedOnly /\ conn'[serving.conn] = r
<1>1. conn \in Seq(ConnRecs) /\ serving.conn \in DOMAIN conn
  BY Zenon DEF IInv, TypeOK, Injecting
<1>2. PICK c, d : c = serving.conn /\ d = conn'
  BY Zenon
<1>3. /\ d \in Seq(ConnRecs) /\ DOMAIN d = DOMAIN conn /\ d[c] = r
      /\ \A b \in DOMAIN conn : b # c => d[b] = conn[b]
  <2>1. c \in DOMAIN conn /\ d = [conn EXCEPT ![c] = r]
    BY Zenon, <1>1, <1>2
  <2> QED
    BY Zenon, <1>1, <2>1, ConnEdit
<1> QED
  BY Zenon, <1>2, <1>3 DEF ServedOnly

\* The served connection is one.
LEMMA Served ==
  ASSUME IInv, serving.conn # 0
  PROVE  serving.conn \in DOMAIN conn /\ conn[serving.conn] \in ConnRecs /\ ~conn[serving.conn].over
<1>1. conn \in Seq(ConnRecs) /\ serving.conn \in DOMAIN conn /\ ~conn[serving.conn].over
  BY Zenon DEF IInv, TypeOK, Injecting
<1> QED
  BY <1>1

\* Accept.
LEMMA AcceptKeeps ==
  ASSUME IInv, Accept
  PROVE  IInv'
<1>1. /\ serving.conn = 0 /\ backlog # <<>> /\ serving' = [serving EXCEPT !.conn = Head(backlog)]
      /\ backlog' = Tail(backlog) /\ conn' = conn /\ held' = held /\ comp' = comp /\ astray' = astray
      /\ UNCHANGED <<task, plan, queue>>
  BY Zenon DEF Accept, pier
<1>2. Idle
  BY Zenon, <1>1 DEF IInv, Injecting
<1>3. /\ serving' \in [conn : Nat, command : Commands \cup {Hello}]
      /\ serving'.conn = Head(backlog) /\ serving'.command = Hello
  BY Zenon, <1>1, <1>2, BacklogHead, ServingNext
<1>4. ServedOnly
  BY Zenon, <1>1 DEF ServedOnly, IInv, TypeOK
<1>5. held' = {} /\ comp' \in SUBSET Keys
  BY Zenon, <1>1 DEF IInv, TypeOK, Known
<1>6. comp' \subseteq astray'
  <2>1. held = {} /\ comp \subseteq held \cup astray
    BY Zenon, <1>1 DEF IInv, Known
  <2> QED
    BY SMT, <1>1, <2>1
<1> QED
  BY Zenon, <1>1, <1>3, <1>4, <1>5, <1>6, LeavesKeeps

\* Supersede.
LEMMA SupersedeKeeps ==
  ASSUME IInv, Supersede
  PROVE  IInv'
<1>1. /\ serving.conn # 0 /\ Idle /\ backlog # <<>> /\ serving' = [serving EXCEPT !.conn = Head(backlog)]
      /\ backlog' = Tail(backlog) /\ ReleaseHeld
      /\ UNCHANGED <<task, plan, queue>>
  BY Zenon DEF Supersede, pier
<1>2. PICK c, l : c = serving.conn /\ l = Append(conn[c].replies, "superseded")
  BY Zenon
<1>3. conn' = [conn EXCEPT ![c].replies = l, ![c].lines = <<>>, ![c].over = TRUE]
  BY Zenon, <1>2 DEF Supersede
<1>4. PICK r : r = [conn[c] EXCEPT !.replies = l, !.lines = <<>>, !.over = TRUE]
  BY Zenon
<1>5. conn' = [conn EXCEPT ![serving.conn] = r]
  BY Zenon, <1>2, <1>3, <1>4
<1>6. conn[c] \in ConnRecs /\ l \in Replies /\ <<>> \in Lines
  <2>1. conn[c] \in ConnRecs
    BY Zenon, <1>1, <1>2, Served
  <2>2. conn[c].replies \in Replies
    BY Zenon, <2>1 DEF ConnRecs
  <2>3. l \in Replies /\ <<>> \in Lines
    BY <1>2, <2>2 DEF Replies, Lines
  <2> QED
    BY Zenon, <2>1, <2>3
<1>7. r.owner = conn[c].owner /\ r.expired = conn[c].expired /\ r.lines = <<>>
  BY Zenon, <1>4, <1>6 DEF ConnRecs
<1>8. r \in ConnRecs
  BY Zenon, <1>4, <1>6 DEF ConnRecs
<1>9. ServedOnly /\ conn'[serving.conn].lines = <<>>
  BY Zenon, <1>1, <1>2, <1>5, <1>7, <1>8, ServedEdit
<1>10. /\ serving' \in [conn : Nat, command : Commands \cup {Hello}]
       /\ serving'.conn = Head(backlog) /\ serving'.command = Hello
  BY Zenon, <1>1, BacklogHead, ServingNext
<1>12. held' = {} /\ comp' \in SUBSET Keys /\ comp' \subseteq astray'
  BY Zenon, <1>1, Released
<1> QED
  BY Zenon, <1>1, <1>9, <1>10, <1>12, LeavesKeeps

\* ReadEof.
LEMMA ReadEofKeeps ==
  ASSUME IInv, ReadEof
  PROVE  IInv'
<1>1. /\ serving.conn # 0 /\ Idle /\ conn[serving.conn].lines = <<>> /\ serving' = [serving EXCEPT !.conn = 0]
      /\ backlog' = backlog /\ ReleaseHeld
      /\ UNCHANGED <<task, plan, queue>>
  BY Zenon DEF ReadEof, pier
<1>2. PICK c : c = serving.conn
  BY Zenon
<1>3. conn' = [conn EXCEPT ![c].over = TRUE]
  BY Zenon, <1>2 DEF ReadEof
<1>4. PICK r : r = [conn[c] EXCEPT !.over = TRUE]
  BY Zenon
<1>5. conn' = [conn EXCEPT ![serving.conn] = r] /\ conn[c] \in ConnRecs
  BY Zenon, <1>1, <1>2, <1>3, <1>4, Served
<1>6. r \in ConnRecs /\ r.owner = conn[c].owner /\ r.expired = conn[c].expired /\ r.lines = conn[c].lines
  BY Zenon, <1>4, <1>5 DEF ConnRecs
<1>7. ServedOnly /\ conn'[serving.conn].lines = <<>>
  BY Zenon, <1>1, <1>2, <1>5, <1>6, ServedEdit
<1>8. /\ serving' \in [conn : Nat, command : Commands \cup {Hello}]
      /\ serving'.conn = 0 /\ serving'.command = Hello
  <2>1. 0 \in Nat
    OBVIOUS
  <2> QED
    BY Zenon, <1>1, <2>1, ServingNext
<1>10. held' = {} /\ comp' \in SUBSET Keys /\ comp' \subseteq astray'
  BY Zenon, <1>1, Released
<1> QED
  BY Zenon, <1>1, <1>7, <1>8, <1>10, LeavesKeeps

\* ReplyFails.
LEMMA ReplyFailsKeeps ==
  ASSUME IInv, ReplyFails
  PROVE  IInv'
<1>1. /\ serving.conn # 0 /\ Idle /\ serving' = [serving EXCEPT !.conn = 0]
      /\ conn[serving.conn].replies # <<>>
      /\ backlog' = backlog /\ ReleaseHeld
      /\ UNCHANGED <<task, plan, queue>>
  BY Zenon DEF ReplyFails, pier
<1>2. PICK c, l : c = serving.conn /\ l = SubSeq(conn[c].replies, 1, Len(conn[c].replies) - 1)
  BY Zenon
<1>3. conn' = [conn EXCEPT ![c].replies = l, ![c].lines = <<>>, ![c].over = TRUE]
  BY Zenon, <1>2 DEF ReplyFails
<1>4. PICK r : r = [conn[c] EXCEPT !.replies = l, !.lines = <<>>, !.over = TRUE]
  BY Zenon
<1>5. conn' = [conn EXCEPT ![serving.conn] = r]
  BY Zenon, <1>2, <1>3, <1>4
<1>6. conn[c] \in ConnRecs /\ l \in Replies /\ <<>> \in Lines
  <2>1. conn[c] \in ConnRecs
    BY Zenon, <1>1, <1>2, Served
  <2>2. conn[c].replies \in Replies
    BY Zenon, <2>1 DEF ConnRecs
  <2>3. l \in Replies /\ <<>> \in Lines
    BY <1>1, <1>2, <2>2 DEF Replies, Lines
  <2> QED
    BY Zenon, <2>1, <2>3
<1>7. r.owner = conn[c].owner /\ r.expired = conn[c].expired /\ r.lines = <<>>
  BY Zenon, <1>4, <1>6 DEF ConnRecs
<1>8. r \in ConnRecs
  BY Zenon, <1>4, <1>6 DEF ConnRecs
<1>9. ServedOnly /\ conn'[serving.conn].lines = <<>>
  BY Zenon, <1>1, <1>2, <1>5, <1>7, <1>8, ServedEdit
<1>10. /\ serving' \in [conn : Nat, command : Commands \cup {Hello}]
       /\ serving'.conn = 0 /\ serving'.command = Hello
  <2>1. 0 \in Nat
    OBVIOUS
  <2> QED
    BY Zenon, <1>1, <2>1, ServingNext
<1>12. held' = {} /\ comp' \in SUBSET Keys /\ comp' \subseteq astray'
  BY Zenon, <1>1, Released
<1> QED
  BY Zenon, <1>1, <1>9, <1>10, <1>12, LeavesKeeps

\* What the served lines make of the intended keys stays the same, as the keys
\* intended follow the lines taken off.
Follows ==
    \A D : Intended(D) =>
        \E E : Intended(E)' /\ Replay(E, conn'[serving.conn].lines) = Replay(D, conn[serving.conn].lines)

\* A step that answers a line of the served connection, or starts on it.
LEMMA StaysKeeps ==
  ASSUME IInv, UNCHANGED <<task, plan, queue, backlog>>,
         serving.conn # 0, serving' \in [conn : Nat, command : Commands \cup {Hello}],
         serving'.conn = serving.conn, ServedOnly, ~conn'[serving.conn].over,
         held' \in SUBSET Keys, comp' \in SUBSET Keys, comp' \subseteq held' \cup astray',
         ~Idle' => /\ serving'.command \in Keyed /\ conn'[serving.conn].lines # <<>>
                   /\ serving'.command = Head(conn'[serving.conn].lines),
         \A i \in Injectors : Opening(i) /\ task[i].next = serving.conn =>
             /\ conn'[serving.conn].lines \in {<<>>, <<Hello>>}
             /\ conn'[serving.conn].lines = <<Hello>> => conn'[serving.conn].replies = <<>>
             /\ comp' \subseteq astray',
         \A i \in Injectors : Serving(i) /\ task[i].conn = serving.conn =>
             conn'[serving.conn].lines \in Seq(Commands) /\ Follows
  PROVE  IInv'
<1>1. /\ task' = task /\ plan' = plan /\ queue' = queue /\ backlog' = backlog
      /\ conn' \in Seq(ConnRecs) /\ DOMAIN conn' = DOMAIN conn
      /\ \A c \in DOMAIN conn : c # serving.conn => conn'[c] = conn[c]
      /\ conn'[serving.conn].owner = conn[serving.conn].owner
      /\ conn'[serving.conn].expired = conn[serving.conn].expired
      /\ serving.conn \in DOMAIN conn
  BY Zenon, Served DEF ServedOnly
<1>2. TypeOK'
  BY Zenon, <1>1 DEF IInv, TypeOK
<1>3. /\ \A j \in DOMAIN backlog : /\ backlog[j] \in DOMAIN conn /\ serving.conn < backlog[j]
                                   /\ conn[backlog[j]].replies = <<>> /\ ~conn[backlog[j]].over
      /\ \A j, l \in DOMAIN backlog : j < l => backlog[j] < backlog[l]
  BY Zenon DEF IInv, Backlogged
<1>4. Backlogged'
  <2>1. \A j \in DOMAIN backlog : backlog[j] # serving.conn
    <3>1. \A n \in Nat : ~(n < n)
      OBVIOUS
    <3>2. serving.conn \in Nat
      BY Zenon DEF IInv, TypeOK
    <3> QED
      BY Zenon, <1>3, <3>1, <3>2
  <2>2. \A j \in DOMAIN backlog : conn'[backlog[j]] = conn[backlog[j]]
    BY Zenon, <1>1, <1>3, <2>1
  <2> QED
    BY Zenon, <1>1, <1>3, <2>2 DEF Backlogged
<1>5. Injecting'
  BY Zenon, <1>1 DEF Injecting
<1>6. Known'
  BY Zenon DEF Known
<1>7. ASSUME NEW i \in Injectors
      PROVE  Owns(i)' /\ Fresh(i)' /\ Carrying(i)' /\ Queueing(i)' /\ Mirrors(i)'
  <2>1. Owns(i) /\ Fresh(i) /\ Carrying(i) /\ Queueing(i) /\ Mirrors(i)
    BY Zenon DEF IInv
  <2>2. \A c \in DOMAIN conn : /\ conn'[c].owner = conn[c].owner /\ conn'[c].expired = conn[c].expired
                               /\ c # serving.conn => conn'[c] = conn[c]
    BY Zenon, <1>1
  <2>3. Owns(i)'
    <3>1. \A c \in {task[i].conn, task[i].next} : c # 0 => c \in DOMAIN conn /\ conn[c].owner = i
      BY Zenon, <2>1 DEF Owns
    <3>2. \A c \in {task[i].conn, task[i].next} : c # 0 => c \in DOMAIN conn' /\ conn'[c].owner = i
      BY Zenon, <1>1, <2>2, <3>1
    <3> QED
      BY Zenon, <1>1, <3>2 DEF Owns
  <2>4. Fresh(i)'
    <3>1. SUFFICES ASSUME Opening(i)
                   PROVE  /\ task[i].next \in DOMAIN conn'
                          /\ conn'[task[i].next].owner = i /\ ~conn'[task[i].next].expired
                          /\ conn'[task[i].next].lines \in {<<>>, <<Hello>>}
                          /\ conn'[task[i].next].lines = <<Hello>> => conn'[task[i].next].replies = <<>>
                          /\ task[i].next = serving.conn => comp' \subseteq astray'
      BY Zenon, <1>1 DEF Fresh, Opening
    <3>2. PICK c : c = task[i].next
      BY Zenon
    <3>3. /\ c \in DOMAIN conn /\ conn[c].owner = i /\ ~conn[c].expired /\ conn[c].lines \in {<<>>, <<Hello>>}
          /\ conn[c].lines = <<Hello>> => conn[c].replies = <<>>
      BY Zenon, <2>1, <3>1, <3>2 DEF Fresh
    <3>4. CASE c = serving.conn
      BY Zenon, <1>1, <2>2, <3>1, <3>2, <3>3, <3>4
    <3>5. CASE c # serving.conn
      BY Zenon, <1>1, <2>2, <3>2, <3>3, <3>5
    <3> QED
      BY Zenon, <3>4, <3>5
  <2>5. Carrying(i)'
    <3>1. SUFFICES ASSUME Serving(i)
                   PROVE  /\ task[i].conn \in DOMAIN conn'
                          /\ conn'[task[i].conn].owner = i /\ ~conn'[task[i].conn].expired
                          /\ conn'[task[i].conn].lines \in Seq(Commands)
                          /\ \A j \in DOMAIN backlog : backlog[j] # task[i].conn
      BY Zenon, <1>1 DEF Carrying, Serving
    <3>2. PICK c : c = task[i].conn
      BY Zenon
    <3>3. /\ c \in DOMAIN conn /\ conn[c].owner = i /\ ~conn[c].expired /\ conn[c].lines \in Seq(Commands)
          /\ \A j \in DOMAIN backlog : backlog[j] # c
      BY Zenon, <2>1, <3>1, <3>2 DEF Carrying
    <3>4. CASE c = serving.conn
      BY Zenon, <1>1, <2>2, <3>1, <3>2, <3>3, <3>4
    <3>5. CASE c # serving.conn
      BY Zenon, <1>1, <2>2, <3>2, <3>3, <3>5
    <3> QED
      BY Zenon, <3>4, <3>5
  <2>6. Queueing(i)'
    BY Zenon, <1>1, <2>1 DEF Queueing
  <2>7. Mirrors(i)'
    <3>1. Synced(i)' = Synced(i) /\ Todo(i)' = Todo(i) /\ (Serving(i)' <=> Serving(i))
      BY Zenon, <1>1 DEF Synced, Todo, Serving
    <3>2. ASSUME Serving(i), task[i].conn = serving.conn, NEW D, Intended(D)
          PROVE  \E E : Intended(E)' /\ Delivered(i, E)' = Delivered(i, D)
      <4>1. PICK E : /\ Intended(E)'
                     /\ Replay(E, conn'[serving.conn].lines) = Replay(D, conn[serving.conn].lines)
        BY Zenon, <3>2 DEF Follows
      <4>2. queue'[i].pending = queue[i].pending /\ serving'.conn = serving.conn
        BY Zenon, <1>1
      <4>3. Delivered(i, E)' = Delivered(i, D)
        BY Zenon, <3>1, <4>1, <4>2 DEF Delivered
      <4> QED
        BY Zenon, <4>1, <4>3
    <3> QED
      BY Zenon, <1>1, <2>1, <3>1, <3>2 DEF Mirrors
  <2> QED
    BY Zenon, <2>3, <2>4, <2>5, <2>6, <2>7
<1> QED
  BY Zenon, <1>2, <1>4, <1>5, <1>6, <1>7 DEF IInv

\* An answered line is taken off the connection's lines.
LEMMA Answered ==
  ASSUME IInv, serving.conn # 0, conn[serving.conn].lines # <<>>, NEW rep \in {"ok", "refused"},
         Answer(serving.conn, rep)
  PROVE  /\ ServedOnly /\ ~conn'[serving.conn].over
         /\ conn'[serving.conn].lines = Tail(conn[serving.conn].lines)
<1>1. PICK c, l, m : c = serving.conn /\ l = Append(conn[c].replies, rep) /\ m = Tail(conn[c].lines)
  BY Zenon
<1>2. conn' = [conn EXCEPT ![c].lines = m, ![c].replies = l]
  BY Zenon, <1>1 DEF Answer
<1>3. PICK r : r = [conn[c] EXCEPT !.lines = m, !.replies = l]
  BY Zenon
<1>4. conn' = [conn EXCEPT ![serving.conn] = r]
  BY Zenon, <1>1, <1>2, <1>3
<1>5. conn[c] \in ConnRecs /\ l \in Replies /\ m \in Lines /\ ~conn[c].over
  <2>1. conn[c] \in ConnRecs /\ ~conn[c].over
    BY Zenon, <1>1, Served
  <2>2. conn[c].replies \in Replies /\ conn[c].lines \in Lines
    BY Zenon, <2>1 DEF ConnRecs
  <2>3. l \in Replies
    BY <1>1, <2>2 DEF Replies
  <2>4. m \in Lines
    BY <1>1, <2>2 DEF Lines
  <2> QED
    BY Zenon, <2>1, <2>3, <2>4
<1>6. r.owner = conn[c].owner /\ r.expired = conn[c].expired /\ r.lines = m /\ r.over = conn[c].over
  BY Zenon, <1>3, <1>5 DEF ConnRecs
<1>7. r \in ConnRecs
  BY Zenon, <1>3, <1>5 DEF ConnRecs
<1>8. ServedOnly /\ conn'[serving.conn] = r
  BY Zenon, <1>1, <1>4, <1>6, <1>7, ServedEdit
<1> QED
  BY Zenon, <1>1, <1>5, <1>6, <1>8

\* The lines of a task's connection, read by the service.
LEMMA TaskLines ==
  ASSUME IInv, NEW i \in Injectors, serving.conn # 0, conn[serving.conn].lines # <<>>
  PROVE  /\ Opening(i) /\ task[i].next = serving.conn =>
              /\ ~conn[serving.conn].expired /\ Line = Hello /\ Tail(conn[serving.conn].lines) = <<>>
              /\ comp \subseteq astray
         /\ Serving(i) /\ task[i].conn = serving.conn =>
              /\ ~conn[serving.conn].expired /\ Line \in Commands
              /\ conn[serving.conn].lines \in Seq(Commands) /\ Tail(conn[serving.conn].lines) \in Seq(Commands)
<1>1. Fresh(i) /\ Carrying(i)
  BY Zenon DEF IInv
<1>2. Head(<<Hello>>) = Hello /\ Tail(<<Hello>>) = <<>>
  OBVIOUS
<1>3. \A s \in Seq(Commands) : s # <<>> => Head(s) \in Commands /\ Tail(s) \in Seq(Commands)
  OBVIOUS
<1>4. Opening(i) /\ task[i].next = serving.conn =>
        /\ ~conn[serving.conn].expired /\ conn[serving.conn].lines = <<Hello>>
        /\ comp \subseteq astray
  BY Zenon, <1>1 DEF Fresh
<1>5. Serving(i) /\ task[i].conn = serving.conn =>
        ~conn[serving.conn].expired /\ conn[serving.conn].lines \in Seq(Commands)
  BY Zenon, <1>1 DEF Carrying
<1> QED
  BY Zenon, <1>2, <1>3, <1>4, <1>5 DEF Line

\* A hello is no command, and a line that is a key is one.
LEMMA LineForms ==
  ASSUME NEW c \in Commands \cup {Hello}
  PROVE  /\ Hello \notin Commands
         /\ c.op = "key" => c \in Keyed /\ c.key \in Keys /\ c.pressed \in BOOLEAN /\ c # Hello
  BY DEF Commands, Keyed, ReleaseAll, Hello

\* ReadLine.
LEMMA ReadLineKeeps ==
  ASSUME IInv, ReadLine
  PROVE  IInv'
<1>1. /\ serving.conn # 0 /\ Idle /\ conn[serving.conn].lines # <<>>
      /\ UNCHANGED <<task, plan, queue, backlog>>
  BY Zenon DEF ReadLine, Handle, HasLine, pier
<1>2. /\ held \in SUBSET Keys /\ comp \in SUBSET Keys
      /\ serving \in [conn : Nat, command : Commands \cup {Hello}]
      /\ comp \subseteq held \cup astray
  BY Zenon DEF IInv, TypeOK, Known
<1>3. CASE conn[serving.conn].expired
  <2>1. Answer(serving.conn, "refused") /\ serving' = serving /\ held' = held /\ comp' = comp /\ astray' = astray
    BY Zenon, <1>3 DEF ReadLine, Handle
  <2>2. ServedOnly /\ ~conn'[serving.conn].over
    BY Zenon, <1>1, <2>1, Answered
  <2>3. \A i \in Injectors : /\ ~(Opening(i) /\ task[i].next = serving.conn)
                             /\ ~(Serving(i) /\ task[i].conn = serving.conn)
    BY Zenon, <1>1, <1>3, TaskLines
  <2>4. Idle'
    BY Zenon, <1>1, <2>1 DEF Idle
  <2>5. /\ held' \in SUBSET Keys /\ comp' \in SUBSET Keys /\ comp' \subseteq held' \cup astray'
        /\ serving' \in [conn : Nat, command : Commands \cup {Hello}] /\ serving'.conn = serving.conn
    BY Zenon, <1>2, <2>1
  <2> QED
    BY Zenon, <1>1, <2>2, <2>3, <2>4, <2>5, StaysKeeps
<1>4. CASE ~conn[serving.conn].expired /\ Line = Hello
  <2>1. Line.op # "key" /\ Line # ReleaseAll
    BY <1>4 DEF Hello, ReleaseAll
  <2>2. Answer(serving.conn, "ok") /\ serving' = serving /\ held' = held /\ comp' = comp /\ astray' = astray
    BY Zenon, <1>4, <2>1 DEF ReadLine, Handle
  <2>3. ServedOnly /\ ~conn'[serving.conn].over /\ conn'[serving.conn].lines = Tail(conn[serving.conn].lines)
    BY Zenon, <1>1, <2>2, Answered
  <2>4. \A i \in Injectors : ~(Serving(i) /\ task[i].conn = serving.conn)
    BY Zenon, <1>1, <1>4, TaskLines, LineForms
  <2>5. <<>> # <<Hello>>
    OBVIOUS
  <2>6. \A i \in Injectors : Opening(i) /\ task[i].next = serving.conn =>
             /\ conn'[serving.conn].lines \in {<<>>, <<Hello>>}
             /\ conn'[serving.conn].lines = <<Hello>> => conn'[serving.conn].replies = <<>>
             /\ comp' \subseteq astray'
    BY Zenon, <1>1, <2>2, <2>3, <2>5, TaskLines
  <2>7. Idle'
    BY Zenon, <1>1, <2>2 DEF Idle
  <2>8. /\ held' \in SUBSET Keys /\ comp' \in SUBSET Keys /\ comp' \subseteq held' \cup astray'
        /\ serving' \in [conn : Nat, command : Commands \cup {Hello}] /\ serving'.conn = serving.conn
    BY Zenon, <1>2, <2>2
  <2> QED
    BY Zenon, <1>1, <2>3, <2>4, <2>6, <2>7, <2>8, StaysKeeps
<1>5. CASE ~conn[serving.conn].expired /\ Line = ReleaseAll
  <2>1. Line.op = "release_all" /\ Line # Hello /\ Line.op # "key"
    BY <1>5 DEF Hello, ReleaseAll
  <2>2. Answer(serving.conn, "ok") /\ serving' = serving /\ ReleaseHeld
    BY Zenon, <1>5, <2>1 DEF ReadLine, Handle
  <2>3. ServedOnly /\ ~conn'[serving.conn].over /\ conn'[serving.conn].lines = Tail(conn[serving.conn].lines)
    BY Zenon, <1>1, <2>2, Answered
  <2>4. held' = {} /\ comp' \in SUBSET Keys /\ comp' \subseteq astray'
    BY Zenon, <2>2, Released
  <2>5. \A i \in Injectors : ~(Opening(i) /\ task[i].next = serving.conn)
    BY Zenon, <1>1, <2>1, TaskLines
  <2>6. Intended({})'
    BY SMT, <2>4 DEF Intended, Alike
  <2>7. ASSUME NEW i \in Injectors, Serving(i), task[i].conn = serving.conn
        PROVE  conn'[serving.conn].lines \in Seq(Commands) /\ Follows
    <3>1. conn[serving.conn].lines \in Seq(Commands) /\ Tail(conn[serving.conn].lines) \in Seq(Commands)
      BY Zenon, <1>1, <2>7, TaskLines
    <3>2. ASSUME NEW D, Intended(D)
          PROVE  Replay({}, conn'[serving.conn].lines) = Replay(D, conn[serving.conn].lines)
      <4>1. D \in SUBSET Keys
        BY Zenon, <3>2 DEF Intended
      <4>2. Replay(D, conn[serving.conn].lines) = Replay(Applied(D, Line), Tail(conn[serving.conn].lines))
        BY Zenon, <1>1, <3>1, <4>1, ReplayHead DEF Line
      <4>3. Applied(D, Line) = {}
        BY Zenon, <2>1 DEF Applied
      <4> QED
        BY Zenon, <2>3, <4>2, <4>3
    <3> QED
      BY Zenon, <2>3, <2>6, <3>1, <3>2 DEF Follows
  <2>8. Idle'
    BY Zenon, <1>1, <2>2 DEF Idle
  <2>9. /\ held' \in SUBSET Keys /\ comp' \subseteq held' \cup astray'
        /\ serving' \in [conn : Nat, command : Commands \cup {Hello}] /\ serving'.conn = serving.conn
    BY Zenon, <1>2, <2>2, <2>4
  <2> QED
    BY Zenon, <1>1, <2>3, <2>4, <2>5, <2>7, <2>8, <2>9, StaysKeeps
<1>6. CASE ~conn[serving.conn].expired /\ Line.op = "key"
  <2>1. Line \in Commands \cup {Hello}
    <3>1. conn[serving.conn].lines \in Lines
      BY Zenon, <1>1, Served DEF ConnRecs
    <3> QED
      BY <1>1, <3>1 DEF Lines, Line
  <2>2. Line \in Keyed /\ Line.key \in Keys /\ Line # Hello
    BY Zenon, <1>6, <2>1, LineForms
  <2>3. Line # ReleaseAll
    BY <1>6 DEF ReleaseAll
  <2>4. /\ serving' = [serving EXCEPT !.command = Line] /\ conn' = conn /\ comp' = comp /\ astray' = astray
        /\ held' = IF Line.pressed THEN held \cup {Line.key} ELSE held
    BY Zenon, <1>6, <2>2, <2>3 DEF ReadLine, Handle
  <2>5. ServedOnly /\ ~conn'[serving.conn].over
    BY Zenon, <1>1, <2>4, Served DEF ServedOnly, IInv, TypeOK
  <2>6. held' \in SUBSET Keys /\ comp' \in SUBSET Keys /\ comp' \subseteq held' \cup astray'
    BY Zenon, <1>2, <2>2, <2>4
  <2>7. /\ serving' \in [conn : Nat, command : Commands \cup {Hello}]
        /\ serving'.conn = serving.conn /\ serving'.command = Line
    BY Zenon, <1>2, <2>1, <2>4
  <2>8. ~Idle' => /\ serving'.command \in Keyed /\ conn'[serving.conn].lines # <<>>
                  /\ serving'.command = Head(conn'[serving.conn].lines)
    BY Zenon, <1>1, <2>2, <2>4, <2>7 DEF Line
  <2>9. \A i \in Injectors : ~(Opening(i) /\ task[i].next = serving.conn)
    BY Zenon, <1>1, <2>2, TaskLines
  <2>10. \A i \in Injectors : Serving(i) /\ task[i].conn = serving.conn =>
             conn'[serving.conn].lines \in Seq(Commands) /\ Follows
    <3>1. Follows
      BY Zenon, <2>4 DEF Follows, Intended
    <3> QED
      BY Zenon, <1>1, <2>4, <3>1, TaskLines
  <2> QED
    BY Zenon, <1>1, <2>5, <2>6, <2>7, <2>8, <2>9, <2>10, StaysKeeps
<1> QED
  BY Zenon, <1>3, <1>4, <1>5, <1>6 DEF ReadLine, Handle

\* An edge the compositor took is no longer astray.
LEMMA EdgeTaken ==
  ASSUME NEW A, NEW B, NEW S, NEW c \in Keyed, Alike(A, B, S)
  PROVE  Alike(Applied(A, c), Applied(B, c), S \ {c.key})
<1>1. c.op = "key"
  BY DEF Keyed
<1> QED
  BY SMT, <1>1 DEF Alike, Applied

\* An edge the compositor failed may differ from the intended one on its key.
LEMMA EdgeFailed ==
  ASSUME NEW A, NEW B, NEW C, NEW S, NEW c \in Keyed, Alike(A, B, S), C = B \/ C = Applied(B, c)
  PROVE  Alike(Applied(A, c), C, S \cup {c.key})
<1>1. c.op = "key"
  BY DEF Keyed
<1> QED
  BY SMT, <1>1 DEF Alike, Applied

\* Notify.
LEMMA NotifyKeeps ==
  ASSUME IInv, Notify
  PROVE  IInv'
<1>1. /\ ~Idle /\ UNCHANGED <<task, plan, queue, backlog>>
      /\ serving' = [serving EXCEPT !.command = Hello]
  BY Zenon DEF Notify, pier
<1>2. /\ held \in SUBSET Keys /\ comp \in SUBSET Keys
      /\ serving \in [conn : Nat, command : Commands \cup {Hello}]
      /\ comp \subseteq held \cup astray
  BY Zenon DEF IInv, TypeOK, Known
<1>3. /\ serving.conn # 0 /\ serving.command \in Keyed /\ conn[serving.conn].lines # <<>>
      /\ serving.command = Line
  BY Zenon, <1>1 DEF IInv, Injecting, Line
<1>4. Line \in Commands /\ Line # Hello /\ Line \in Keyed
  BY Zenon, <1>3, LineForms DEF Commands
<1>5. /\ serving' \in [conn : Nat, command : Commands \cup {Hello}]
      /\ serving'.conn = serving.conn /\ Idle'
  BY Zenon, <1>1, <1>2 DEF Idle
<1>6. \A i \in Injectors : ~(Opening(i) /\ task[i].next = serving.conn)
  BY Zenon, <1>3, <1>4, TaskLines
<1>7. \A i \in Injectors : Serving(i) /\ task[i].conn = serving.conn =>
         conn[serving.conn].lines \in Seq(Commands) /\ Tail(conn[serving.conn].lines) \in Seq(Commands)
  BY Zenon, <1>3, TaskLines
<1>8. Applied(comp, Line) \in SUBSET Keys /\ Applied(held, Line) \in SUBSET Keys /\ Line.op = "key"
  BY Zenon, <1>2, <1>4, AppliedKeys DEF Keyed
<1>9. \/ /\ comp' = Applied(comp, Line) /\ held' = Applied(held, Line) /\ astray' = astray \ {Line.key}
         /\ Answer(serving.conn, "ok")
      \/ /\ comp' = comp \/ comp' = Applied(comp, Line)
         /\ held' = held /\ astray' = astray \cup {Line.key} /\ Answer(serving.conn, "refused")
  BY Zenon, <1>3 DEF Notify
<1>10. ServedOnly /\ ~conn'[serving.conn].over /\ conn'[serving.conn].lines = Tail(conn[serving.conn].lines)
  BY Zenon, <1>3, <1>9, Answered
<1>11. held' \in SUBSET Keys /\ comp' \in SUBSET Keys
  BY Zenon, <1>2, <1>8, <1>9
<1>12. comp' \subseteq held' \cup astray'
  <2>1. CASE comp' = Applied(comp, Line) /\ held' = Applied(held, Line) /\ astray' = astray \ {Line.key}
    BY SMT, <1>2, <1>8, <2>1 DEF Applied
  <2>2. CASE (comp' = comp \/ comp' = Applied(comp, Line)) /\ held' = held /\ astray' = astray \cup {Line.key}
    BY SMT, <1>2, <1>8, <2>2 DEF Applied
  <2> QED
    BY Zenon, <1>9, <2>1, <2>2
<1>13. ASSUME NEW D, Intended(D), NEW E, E = Applied(D, Line)  PROVE Intended(E)'
  <2>1. D \in SUBSET Keys /\ Alike(D, comp, astray)
    BY Zenon, <1>13 DEF Intended
  <2>2. E \in SUBSET Keys
    BY Zenon, <1>4, <1>13, <2>1, AppliedKeys
  <2>3. Alike(E, comp', astray')
    <3>1. CASE comp' = Applied(comp, Line) /\ astray' = astray \ {Line.key}
      BY Zenon, <1>4, <1>13, <2>1, <3>1, EdgeTaken
    <3>2. CASE (comp' = comp \/ comp' = Applied(comp, Line)) /\ astray' = astray \cup {Line.key}
      BY Zenon, <1>4, <1>13, <2>1, <3>2, EdgeFailed
    <3> QED
      BY Zenon, <1>9, <3>1, <3>2
  <2> QED
    BY Zenon, <2>2, <2>3 DEF Intended
<1>14. \A i \in Injectors : Serving(i) /\ task[i].conn = serving.conn =>
           conn'[serving.conn].lines \in Seq(Commands) /\ Follows
  <2>1. SUFFICES ASSUME NEW i \in Injectors, Serving(i), task[i].conn = serving.conn
                 PROVE  conn'[serving.conn].lines \in Seq(Commands) /\ Follows
    BY Zenon
  <2>2. conn[serving.conn].lines \in Seq(Commands) /\ Tail(conn[serving.conn].lines) \in Seq(Commands)
    BY Zenon, <1>7, <2>1
  <2>3. ASSUME NEW D, Intended(D)
        PROVE  Replay(Applied(D, Line), conn'[serving.conn].lines) = Replay(D, conn[serving.conn].lines)
    <3>1. D \in SUBSET Keys
      BY Zenon, <2>3 DEF Intended
    <3> QED
      BY Zenon, <1>3, <1>10, <2>2, <3>1, ReplayHead DEF Line
  <2>4. Follows
    BY Zenon, <1>13, <2>3 DEF Follows
  <2> QED
    BY Zenon, <1>10, <2>2, <2>4
<1> QED
  BY Zenon, <1>1, <1>3, <1>5, <1>6, <1>10, <1>11, <1>12, <1>14, StaysKeeps

\* What a reconfiguration's step does to the keys: the ones it forgets or releases
\* go astray.
LEMMA Reconfigured ==
  ASSUME IInv, Reconfigure
  PROVE  /\ held' \subseteq held /\ comp' \subseteq comp /\ astray \subseteq astray'
         /\ held \subseteq held' \cup astray' /\ comp \subseteq comp' \cup astray'
<1>1. CASE ReconfTake
  <2>1. held' = {} /\ astray' = astray \cup held /\ comp' = comp
    BY Zenon, <1>1 DEF ReconfTake
  <2> QED
    BY SMT, <2>1
<1>2. CASE ReconfRelease
  <2>1. PICK T, missed : T = reconf.taken /\ comp' = comp \ (T \ missed) /\ astray' = astray \cup T /\ held' = held
    BY Zenon, <1>2 DEF ReconfRelease
  <2> QED
    BY SMT, <2>1
<1>3. CASE ReconfLock \/ ReconfDone
  <2>1. held' = held /\ astray' = astray /\ comp' = comp
    BY Zenon, <1>3 DEF ReconfLock, ReconfDone
  <2> QED
    BY SMT, <2>1
<1> QED
  BY Zenon, <1>1, <1>2, <1>3 DEF Reconfigure, ReconfigureGoesOn

\* The reconfiguration's steps touch the keys only.
LEMMA ReconfigureKeeps ==
  ASSUME IInv, Reconfigure
  PROVE  IInv'
<1>1. /\ task' = task /\ plan' = plan /\ queue' = queue /\ conn' = conn /\ backlog' = backlog /\ serving' = serving
  BY Zenon DEF Reconfigure, ReconfigureGoesOn, ReconfTake, ReconfRelease, ReconfLock, ReconfDone, pier
<1>2. /\ held' \subseteq held /\ comp' \subseteq comp /\ astray \subseteq astray'
      /\ held \subseteq held' \cup astray' /\ comp \subseteq comp' \cup astray'
  BY Zenon, Reconfigured
<1>3. /\ held \in SUBSET Keys /\ comp \in SUBSET Keys /\ comp \subseteq held \cup astray
      /\ serving.conn = 0 => held = {}
  BY Zenon DEF IInv, TypeOK, Known
<1>4. /\ held' \in SUBSET Keys /\ comp' \in SUBSET Keys /\ comp' \subseteq held' \cup astray'
      /\ serving.conn = 0 => held' = {}
  BY SMT, <1>2, <1>3
<1>5. TypeOK'
  BY Zenon, <1>1, <1>4 DEF IInv, TypeOK
<1>6. Backlogged' /\ Injecting' /\ Known'
  BY Zenon, <1>1, <1>4 DEF IInv, Backlogged, Injecting, Idle, Known
<1>7. ASSUME NEW i \in Injectors  PROVE Owns(i)' /\ Fresh(i)' /\ Carrying(i)' /\ Queueing(i)' /\ Mirrors(i)'
  <2>1. Owns(i) /\ Fresh(i) /\ Carrying(i) /\ Queueing(i) /\ Mirrors(i)
    BY Zenon DEF IInv
  <2>2. Owns(i)' /\ Queueing(i)'
    BY Zenon, <1>1, <2>1 DEF Owns, Queueing
  <2>3. Fresh(i)'
    <3>1. comp \subseteq astray => comp' \subseteq astray'
      BY Zenon, <1>2
    <3> QED
      BY Zenon, <1>1, <2>1, <3>1 DEF Fresh, Opening
  <2>4. Carrying(i)'
    BY Zenon, <1>1, <2>1 DEF Carrying, Serving
  <2>5. Mirrors(i)'
    <3>1. ASSUME NEW D, Intended(D)  PROVE Intended(D)'
      BY SMT, <1>2, <3>1 DEF Intended, Alike
    <3>2. Synced(i)' = Synced(i) /\ Todo(i)' = Todo(i) /\ (Serving(i)' <=> Serving(i))
      BY Zenon, <1>1 DEF Synced, Todo, Serving
    <3>3. \A D : Delivered(i, D)' = Delivered(i, D)
      BY Zenon, <1>1, <3>2 DEF Delivered
    <3> QED
      BY Zenon, <1>1, <2>1, <3>1, <3>2, <3>3 DEF Mirrors
  <2> QED
    BY Zenon, <2>2, <2>3, <2>4, <2>5
<1> QED
  BY Zenon, <1>5, <1>6, <1>7 DEF IInv

-----------------------------------------------------------------------------
(* The theorems. *)

\* The invariant holds initially.
LEMMA InitKeeps ==
  ASSUME Init
  PROVE  IInv
<1>1. TypeOK
  <2>1. [held |-> {}, epoch |-> 0, todo |-> <<>>, dropped |-> FALSE] \in PlanRecs
    BY DEF PlanRecs
  <2>2. [pending |-> <<>>, epoch |-> 0, accepting |-> TRUE, closed |-> FALSE] \in QueueRecs
    BY DEF QueueRecs
  <2>3. [pc |-> "idle", conn |-> 0, next |-> 0, attempt |-> 0, drain |-> FALSE, status |-> "none"] \in TaskRecs
    BY DEF TaskRecs
  <2>4. /\ plan \in [Injectors -> PlanRecs] /\ queue \in [Injectors -> QueueRecs]
        /\ task \in [Injectors -> TaskRecs]
    BY Zenon, <2>1, <2>2, <2>3 DEF Init
  <2>5. conn \in Seq(ConnRecs) /\ backlog \in Seq(Nat)
    BY DEF Init
  <2>6. serving \in [conn : Nat, command : Commands \cup {Hello}]
    BY DEF Init
  <2>7. held \in SUBSET Keys /\ comp \in SUBSET Keys
    BY DEF Init
  <2> QED
    BY Zenon, <2>4, <2>5, <2>6, <2>7 DEF TypeOK
<1>2. Backlogged /\ Injecting /\ Known
  <2>1. backlog = <<>> /\ serving.conn = 0 /\ serving.command = Hello /\ held = {} /\ comp = {}
    BY DEF Init
  <2>2. DOMAIN backlog = {}
    BY <2>1
  <2> QED
    BY Zenon, <2>1, <2>2 DEF Backlogged, Injecting, Known, Idle
<1>3. ASSUME NEW i \in Injectors
      PROVE  Owns(i) /\ Fresh(i) /\ Carrying(i) /\ Queueing(i) /\ Mirrors(i)
  <2>1. /\ task[i].pc = "idle" /\ task[i].conn = 0 /\ task[i].next = 0
        /\ plan[i].held = {} /\ plan[i].epoch = 0 /\ plan[i].todo = <<>> /\ ~plan[i].dropped
        /\ queue[i].pending = <<>> /\ queue[i].epoch = 0 /\ queue[i].accepting /\ ~queue[i].closed
    BY Zenon DEF Init
  <2>2. Owns(i) /\ Fresh(i) /\ Carrying(i) /\ ~Serving(i)
    BY Zenon, <2>1 DEF Owns, Fresh, Carrying, Opening, Serving
  <2>3. Queueing(i)
    <3>1. plan[i].epoch <= queue[i].epoch
      BY <2>1
    <3> QED
      BY Zenon, <2>1, <3>1 DEF Queueing
  <2>4. Replay({}, <<>>) = {}
    BY ReplayNone
  <2>5. Mirrors(i)
    BY Zenon, <2>1, <2>2, <2>4 DEF Mirrors, Synced, Todo
  <2> QED
    BY Zenon, <2>2, <2>3, <2>5
<1> QED
  BY Zenon, <1>1, <1>2, <1>3 DEF IInv

\* Every step keeps the invariant.
LEMMA NextKeeps ==
  ASSUME IInv, [Next]_vars
  PROVE  IInv'
<1>1. ASSUME NEW k \in Keys, KeyEvent(k)  PROVE IInv'
  BY Zenon, <1>1, KeyEventKeeps
<1>2. ASSUME NEW i \in Injectors, ResetHeld(i) \/ PushAt(i) \/ Drop(i)  PROVE IInv'
  BY Zenon, <1>2, ResetHeldKeeps, PushAtKeeps, DropKeeps
<1>3. ASSUME NEW i \in Injectors, Deliver(i)  PROVE IInv'
  <2>1. CASE Opened(i)
    BY Zenon, <2>1, OpenedClosed, OpenedKeeps
  <2>2. CASE Connect(i) \/ OpenSuperseded(i) \/ OpenFails(i) \/ Backoff(i)
    BY Zenon, <2>2, ConnectKeeps, OpenSupersededKeeps, OpenFailsKeeps, BackoffKeeps
  <2>3. CASE SendNext(i) \/ Replied(i) \/ Superseded(i) \/ Eof(i)
    BY Zenon, <2>3, SendNextKeeps, RepliedKeeps, SupersededKeeps, EofKeeps
  <2>4. CASE GiveUp(i) \/ Reconnecting(i) \/ Drained(i)
    BY Zenon, <2>4, GiveUpKeeps, ReconnectingKeeps, DrainedKeeps
  <2> QED
    BY Zenon, <1>3, <2>1, <2>2, <2>3, <2>4 DEF Deliver
<1>4. CASE Service \/ ReplyFails \/ Reconfigure
  BY Zenon, <1>4, AcceptKeeps, SupersedeKeeps, ReadLineKeeps, NotifyKeeps, ReadEofKeeps, ReplyFailsKeeps,
     ReconfigureKeeps DEF Service
<1>5. CASE UNCHANGED vars
  <2>1. /\ task' = task /\ plan' = plan /\ queue' = queue /\ conn' = conn /\ backlog' = backlog /\ serving' = serving
        /\ held' = held /\ comp' = comp /\ astray' = astray
    BY Zenon, <1>5 DEF vars
  <2>2. TypeOK' /\ Backlogged' /\ Injecting' /\ Known'
    BY Zenon, <2>1 DEF IInv, TypeOK, Backlogged, Injecting, Idle, Known
  <2>3. ASSUME NEW i \in Injectors  PROVE Owns(i)' /\ Fresh(i)' /\ Carrying(i)' /\ Queueing(i)' /\ Mirrors(i)'
    <3>1. Owns(i) /\ Fresh(i) /\ Carrying(i) /\ Queueing(i) /\ Mirrors(i)
      BY Zenon DEF IInv
    <3>2. Owns(i)' /\ Queueing(i)'
      BY Zenon, <2>1, <3>1 DEF Owns, Queueing
    <3>3. Fresh(i)' /\ Carrying(i)'
      BY Zenon, <2>1, <3>1 DEF Fresh, Carrying, Opening, Serving
    <3>4. Mirrors(i)'
      <4>1. Synced(i)' = Synced(i) /\ Todo(i)' = Todo(i) /\ (Serving(i)' <=> Serving(i))
        BY Zenon, <2>1 DEF Synced, Todo, Serving
      <4>2. \A D : Delivered(i, D)' = Delivered(i, D) /\ (Intended(D)' <=> Intended(D))
        BY Zenon, <2>1, <4>1 DEF Delivered, Intended
      <4> QED
        BY Zenon, <2>1, <3>1, <4>1, <4>2 DEF Mirrors
    <3> QED
      BY Zenon, <3>2, <3>3, <3>4
  <2> QED
    BY Zenon, <2>2, <2>3 DEF IInv
<1> QED
  BY Zenon, <1>1, <1>2, <1>3, <1>4, <1>5 DEF Next

\* The invariant holds always.
LEMMA Always == Spec => []IInv
<1>1. Init => IInv
  BY InitKeeps
<1>2. IInv /\ [Next]_vars => IInv'
  BY NextKeeps
<1> QED
  BY <1>1, <1>2, PTL DEF Spec

\* Keys that differ on keys astray only still do after a replay.
LEMMA ReplayAstray ==
  ASSUME NEW A, NEW B, NEW S, Alike(A, B, S), NEW s, DOMAIN s \subseteq Nat
  PROVE  Alike(Replay(A, s), Replay(B, s), S)
<1>1. ASSUME NEW k \in Keys, k \notin S  PROVE k \in Replay(A, s) <=> k \in Replay(B, s)
  <2>1. k \in A <=> k \in B
    BY SMT, <1>1 DEF Alike
  <2> QED
    BY Zenon, <2>1, ReplayHas
<1>2. Replay(A, s) \subseteq Keys /\ Replay(B, s) \subseteq Keys
  BY Zenon, ReplayKeys
<1> QED
  BY Zenon, <1>1, <1>2 DEF Alike

\* For any number of attachments, keys, attempts and queued commands, and
\* whatever breaks, expires, is superseded or reconfigured, and whichever calls
\* the compositor fails: the planner's mirror of the held keys (wayland.rs) is what
\* the compositor holds once the lines, the queue and the plan were injected, but
\* for keys whose own last command it failed or a reconfiguration took.
THEOREM MirrorCorrect == Spec => []MirrorAgrees
<1>1. IInv => MirrorAgrees
  <2>1. SUFFICES ASSUME IInv, NEW i \in Injectors, Serves(i)
                 PROVE  plan[i].held \ astray
                          = Replay(comp, conn[serving.conn].lines \o queue[i].pending \o plan[i].todo) \ astray
    BY Zenon DEF MirrorAgrees
  <2>2. PICK l, p, u : l = conn[serving.conn].lines /\ p = queue[i].pending /\ u = plan[i].todo
    BY Zenon
  <2>3. Serving(i) /\ task[i].conn = serving.conn /\ task[i].pc # "done" /\ Synced(i) = plan[i].held /\ Todo(i) = u
    BY Zenon, <2>1, <2>2 DEF Serves, Serving, Synced, Todo
  <2>4. PICK D : Intended(D) /\ plan[i].held = Replay(Replay(Replay(D, l), p), u)
    BY Zenon, <2>1, <2>2, <2>3 DEF IInv, Mirrors, Delivered, Serves
  <2>5. l \in Seq(Commands) /\ p \in Seq(Commands) /\ u \in Seq(Commands)
    <3>1. l \in Seq(Commands)
      BY Zenon, <2>1, <2>2, <2>3 DEF IInv, Carrying
    <3>2. p \in Seq(Commands) /\ u \in Seq(Commands)
      BY Zenon, <2>1, <2>2, Typed DEF QueueRecs, PlanRecs
    <3> QED
      BY Zenon, <3>1, <3>2
  <2>6. PICK s : s = (l \o p) \o u
    BY Zenon
  <2>7. l \o p \in Seq(Commands) /\ DOMAIN s \subseteq Nat
    BY <2>5, <2>6
  <2>8. D \in SUBSET Keys /\ Alike(D, comp, astray)
    BY Zenon, <2>4 DEF Intended
  <2>9. Replay(D, s) = Replay(Replay(D, l \o p), u) /\ Replay(D, l \o p) = Replay(Replay(D, l), p)
    BY Zenon, <2>5, <2>6, <2>7, <2>8, ReplayConcat
  <2>10. Alike(Replay(D, s), Replay(comp, s), astray)
    BY Zenon, <2>7, <2>8, ReplayAstray
  <2> QED
    BY Zenon, <2>2, <2>4, <2>6, <2>9, <2>10 DEF Alike
<1> QED
  BY <1>1, Always, PTL

\* With no connection served, however the last one ended, a key is down only when
\* its own release failed or a reconfiguration has it: what HeldInput's promise in
\* input.rs comes to when the compositor may fail a call.
THEOREM EndedCorrect == Spec => []EndedHoldsNothing
<1>1. IInv => EndedHoldsNothing
  BY DEF IInv, Known, EndedHoldsNothing
<1> QED
  BY <1>1, Always, PTL
=============================================================================
