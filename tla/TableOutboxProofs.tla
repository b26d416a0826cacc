-------------------------- MODULE TableOutboxProofs --------------------------
(***************************************************************************)
(* Two bounded sequences the code edits in place.                            *)
(*                                                                           *)
(* What the lifecycle table promises for every set of sessions and every     *)
(* capacity: no confirmed session loses its entry, no ended one keeps an     *)
(* entry that nothing can evict, and the table keeps its bound.              *)
(*                                                                           *)
(* What the Deck's outbox and the input lane promise for every lane capacity *)
(* and every input: coalescing loses no press and no release, and the host   *)
(* has, when one lands, what the Deck had when it was made.                  *)
(***************************************************************************)
EXTENDS SessionLifecycles, InputLane, SequenceTheorems, WellFoundedInduction, TLAPS

\* Between two steps an entry is new, streams or recovers: the other states are
\* passed through under the lock.
Resting == {"Authenticating", "Streaming", "Recovering"}
Entries == [key : Sessions, state : Resting]
Records == [Sessions -> {"no", "Streaming", "Recovering"}]
Places == {"idle", "setup", "missing", "ready", "streaming", "detached"}

\* The table t agrees with what the sessions were told: each confirmed session
\* has its entry, and each entry that is not new belongs to a confirmed one.
Good(t, rec) ==
    /\ t \in Seq(Entries)
    /\ Len(t) <= MaxTracked
    /\ \A i, j \in 1 .. Len(t) : t[i].key = t[j].key => i = j
    /\ \A k \in Sessions : rec[k] # "no" =>
          \E i \in 1 .. Len(t) : t[i].key = k /\ t[i].state = rec[k]
    /\ \A i \in 1 .. Len(t) : t[i].state # "Authenticating" => rec[t[i].key] = t[i].state

IInv ==
    /\ place \in [Sessions -> Places]
    /\ recorded \in Records
    /\ Good(table, recorded)

-----------------------------------------------------------------------------
(* One lifecycle. *)

\* What apply_transition does to an entry at rest.
LEMMA AtRest ==
  ASSUME NEW s \in Resting
  PROVE  /\ Apply(s, "AuthenticationAccepted") = Refused
         /\ Apply(s, "SessionEnded") # Refused
         /\ Apply(s, "TransportLost") = IF s = "Streaming" THEN "Recovering" ELSE Refused
         /\ Started(s) = IF s = "Streaming" THEN Refused ELSE "Streaming"
<1>1. CASE s = "Authenticating"
  BY Zenon, <1>1 DEF Apply, Started, Arrows, Refused
<1>2. CASE s = "Streaming"
  BY Zenon, <1>2 DEF Apply, Started, Arrows, Refused
<1>3. CASE s = "Recovering"
  BY Zenon, <1>3 DEF Apply, Started, Arrows, Refused
<1> QED
  BY Zenon, <1>1, <1>2, <1>3 DEF Resting

-----------------------------------------------------------------------------
(* The ways the table changes. *)

\* An entry moves to a state its session is told of.
LEMMA Advances ==
  ASSUME NEW t, NEW rec \in Records, Good(t, rec),
         NEW i \in 1 .. Len(t), NEW s \in {"Streaming", "Recovering"}
  PROVE  Good([t EXCEPT ![i].state = s], [rec EXCEPT ![t[i].key] = s])
<1> DEFINE e == [t[i] EXCEPT !.state = s]
           u == [t EXCEPT ![i] = e]
           r == [rec EXCEPT ![t[i].key] = s]
<1>1. t \in Seq(Entries) /\ t[i] \in Entries
  BY Zenon, ElementOfSeq DEF Good
<1>2. e \in Entries /\ e.key = t[i].key /\ e.state = s
  BY Zenon, <1>1 DEF Entries, Resting
<1>3. u \in Seq(Entries) /\ Len(u) = Len(t)
      /\ \A j \in 1 .. Len(t) : u[j] = IF j = i THEN e ELSE t[j]
  BY <1>1, <1>2, ExceptSeq
<1>4. [t EXCEPT ![i].state = s] = u
  BY Zenon
<1> HIDE DEF e, u
<1>5. \A j \in 1 .. Len(t) : t[j] \in Entries /\ u[j].key = t[j].key
  BY Zenon, <1>1, <1>2, <1>3, ElementOfSeq
<1>6. \A k \in Sessions : r[k] = IF k = t[i].key THEN s ELSE rec[k]
  BY Zenon, <1>1 DEF Records, Entries
<1>7. \A j, l \in 1 .. Len(u) : u[j].key = u[l].key => j = l
  BY Zenon, <1>3, <1>5 DEF Good
<1>8. ASSUME NEW k \in Sessions, r[k] # "no"
      PROVE  \E j \in 1 .. Len(u) : u[j].key = k /\ u[j].state = r[k]
  <2>1. CASE k = t[i].key
    BY Zenon, <2>1, <1>2, <1>3, <1>6
  <2>2. CASE k # t[i].key
    <3>1. PICK j \in 1 .. Len(t) : t[j].key = k /\ t[j].state = rec[k]
      BY Zenon, <2>2, <1>6, <1>8 DEF Good
    <3> QED
      BY Zenon, <3>1, <2>2, <1>3, <1>6
  <2> QED
    BY Zenon, <2>1, <2>2
<1>9. \A j \in 1 .. Len(u) : u[j].state # "Authenticating" => r[u[j].key] = u[j].state
  BY <1>1, <1>2, <1>3, <1>5, <1>6 DEF Good, Entries
<1>10. Len(u) <= MaxTracked
  BY Zenon, <1>3 DEF Good
<1> HIDE DEF r
<1>11. Good(u, r)
  BY Zenon, <1>3, <1>7, <1>8, <1>9, <1>10 DEF Good
<1> QED
  BY Zenon, <1>4, <1>11 DEF r

\* An entry leaves the table, the others being kept in whatever order, and its
\* session is told nothing any more.
LEMMA Leaves ==
  ASSUME NEW t, NEW rec \in Records, Good(t, rec), NEW i \in 1 .. Len(t),
         NEW u \in Seq(Entries), Len(u) = Len(t) - 1,
         NEW from \in [1 .. Len(u) -> 1 .. Len(t)],
         \A j \in 1 .. Len(u) : from[j] # i /\ u[j] = t[from[j]],
         \A j, l \in 1 .. Len(u) : from[j] = from[l] => j = l,
         \A l \in 1 .. Len(t) : l # i => \E j \in 1 .. Len(u) : from[j] = l
  PROVE  Good(u, [rec EXCEPT ![t[i].key] = "no"])
<1> DEFINE r == [rec EXCEPT ![t[i].key] = "no"]
<1>1. t \in Seq(Entries) /\ Len(t) \in Nat /\ \A j \in 1 .. Len(t) : t[j] \in Entries
  BY ElementOfSeq DEF Good
<1>2. \A k \in Sessions : r[k] = IF k = t[i].key THEN "no" ELSE rec[k]
  BY Zenon, <1>1 DEF Records, Entries
<1>3. ASSUME NEW j \in 1 .. Len(u), NEW l \in 1 .. Len(u), u[j].key = u[l].key
      PROVE  j = l
  <2>1. from[j] \in 1 .. Len(t) /\ from[l] \in 1 .. Len(t)
    BY Zenon
  <2>2. t[from[j]].key = t[from[l]].key
    BY Zenon, <1>3
  <2>3. from[j] = from[l]
    BY ZenonT(60), <2>1, <2>2 DEF Good
  <2> QED
    BY Zenon, <2>3
<1>4. ASSUME NEW j \in 1 .. Len(u)
      PROVE  u[j] \in Entries /\ u[j].key # t[i].key /\ r[u[j].key] = rec[u[j].key]
             /\ (u[j].state # "Authenticating" => rec[u[j].key] = u[j].state)
  <2>1. from[j] \in 1 .. Len(t) /\ from[j] # i /\ u[j] = t[from[j]]
    BY Zenon
  <2>2. t[from[j]] \in Entries
    BY Zenon, <2>1, <1>1
  <2>3. t[from[j]].key # t[i].key
    BY Zenon, <2>1 DEF Good
  <2>4. t[from[j]].state # "Authenticating" => rec[t[from[j]].key] = t[from[j]].state
    BY Zenon, <2>1 DEF Good
  <2> QED
    BY Zenon, <2>1, <2>2, <2>3, <2>4, <1>2 DEF Entries
<1>5. ASSUME NEW k \in Sessions, r[k] # "no"
      PROVE  \E j \in 1 .. Len(u) : u[j].key = k /\ u[j].state = r[k]
  <2>1. k # t[i].key /\ r[k] = rec[k]
    BY Zenon, <1>2, <1>5
  <2>2. PICK l \in 1 .. Len(t) : t[l].key = k /\ t[l].state = rec[k]
    BY Zenon, <2>1, <1>5 DEF Good
  <2>3. PICK j \in 1 .. Len(u) : from[j] = l
    BY Zenon, <2>1, <2>2
  <2>4. u[j] = t[l]
    BY Zenon, <2>3
  <2> HIDE DEF r
  <2> QED
    BY Zenon, <2>1, <2>2, <2>4
<1>6. \A j \in 1 .. Len(u) : u[j].state # "Authenticating" => r[u[j].key] = u[j].state
  BY Zenon, <1>4
<1>7. Len(u) <= MaxTracked
  BY <1>1, MaxTrackedAssumption DEF Good
<1> HIDE DEF r
<1> QED
  BY Zenon, <1>3, <1>5, <1>6, <1>7 DEF Good, r

\* A session the table does not know is added where there is room.
LEMMA Joins ==
  ASSUME NEW t, NEW rec \in Records, Good(t, rec), Len(t) < MaxTracked, NEW k \in Sessions,
         \A i \in 1 .. Len(t) : t[i].key # k
  PROVE  Good(Append(t, [key |-> k, state |-> "Authenticating"]), rec)
<1> DEFINE e == [key |-> k, state |-> "Authenticating"]
           u == Append(t, e)
<1>1. t \in Seq(Entries) /\ Len(t) \in Nat /\ e \in Entries
  BY DEF Good, Entries, Resting
<1>2. u \in Seq(Entries) /\ Len(u) = Len(t) + 1 /\ u[Len(t) + 1] = e
      /\ \A i \in 1 .. Len(t) : u[i] = t[i]
  BY <1>1, AppendProperties
<1>3. e.key = k /\ e.state = "Authenticating"
  BY Zenon
<1> HIDE DEF e, u
<1>4. \A i \in 1 .. Len(u) : i \in 1 .. Len(t) \/ i = Len(t) + 1
  BY <1>1, <1>2
<1>5. \A i, j \in 1 .. Len(u) : u[i].key = u[j].key => i = j
  BY <1>2, <1>3, <1>4 DEF Good
<1>6. ASSUME NEW l \in Sessions, rec[l] # "no"
      PROVE  \E i \in 1 .. Len(u) : u[i].key = l /\ u[i].state = rec[l]
  <2>1. PICK i \in 1 .. Len(t) : t[i].key = l /\ t[i].state = rec[l]
    BY Zenon, <1>6 DEF Good
  <2> QED
    BY <2>1, <1>1, <1>2
<1>7. \A i \in 1 .. Len(u) : u[i].state # "Authenticating" => rec[u[i].key] = u[i].state
  BY <1>2, <1>3, <1>4 DEF Good
<1>8. Len(u) <= MaxTracked
  BY <1>1, <1>2, MaxTrackedAssumption
<1> QED
  BY Zenon, <1>2, <1>5, <1>6, <1>7, <1>8 DEF Good, u, e
-----------------------------------------------------------------------------
(* The operations. *)

\* At finds the one entry of a tracked session.
LEMMA Found ==
  ASSUME IInv, NEW k \in Sessions, Tracked(k)
  PROVE  /\ At(k) \in 1 .. Len(table) /\ table[At(k)].key = k /\ table[At(k)] \in Entries
         /\ StateOf(k) = table[At(k)].state
<1>1. table \in Seq(Entries) /\ DOMAIN table = 1 .. Len(table)
  BY Zenon, LenProperties DEF IInv, Good
<1>2. \E i \in DOMAIN table : table[i].key = k
  BY Zenon DEF Tracked
<1>3. At(k) \in DOMAIN table /\ table[At(k)].key = k
  BY Zenon, <1>2 DEF At
<1> QED
  BY Zenon, <1>1, <1>3, ElementOfSeq DEF StateOf

\* A session without an entry was told nothing.
LEMMA Untracked ==
  ASSUME IInv, NEW k \in Sessions, ~Tracked(k)
  PROVE  recorded[k] = "no" /\ \A i \in 1 .. Len(table) : table[i].key # k
<1>1. DOMAIN table = 1 .. Len(table)
  BY Zenon, LenProperties DEF IInv, Good
<1> QED
  BY Zenon, <1>1 DEF IInv, Good, Tracked

\* A table with the entry at i removed by Removed.
LEMMA Evicts ==
  ASSUME IInv, NEW i \in 1 .. Len(table), table[i].state = "Authenticating"
  PROVE  Good(Removed(table, i), recorded) /\ Len(Removed(table, i)) = Len(table) - 1
         /\ \A j \in 1 .. Len(table) - 1 : \E l \in 1 .. Len(table) : Removed(table, i)[j] = table[l]
<1> DEFINE a == SubSeq(table, 1, i - 1)
           b == SubSeq(table, i + 1, Len(table))
           u == a \o b
           from == [j \in 1 .. Len(table) - 1 |-> IF j < i THEN j ELSE j + 1]
<1>1. table \in Seq(Entries) /\ Len(table) \in Nat /\ \A j \in 1 .. Len(table) : table[j] \in Entries
  BY ElementOfSeq DEF IInv, Good
<1>2. a \in Seq(Entries) /\ Len(a) = i - 1 /\ \A j \in 1 .. i - 1 : a[j] = table[j]
  <2>1. \A j \in 1 .. i - 1 : table[j] \in Entries
    BY <1>1
  <2> QED
    BY <2>1, <1>1, SubSeqProperties
<1>3. b \in Seq(Entries) /\ Len(b) = Len(table) - i
      /\ \A j \in 1 .. Len(table) - i : b[j] = table[i + j]
  <2>1. \A j \in i + 1 .. Len(table) : table[j] \in Entries
    BY <1>1
  <2>2. /\ b \in Seq(Entries)
        /\ Len(b) = IF i + 1 <= Len(table) THEN Len(table) - (i + 1) + 1 ELSE 0
        /\ \A j \in 1 .. Len(table) - (i + 1) + 1 : b[j] = table[i + 1 + j - 1]
    BY <2>1, <1>1, SubSeqProperties
  <2> HIDE DEF b
  <2> QED
    BY <2>2, <1>1
<1> HIDE DEF a, b
<1>4. u \in Seq(Entries) /\ Len(u) = Len(table) - 1
      /\ \A j \in 1 .. Len(table) - 1 : u[j] = IF j <= i - 1 THEN a[j] ELSE b[j - (i - 1)]
  <2>1. /\ u \in Seq(Entries) /\ Len(u) = Len(a) + Len(b)
        /\ \A j \in 1 .. Len(a) + Len(b) : u[j] = IF j <= Len(a) THEN a[j] ELSE b[j - Len(a)]
    BY Zenon, <1>2, <1>3, ConcatProperties
  <2>2. Len(a) + Len(b) = Len(table) - 1
    BY <1>1, <1>2, <1>3
  <2> QED
    BY Zenon, <2>1, <2>2, <1>2
<1> HIDE DEF u
<1>5. from \in [1 .. Len(u) -> 1 .. Len(table)]
  BY <1>1, <1>4
<1>6. \A j \in 1 .. Len(u) : from[j] # i /\ u[j] = table[from[j]]
  BY <1>1, <1>2, <1>3, <1>4
<1>7. \A j, l \in 1 .. Len(u) : from[j] = from[l] => j = l
  BY <1>1, <1>4
<1>8. ASSUME NEW l \in 1 .. Len(table), l # i
      PROVE  \E j \in 1 .. Len(u) : from[j] = l
  <2>1. CASE l < i
    BY <2>1, <1>1, <1>4
  <2>2. CASE l > i
    <3>1. l - 1 \in 1 .. Len(u) /\ from[l - 1] = l
      BY <2>2, <1>1, <1>4
    <3> QED
      BY Zenon, <3>1
  <2> QED
    <3>1. l \in Int /\ i \in Int
      BY <1>1
    <3>2. l < i \/ l > i
      BY <3>1, <1>8
    <3> QED
      BY Zenon, <3>2, <2>1, <2>2
<1> HIDE DEF from
<1>9. Good(u, [recorded EXCEPT ![table[i].key] = "no"])
  BY ZenonT(60), <1>4, <1>5, <1>6, <1>7, <1>8, Leaves DEF IInv
<1>10. recorded[table[i].key] = "no"
  <2>1. table[i].key \in Sessions
    BY Zenon, <1>1 DEF Entries
  <2>2. SUFFICES ASSUME recorded[table[i].key] # "no" PROVE FALSE
    BY Zenon
  <2>3. PICK j \in 1 .. Len(table) : table[j].key = table[i].key /\ table[j].state = recorded[table[i].key]
    BY Zenon, <2>1, <2>2 DEF IInv, Good
  <2>4. j = i
    BY Zenon, <2>3 DEF IInv, Good
  <2> QED
    BY Zenon, <2>1, <2>2, <2>3, <2>4 DEF IInv, Records
<1>11. [recorded EXCEPT ![table[i].key] = "no"] = recorded
  BY Zenon, <1>10 DEF IInv, Records
<1>12. \A j \in 1 .. Len(u) : from[j] \in 1 .. Len(table)
  BY Zenon, <1>5
<1> QED
  BY Zenon, <1>4, <1>6, <1>9, <1>11, <1>12 DEF Removed, u, a, b

\* authenticated leaves the table in agreement with what the sessions know.
LEMMA AuthenticatedKeeps ==
  ASSUME IInv, NEW k \in Sessions
  PROVE  Good(Authenticated(k), recorded)
<1>1. table \in Seq(Entries) /\ Len(table) \in Nat /\ DOMAIN table = 1 .. Len(table)
      /\ \A i \in 1 .. Len(table) : table[i] \in Entries
  BY Zenon, ElementOfSeq, LenProperties DEF IInv, Good
<1>2. CASE Tracked(k)
  <2>1. At(k) \in 1 .. Len(table) /\ table[At(k)] \in Entries
    BY Zenon, <1>2, Found
  <2>2. Apply(table[At(k)].state, "AuthenticationAccepted") = Refused
    BY Zenon, <2>1, AtRest DEF Entries
  <2>3. Authenticated(k) = [table EXCEPT ![At(k)].state = table[At(k)].state]
    BY Zenon, <1>2, <2>2 DEF Authenticated
  <2>4. [table[At(k)] EXCEPT !.state = table[At(k)].state] = table[At(k)]
    BY Zenon, <2>1 DEF Entries
  <2>5. [table EXCEPT ![At(k)] = table[At(k)]] = table
    BY <1>1, <2>1, ExceptSeq, SeqEqual
  <2> QED
    BY Zenon, <2>3, <2>4, <2>5 DEF IInv
<1>3. CASE ~Tracked(k) /\ Len(table) < MaxTracked
  <2>1. WithRoom = <<table>> /\ WithRoom # <<>> /\ Head(WithRoom) = table
    BY <1>3 DEF WithRoom
  <2>2. Authenticated(k) = Append(table, [key |-> k, state |-> "Authenticating"])
    BY Zenon, <1>3, <2>1 DEF Authenticated
  <2> QED
    BY <2>2, <1>3, Untracked, Joins DEF IInv
<1>4. CASE ~Tracked(k) /\ ~(Len(table) < MaxTracked)
  <2> DEFINE abandoned == {i \in DOMAIN table : Abandoned(table[i])}
             first == CHOOSE i \in abandoned : \A j \in abandoned : i <= j
  <2>1. CASE abandoned = {}
    BY Zenon, <1>4, <2>1 DEF WithRoom, Authenticated, IInv
  <2>2. CASE abandoned # {}
    <3>1. abandoned \subseteq Nat
      BY <1>1
    <3>2. \E i \in abandoned : \A j \in abandoned : i <= j
      <4>1. \E i \in abandoned : \A j \in abandoned : ~(<<j, i>> \in OpToRel(<, Nat))
        BY <2>2, <3>1, NatLessThanWellFounded, WFMin, Zenon
      <4> HIDE DEF abandoned
      <4>2. PICK i \in abandoned : \A j \in abandoned : ~(<<j, i>> \in OpToRel(<, Nat))
        BY Zenon, <4>1
      <4>3. ASSUME NEW j \in abandoned
            PROVE  i <= j
        <5>1. <<j, i>> \notin {ss \in Nat \X Nat : ss[1] < ss[2]}
          BY Zenon, <4>2 DEF OpToRel
        <5>2. i \in Nat /\ j \in Nat /\ <<j, i>> \in Nat \X Nat
          BY Zenon, <3>1
        <5>3. ~(j < i)
          BY Zenon, <5>1, <5>2
        <5> QED
          BY <5>2, <5>3
      <4> QED
        BY Zenon, <4>3
    <3>3. first \in abandoned
      BY Zenon, <3>2
    <3> HIDE DEF first
    <3>4. first \in 1 .. Len(table) /\ table[first].state = "Authenticating"
      BY Zenon, <3>3, <1>1 DEF Abandoned, Entries, Resting
    <3> DEFINE u == Removed(table, first)
    <3>5. Good(u, recorded) /\ Len(u) = Len(table) - 1
          /\ \A j \in 1 .. Len(table) - 1 : \E l \in 1 .. Len(table) : u[j] = table[l]
      BY Zenon, <3>4, Evicts
    <3>6. WithRoom = <<u>> /\ WithRoom # <<>> /\ Head(WithRoom) = u
      BY <1>4, <2>2 DEF WithRoom, first
    <3>7. Authenticated(k) = Append(u, [key |-> k, state |-> "Authenticating"])
      BY Zenon, <1>4, <3>6 DEF Authenticated
    <3> HIDE DEF u
    <3>8. \A j \in 1 .. Len(u) : u[j].key # k
      BY Zenon, <3>5, <1>4, Untracked
    <3>9. Len(u) < MaxTracked
      BY <3>5, <1>1, MaxTrackedAssumption DEF IInv, Good
    <3> QED
      BY ZenonT(60), <3>5, <3>7, <3>8, <3>9, Joins DEF IInv
  <2> QED
    BY Zenon, <2>1, <2>2
<1> QED
  BY Zenon, <1>2, <1>3, <1>4

\* swap_remove takes one entry out and keeps the others.
LEMMA Forgets ==
  ASSUME IInv, NEW k \in Sessions, Tracked(k)
  PROVE  Good(Forgotten(k), [recorded EXCEPT ![k] = "no"])
<1> DEFINE n == Len(table)
           i == At(k)
           s == [table EXCEPT ![i] = table[n]]
           u == SubSeq(s, 1, n - 1)
           from == [j \in 1 .. n - 1 |-> IF j = i THEN n ELSE j]
<1>1. table \in Seq(Entries) /\ n \in Nat /\ \A j \in 1 .. n : table[j] \in Entries
  BY ElementOfSeq DEF IInv, Good
<1>2. i \in 1 .. n /\ table[i].key = k
  BY Zenon, Found
<1> HIDE DEF i, n
<1>3. n \in 1 .. n
  BY <1>1, <1>2
<1>4. s \in Seq(Entries) /\ Len(s) = n /\ \A j \in 1 .. n : s[j] = IF j = i THEN table[n] ELSE table[j]
  BY <1>1, <1>2, <1>3, ExceptSeq DEF n
<1> HIDE DEF s
<1>5. u \in Seq(Entries) /\ Len(u) = n - 1 /\ \A j \in 1 .. n - 1 : u[j] = s[j]
  <2>1. \A j \in 1 .. n - 1 : s[j] \in Entries
    BY <1>1, <1>3, <1>4
  <2>2. /\ u \in Seq(Entries)
        /\ Len(u) = IF 1 <= n - 1 THEN n - 1 - 1 + 1 ELSE 0
        /\ \A j \in 1 .. n - 1 - 1 + 1 : u[j] = s[1 + j - 1]
    BY <2>1, <1>1, SubSeqProperties
  <2> HIDE DEF u
  <2> QED
    BY <2>2, <1>1, <1>3
<1>6. Forgotten(k) = u
  BY Zenon DEF Forgotten, u, s, n, i
<1> HIDE DEF u
<1>7. from \in [1 .. Len(u) -> 1 .. n]
  BY <1>1, <1>3, <1>5
<1>8. \A j \in 1 .. Len(u) : from[j] # i /\ u[j] = table[from[j]]
  BY <1>1, <1>2, <1>4, <1>5
<1>9. \A j, l \in 1 .. Len(u) : from[j] = from[l] => j = l
  BY <1>1, <1>5
<1>10. ASSUME NEW l \in 1 .. n, l # i
       PROVE  \E j \in 1 .. Len(u) : from[j] = l
  <2>1. CASE l = n
    <3>1. i \in 1 .. Len(u) /\ from[i] = l
      BY <2>1, <1>1, <1>2, <1>5, <1>10
    <3> QED
      BY Zenon, <3>1
  <2>2. CASE l # n
    <3>1. l \in 1 .. Len(u) /\ from[l] = l
      BY <2>2, <1>1, <1>5, <1>10
    <3> QED
      BY Zenon, <3>1
  <2> QED
    BY Zenon, <2>1, <2>2
<1> HIDE DEF from
<1>11. recorded \in Records /\ Good(table, recorded)
  BY Zenon DEF IInv
<1>12. /\ Len(u) = Len(table) - 1
       /\ i \in 1 .. Len(table)
       /\ from \in [1 .. Len(u) -> 1 .. Len(table)]
       /\ \A l \in 1 .. Len(table) : l # i => \E j \in 1 .. Len(u) : from[j] = l
  BY Zenon, <1>2, <1>5, <1>7, <1>10 DEF n
<1>13. Good(u, [recorded EXCEPT ![table[i].key] = "no"])
  BY ZenonT(60), <1>5, <1>8, <1>9, <1>11, <1>12, Leaves
<1> QED
  BY Zenon, <1>2, <1>6, <1>13

-----------------------------------------------------------------------------
(* The hosts. *)

\* StateOf reads the entry of a tracked session, and nothing else has a state.
LEMMA StateRead ==
  ASSUME IInv, NEW k \in Sessions
  PROVE  /\ \A i \in 1 .. Len(table) : table[i].key = k => StateOf(k) = table[i].state
         /\ StateOf(k) # "none" => Tracked(k)
         /\ Tracked(k) => /\ At(k) \in 1 .. Len(table)
                          /\ table[At(k)] \in Entries
                          /\ table[At(k)].key = k
                          /\ StateOf(k) = table[At(k)].state
                          /\ StateOf(k) \in Resting
<1>1. Tracked(k) => /\ At(k) \in 1 .. Len(table)
                    /\ table[At(k)] \in Entries
                    /\ table[At(k)].key = k
  BY Zenon, Found
<1>2. ASSUME NEW i \in 1 .. Len(table), table[i].key = k
      PROVE  StateOf(k) = table[i].state
  <2>1. Tracked(k)
    BY <1>2, LenProperties DEF Tracked, IInv, Good
  <2>2. At(k) = i
    BY Zenon, <2>1, <1>1, <1>2 DEF IInv, Good
  <2> QED
    BY Zenon, <2>1, <2>2 DEF StateOf
<1> QED
  BY Zenon, <1>1, <1>2 DEF StateOf, Entries

\* Every step of every session keeps the agreement.
LEMMA StepKeeps ==
  ASSUME IInv, [Next]_vars
  PROVE  IInv'
<1>1. CASE UNCHANGED vars
  BY Zenon, <1>1 DEF IInv, Good, vars
<1>2. ASSUME NEW k \in Sessions,
             \/ Authenticate(k) \/ OpenUnauthenticated(k) \/ SetupFails(k) \/ LookUp(k)
             \/ AddMissing(k) \/ StartStream(k) \/ TransportLost(k) \/ Ended(k)
      PROVE  IInv'
  <2>1. place' \in [Sessions -> Places]
    BY Zenon, <1>2 DEF IInv, Places, Authenticate, OpenUnauthenticated, SetupFails, LookUp, AddMissing,
       StartStream, TransportLost, Ended, Goto
  <2>2. CASE UNCHANGED <<table, recorded>>
    BY Zenon, <2>1, <2>2 DEF IInv, Good
  <2>3. CASE table' = Authenticated(k) /\ UNCHANGED recorded
    BY Zenon, <2>1, <2>3, AuthenticatedKeeps DEF IInv
  <2>4. ASSUME NEW s \in {"Streaming", "Recovering"}, Tracked(k),
               table' = [table EXCEPT ![At(k)].state = s], Record(k, s)
        PROVE  IInv'
    <3>1. At(k) \in 1 .. Len(table) /\ table[At(k)].key = k
      BY Zenon, <2>4, StateRead
    <3>2. recorded \in Records /\ Good(table, recorded)
      BY Zenon DEF IInv
    <3>3. Good([table EXCEPT ![At(k)].state = s], [recorded EXCEPT ![table[At(k)].key] = s])
      BY Zenon, <3>1, <3>2, Advances
    <3>4. Good(table', recorded')
      BY Zenon, <2>4, <3>1, <3>3 DEF Record
    <3>5. recorded' \in Records
      BY Zenon, <2>4, <3>2 DEF Record, Records
    <3> QED
      BY Zenon, <2>1, <3>4, <3>5 DEF IInv
  <2>5. CASE StartStream(k) /\ ~UNCHANGED <<table, recorded>>
    <3>1. Tracked(k) /\ Started(StateOf(k)) # Refused /\ Record(k, "Streaming")
          /\ table' = [table EXCEPT ![At(k)].state = Started(table[At(k)].state)]
      BY Zenon, <2>5 DEF StartStream
    <3>2. StateOf(k) = table[At(k)].state /\ StateOf(k) \in Resting
      BY Zenon, <3>1, StateRead
    <3>3. Started(table[At(k)].state) = "Streaming"
      BY Zenon, <3>1, <3>2, AtRest
    <3> QED
      BY Zenon, <3>1, <3>3, <2>4
  <2>6. CASE TransportLost(k) /\ ~UNCHANGED <<table, recorded>>
    <3>1. Tracked(k) /\ Apply(StateOf(k), "TransportLost") # Refused
          /\ Record(k, Apply(StateOf(k), "TransportLost"))
          /\ table' = [table EXCEPT ![At(k)].state = Apply(StateOf(k), "TransportLost")]
      BY Zenon, <2>6 DEF TransportLost
    <3>2. Apply(StateOf(k), "TransportLost") = "Recovering"
      BY Zenon, <3>1, StateRead, AtRest
    <3> QED
      BY Zenon, <3>1, <3>2, <2>4
  <2>7. CASE Ended(k)
    <3>1. recorded' = [recorded EXCEPT ![k] = "no"] /\ recorded' \in Records
      BY Zenon, <2>7 DEF Ended, Record, IInv, Records
    <3>2. CASE Tracked(k)
      <4>1. table' = Forgotten(k)
        BY Zenon, <2>7, <3>2, StateRead, AtRest DEF Ended
      <4> QED
        BY Zenon, <2>1, <3>1, <3>2, <4>1, Forgets DEF IInv
    <3>3. CASE ~Tracked(k)
      <4>1. table' = table
        BY Zenon, <2>7, <3>3 DEF Ended
      <4>2. recorded[k] = "no"
        BY <3>3, LenProperties DEF Tracked, IInv, Good
      <4>3. recorded' = recorded
        BY Zenon, <3>1, <4>2 DEF IInv, Records
      <4> QED
        BY Zenon, <2>2, <4>1, <4>3
    <3> QED
      BY Zenon, <3>2, <3>3
  <2> QED
    BY Zenon, <1>2, <2>2, <2>3, <2>5, <2>6, <2>7
       DEF Authenticate, OpenUnauthenticated, SetupFails, LookUp, AddMissing
<1> QED
  BY Zenon, <1>1, <1>2 DEF Next

-----------------------------------------------------------------------------
(* What holds of every behaviour. *)

\* The table and what the sessions were told agree from the empty table on.
THEOREM Agreement == Spec => []IInv
<1>1. Init => IInv
  <2> SUFFICES ASSUME Init
               PROVE  IInv
    BY Zenon
  <2>1. place \in [Sessions -> Places] /\ recorded \in Records
    BY Zenon DEF Init, Places, Records
  <2>2. Good(table, recorded)
    BY MaxTrackedAssumption, EmptySeq DEF Init, Good
  <2> QED
    BY Zenon, <2>1, <2>2 DEF IInv
<1> QED
  BY <1>1, StepKeeps, PTL DEF Spec

\* Types: entries name sessions and lifecycle states, whatever swap_remove and
\* remove have done to the vector.
THEOREM TypeCorrect == Spec => []TypeOK
<1>1. IInv => TypeOK
  <2> SUFFICES ASSUME IInv
               PROVE  TypeOK
    BY Zenon
  <2>1. Entries \subseteq [key : Sessions, state : States]
    BY Zenon DEF Entries, Resting, States
  <2>2. table \in Seq([key : Sessions, state : States])
    BY ZenonT(60), <2>1, SeqMonotonic DEF IInv, Good
  <2> QED
    BY Zenon, <2>2 DEF TypeOK, IInv, Places, Records
<1> QED
  BY <1>1, Agreement, PTL

\* make_room never takes the entry of a session stream_started or transport_lost
\* confirmed: its lifecycle is in the table, in the state it was told, for any
\* number of sessions and any capacity.
THEOREM ConfirmedIsTracked == Spec => []ConfirmedStaysTracked
<1>1. IInv => ConfirmedStaysTracked
  <2> SUFFICES ASSUME IInv, NEW k \in Sessions, recorded[k] # "no"
               PROVE  StateOf(k) = recorded[k]
    BY Zenon DEF ConfirmedStaysTracked
  <2>1. PICK i \in 1 .. Len(table) : table[i].key = k /\ table[i].state = recorded[k]
    BY Zenon DEF IInv, Good
  <2> QED
    BY Zenon, <2>1, StateRead
<1> QED
  BY <1>1, Agreement, PTL

\* An entry make_room may not evict is that of a session told so: session_ended
\* leaves none behind, so the table cannot fill with dead sessions.
THEOREM LiveEntryIsConfirmed == Spec => []LiveEntriesRun
<1>1. IInv => LiveEntriesRun
  <2> SUFFICES ASSUME IInv, NEW k \in Sessions, StateOf(k) \in {"Streaming", "Recovering"}
               PROVE  recorded[k] = StateOf(k)
    BY Zenon DEF LiveEntriesRun
  <2>1. Tracked(k)
    BY Zenon, StateRead
  <2>2. /\ At(k) \in 1 .. Len(table)
        /\ table[At(k)].key = k
        /\ StateOf(k) = table[At(k)].state
    BY Zenon, <2>1, StateRead
  <2> QED
    BY Zenon, <2>2 DEF IInv, Good
<1> QED
  BY <1>1, Agreement, PTL

\* The table never exceeds MAX_TRACKED_SESSIONS and never holds a session twice,
\* although stream_started adds a session it looked up under an earlier lock.
THEOREM Bounded == Spec => []TableIsBounded
<1>1. IInv => TableIsBounded
  BY LenProperties DEF IInv, Good, TableIsBounded
<1> QED
  BY <1>1, Agreement, PTL

-----------------------------------------------------------------------------
(* The outbox and the lane: the inductive invariant. *)

\* What a record says, the records, and what a Deck or a host has.
Args == Int \cup Strokes \cup KeyCodes \cup Buttons
Recs == {r \in [kind : Kinds, arg : Args, down : BOOLEAN, merges : BOOLEAN, seq : Nat] :
            r.kind \in {"abs", "region", "rel"} => r.arg \in Int}
DeckStates == [x : Int, pen : Nat, held : SUBSET Args]
HostStates == [x : Int, pen : Nat, held : SUBSET Args, seq : Nat]

\* The types of the variables; a lane that failed carries nothing, and nothing is
\* released before a failure.
OutboxTypes ==
    /\ log \in Seq(Recs) /\ was \in Seq(DeckStates) /\ Len(was) = Len(log)
    /\ applied \in Seq(Recs) /\ records \in Seq(Recs) /\ outbox \in Seq(Recs)
    /\ deck \in DeckStates /\ host \in HostStates
    /\ lost \in SUBSET (1 .. Len(log)) /\ fails \in Nat
    /\ lane \in {"open", "failed", "done"} /\ release \in BOOLEAN
    /\ Len(records) <= LaneCap
    /\ lane = "failed" => records = <<>> /\ fails # 0
    /\ fails = 0 => ~release

\* The sequence number of the last of some records.
LastSeq(s) == IF s = <<>> THEN 0 ELSE s[Len(s)].seq

\* Records in the order the Deck numbered them, the last of n.
InOrder(s) == \A i, j \in DOMAIN s : i < j => s[i].seq < s[j].seq
Numbered(s, n) == \A i \in DOMAIN s : s[i].seq \in 1 .. n

\* What the Deck had after its n-th record.
HadAfter(w, n) == IF n = 0 THEN Blank ELSE w[n]
SeqBefore(s, i) == IF i = 1 THEN 0 ELSE s[i - 1].seq

\* Each record that is kept leads from where the Deck was after the one before it
\* to where the Deck was after it, coalesced as it may be.
LeadsAt(s, w, i) == HadAfter(w, s[i].seq) = Effect(HadAfter(w, SeqBefore(s, i)), s[i])
Leads(s, w) == \A i \in DOMAIN s : LeadsAt(s, w, i)

\* The host has what d says.
Has(h, d) == h.x = d.x /\ h.pen = d.pen /\ h.held = d.held

Followed ==
    fails = 0 /\ lane = "open" =>
        /\ Leads(Kept, was)
        /\ LastSeq(Kept) = Len(log) /\ deck = HadAfter(was, Len(log))
        /\ Has(host, HadAfter(was, host.seq))

OutboxIInv ==
    /\ OutboxTypes
    /\ InOrder(Kept) /\ Numbered(Kept, Len(log))
    /\ Edges(Kept) = {r \in Edges(log) : r.seq \notin lost}
    /\ host.seq = LastSeq(applied)
    /\ Followed

-----------------------------------------------------------------------------
(* Sequences of records. *)

\* u is t without its k-th element.
DropAt(t, k, u) ==
    /\ Len(u) = Len(t) - 1
    /\ \A i \in 1 .. Len(u) : u[i] = IF i < k THEN t[i] ELSE t[i + 1]

\* Concatenation stays among the sequences of records.
LEMMA Concatenates == \A x, y \in Seq(Recs) : x \o y \in Seq(Recs)
  OBVIOUS

\* Concatenation is associative.
LEMMA Associates == \A x, y, z \in Seq(Recs) : (x \o y) \o z = x \o (y \o z)
  OBVIOUS

\* With the first n of s in the lane behind q, the line is what it was.
MovesBorder(p, q, s, n) ==
    /\ SubSeq(s, n + 1, Len(s)) \in Seq(Recs)
    /\ q \o SubSeq(s, 1, n) \in Seq(Recs) /\ Len(q \o SubSeq(s, 1, n)) = Len(q) + n
    /\ (p \o (q \o SubSeq(s, 1, n))) \o SubSeq(s, n + 1, Len(s)) = (p \o q) \o s

\* What the lane takes from the front of s stays in line: flush moves the border
\* between the lane and the outbox and nothing else.
LEMMA FlushMovesBorder ==
  ASSUME NEW p \in Seq(Recs), NEW q \in Seq(Recs), NEW s \in Seq(Recs), NEW n \in 0 .. Len(s)
  PROVE  MovesBorder(p, q, s, n)
<1> DEFINE a == SubSeq(s, 1, n)
           b == SubSeq(s, n + 1, Len(s))
<1>1. a \in Seq(Recs) /\ Len(a) = n
  BY SubSeqProperties
<1>2. b \in Seq(Recs)
  BY SubSeqProperties
<1>3. a \o b = s
  <2>1. /\ Len(s) \in Nat /\ 1 \in 1 .. Len(s) + 1 /\ n \in (1 - 1) .. Len(s)
        /\ Len(s) \in n .. Len(s)
    OBVIOUS
  <2>2. a \o b = SubSeq(s, 1, Len(s))
    BY Zenon, <2>1, ConcatAdjacentSubSeq
  <2> QED
    BY Zenon, <2>2, SubSeqFull
<1> HIDE DEF a, b
<1>4. q \o a \in Seq(Recs) /\ Len(q \o a) = Len(q) + n
  BY Zenon, <1>1, ConcatProperties
<1>6. (p \o (q \o a)) \o b = ((p \o q) \o a) \o b
  BY Zenon, <1>1, Associates
<1>7. ((p \o q) \o a) \o b = (p \o q) \o (a \o b)
  <2>1. PICK c \in Seq(Recs) : c = p \o q
    BY Zenon, Concatenates
  <2>2. (c \o a) \o b = c \o (a \o b)
    BY Zenon, <1>1, <1>2, Associates
  <2> QED
    BY Zenon, <2>1, <2>2
<1> QED
  BY Zenon, <1>1, <1>2, <1>3, <1>4, <1>6, <1>7 DEF MovesBorder, a, b

\* With the head of the lane injected, the line is what it was.
ReadsHead(p, q, s) ==
    /\ Append(p, Head(q)) \in Seq(Recs) /\ Tail(q) \in Seq(Recs) /\ Head(q) \in Recs
    /\ (Append(p, Head(q)) \o Tail(q)) \o s = (p \o q) \o s

\* The record the host injects moves from the lane to those applied.
LEMMA ReadMovesBorder ==
  ASSUME NEW p \in Seq(Recs), NEW q \in Seq(Recs), NEW s \in Seq(Recs), q # <<>>
  PROVE  ReadsHead(p, q, s)
<1>1. Head(q) \in Recs /\ Tail(q) \in Seq(Recs) /\ Head(q) = q[1]
  BY HeadTailProperties
<1>2. <<Head(q)>> \o Tail(q) = q
  <2>1. Len(q) \in Nat /\ Len(q) >= 1
    OBVIOUS
  <2>2. SubSeq(q, 1, Len(q)) = <<q[1]>> \o SubSeq(q, 2, Len(q))
    <3>1. 1 \in 1 .. Len(q) /\ Len(q) \in 1 .. Len(q)
      BY <2>1
    <3>2. SubSeq(q, 1, Len(q)) = <<q[1]>> \o SubSeq(q, 1 + 1, Len(q))
      BY Zenon, <3>1, SubSeqRecursiveFirst
    <3> QED
      BY <3>2
  <2> QED
    BY Zenon, <1>1, <2>2, SubSeqFull, TailIsSubSeq
<1>3. Append(p, Head(q)) = p \o <<Head(q)>> /\ Append(p, Head(q)) \in Seq(Recs)
  BY Zenon, <1>1, AppendIsConcat, AppendProperties
<1>4. <<Head(q)>> \in Seq(Recs)
  BY <1>1
<1>5. (p \o <<Head(q)>>) \o Tail(q) = p \o (<<Head(q)>> \o Tail(q))
  BY <1>1, <1>4, ConcatAssociative
<1> QED
  BY Zenon, <1>1, <1>2, <1>3, <1>5 DEF ReadsHead

\* A record behind the last one waiting is behind everything in line.
LEMMA AppendBehind ==
  ASSUME NEW p \in Seq(Recs), NEW s \in Seq(Recs), NEW z \in Recs
  PROVE  Append(s, z) \in Seq(Recs) /\ p \o Append(s, z) = Append(p \o s, z)
<1>1. Append(s, z) = s \o <<z>> /\ Append(s, z) \in Seq(Recs)
  BY Zenon, AppendIsConcat, AppendProperties
<1>2. <<z>> \in Seq(Recs)
  OBVIOUS
<1>3. p \o s \in Seq(Recs)
  BY Zenon, ConcatProperties
<1>4. Append(p \o s, z) = (p \o s) \o <<z>>
  BY Zenon, <1>3, AppendIsConcat
<1> QED
  BY <1>1, <1>2, <1>4, ConcatAssociative

\* A record that leaves the outbox leaves the line.
LEMMA RemoveDrops ==
  ASSUME NEW p \in Seq(Recs), NEW t \in Seq(Recs), NEW j \in 1 .. Len(t)
  PROVE  /\ Without(t, j) \in Seq(Recs)
         /\ DropAt(p \o t, Len(p) + j, p \o Without(t, j))
<1> DEFINE a == SubSeq(t, 1, j - 1)
           b == SubSeq(t, j + 1, Len(t))
           u == a \o b
<1>0. Len(t) \in Nat /\ j \in Nat /\ j >= 1 /\ j <= Len(t)
  OBVIOUS
<1>1. /\ a \in Seq(Recs) /\ Len(a) = j - 1
      /\ \A i \in 1 .. j - 1 : a[i] = t[i]
  BY SubSeqProperties
<1>2. /\ b \in Seq(Recs) /\ Len(b) = Len(t) - j
      /\ \A i \in 1 .. Len(t) - j : b[i] = t[j + i]
  BY SubSeqProperties
<1> HIDE DEF a, b
<1>3. /\ u \in Seq(Recs) /\ Len(u) = Len(t) - 1
      /\ \A i \in 1 .. Len(u) : u[i] = IF i < j THEN t[i] ELSE t[i + 1]
  <2>1. /\ u \in Seq(Recs) /\ Len(u) = Len(a) + Len(b)
        /\ \A i \in 1 .. Len(a) + Len(b) : u[i] = IF i <= Len(a) THEN a[i] ELSE b[i - Len(a)]
    BY Zenon, <1>1, <1>2, ConcatProperties
  <2> HIDE DEF u
  <2>2. Len(u) = Len(t) - 1
    BY <1>0, <1>1, <1>2, <2>1
  <2>3. ASSUME NEW i \in 1 .. Len(u)
        PROVE  u[i] = IF i < j THEN t[i] ELSE t[i + 1]
    <3>1. i \in Nat /\ i >= 1 /\ i <= Len(t) - 1 /\ i \in 1 .. Len(a) + Len(b)
      BY <1>0, <1>1, <1>2, <2>2
    <3>2. u[i] = IF i <= Len(a) THEN a[i] ELSE b[i - Len(a)]
      BY Zenon, <3>1, <2>1
    <3>3. CASE i < j
      <4>1. i \in 1 .. j - 1 /\ i <= Len(a)
        BY <1>0, <1>1, <3>1, <3>3
      <4> QED
        BY Zenon, <1>1, <3>2, <3>3, <4>1
    <3>4. CASE ~(i < j)
      <4>1. i - Len(a) \in 1 .. Len(t) - j /\ ~(i <= Len(a)) /\ j + (i - Len(a)) = i + 1
        BY <1>0, <1>1, <3>1, <3>4
      <4>2. b[i - Len(a)] = t[j + (i - Len(a))]
        BY Zenon, <1>2, <4>1
      <4> QED
        BY Zenon, <3>2, <3>4, <4>1, <4>2
    <3> QED
      BY Zenon, <3>3, <3>4
  <2> QED
    BY Zenon, <2>1, <2>2, <2>3
<1> HIDE DEF u
<1>4. /\ p \o u \in Seq(Recs) /\ Len(p \o u) = Len(p) + Len(u)
      /\ \A i \in 1 .. Len(p) + Len(u) : (p \o u)[i] = IF i <= Len(p) THEN p[i] ELSE u[i - Len(p)]
  BY Zenon, <1>3, ConcatProperties
<1>5. /\ Len(p \o t) = Len(p) + Len(t)
      /\ \A i \in 1 .. Len(p) + Len(t) : (p \o t)[i] = IF i <= Len(p) THEN p[i] ELSE t[i - Len(p)]
  BY Zenon, ConcatProperties
<1>6. DropAt(p \o t, Len(p) + j, p \o u)
  <2> DEFINE pu == p \o u
             pt == p \o t
  <2>1. Len(p) \in Nat
    OBVIOUS
  <2> HIDE DEF pu, pt
  <2>2. Len(pu) = Len(pt) - 1
    BY <1>0, <1>3, <1>4, <1>5, <2>1 DEF pu, pt
  <2>3. ASSUME NEW i \in 1 .. Len(pu)
        PROVE  pu[i] = IF i < Len(p) + j THEN pt[i] ELSE pt[i + 1]
    <3>1. i \in Nat /\ i >= 1 /\ i <= Len(p) + Len(u) /\ Len(u) = Len(t) - 1
      BY <1>0, <1>3, <1>4, <2>1 DEF pu
    <3>2. pu[i] = IF i <= Len(p) THEN p[i] ELSE u[i - Len(p)]
      BY <3>1, <1>4, <2>1, <1>0 DEF pu
    <3>3. pt[i] = IF i <= Len(p) THEN p[i] ELSE t[i - Len(p)]
      BY <3>1, <1>5, <2>1, <1>0 DEF pt
    <3>4. pt[i + 1] = IF i + 1 <= Len(p) THEN p[i + 1] ELSE t[(i + 1) - Len(p)]
      BY <3>1, <1>5, <2>1, <1>0 DEF pt
    <3>5. CASE i <= Len(p)
      BY <3>1, <3>2, <3>3, <3>5, <2>1, <1>0
    <3>6. CASE ~(i <= Len(p))
      <4>1. i - Len(p) \in 1 .. Len(u)
        BY <3>1, <3>6, <2>1, <1>0
      <4>2. u[i - Len(p)] = IF i - Len(p) < j THEN t[i - Len(p)] ELSE t[(i - Len(p)) + 1]
        BY Zenon, <4>1, <1>3
      <4>3. (i - Len(p)) + 1 = (i + 1) - Len(p) /\ (i - Len(p) < j <=> i < Len(p) + j)
            /\ ~(i + 1 <= Len(p))
        BY <3>1, <3>6, <2>1, <1>0
      <4> QED
        BY Zenon, <3>2, <3>3, <3>4, <3>6, <4>2, <4>3
    <3> QED
      BY Zenon, <3>5, <3>6
  <2> QED
    BY Zenon, <2>2, <2>3 DEF DropAt, pu, pt
<1>7. Without(t, j) = u
  BY Zenon DEF Without, u, a, b
<1> QED
  BY Zenon, <1>3, <1>6, <1>7

\* A new record goes behind those before it.
LEMMA NewestIsLast ==
  ASSUME NEW s \in Seq(Recs), NEW n \in Nat, NEW z \in Recs, z.seq = n + 1,
         InOrder(s), Numbered(s, n)
  PROVE  /\ Append(s, z) \in Seq(Recs) /\ Len(Append(s, z)) = Len(s) + 1
         /\ \A i \in 1 .. Len(s) : Append(s, z)[i] = s[i]
         /\ Append(s, z)[Len(s) + 1] = z
         /\ InOrder(Append(s, z)) /\ Numbered(Append(s, z), n + 1)
<1> DEFINE t == Append(s, z)
<1>1. /\ t \in Seq(Recs) /\ Len(t) = Len(s) + 1 /\ Len(s) \in Nat
      /\ \A i \in 1 .. Len(s) : t[i] = s[i]
      /\ t[Len(s) + 1] = z
  BY AppendProperties
<1> HIDE DEF t
<1>2. DOMAIN t = 1 .. Len(s) + 1 /\ DOMAIN s = 1 .. Len(s)
  BY <1>1
<1>3. \A i \in 1 .. Len(s) : s[i].seq \in Nat /\ 1 <= s[i].seq /\ s[i].seq <= n
  BY <1>2 DEF Numbered
<1>4. InOrder(t)
  <2> SUFFICES ASSUME NEW i \in 1 .. Len(s) + 1, NEW j \in 1 .. Len(s) + 1, i < j
               PROVE  t[i].seq < t[j].seq
    BY Zenon, <1>2 DEF InOrder
  <2>1. i \in 1 .. Len(s)
    BY <1>1
  <2>2. CASE j = Len(s) + 1
    <3>1. t[i] = s[i] /\ t[j] = z
      BY Zenon, <1>1, <2>1, <2>2
    <3>2. s[i].seq < n + 1
      BY <1>3, <2>1
    <3> QED
      BY Zenon, <3>1, <3>2
  <2>3. CASE j # Len(s) + 1
    <3>1. j \in 1 .. Len(s)
      BY <1>1, <2>3
    <3>2. t[i] = s[i] /\ t[j] = s[j]
      BY Zenon, <1>1, <2>1, <3>1
    <3> QED
      BY Zenon, <1>2, <2>1, <3>1, <3>2 DEF InOrder
  <2> QED
    BY Zenon, <2>2, <2>3
<1>5. Numbered(t, n + 1)
  <2> SUFFICES ASSUME NEW i \in 1 .. Len(s) + 1
               PROVE  t[i].seq \in 1 .. n + 1
    BY Zenon, <1>2 DEF Numbered
  <2>1. CASE i = Len(s) + 1
    <3>1. n + 1 \in 1 .. n + 1
      OBVIOUS
    <3> QED
      BY Zenon, <1>1, <2>1, <3>1
  <2>2. CASE i # Len(s) + 1
    <3>1. i \in 1 .. Len(s)
      BY <1>1, <2>2
    <3>2. s[i].seq \in 1 .. n + 1
      BY <1>3, <3>1
    <3> QED
      BY Zenon, <1>1, <3>1, <3>2
  <2> QED
    BY Zenon, <2>1, <2>2
<1> QED
  BY Zenon, <1>1, <1>4, <1>5 DEF t

\* A record that is left out leaves the others in order, and their edges.
LEMMA DropKeepsOrder ==
  ASSUME NEW t \in Seq(Recs), NEW u \in Seq(Recs), NEW k \in 1 .. Len(t), DropAt(t, k, u),
         NEW n \in Nat, InOrder(t), Numbered(t, n)
  PROVE  /\ InOrder(u) /\ Numbered(u, n)
         /\ Class(t[k]) # "edge" => Edges(u) = Edges(t)
<1>1. /\ Len(t) \in Nat /\ Len(u) = Len(t) - 1 /\ k \in Nat /\ k >= 1 /\ k <= Len(t)
      /\ DOMAIN t = 1 .. Len(t) /\ DOMAIN u = 1 .. Len(t) - 1
  BY DEF DropAt
<1>2. \A i \in DOMAIN u : u[i] = IF i < k THEN t[i] ELSE t[i + 1]
  BY Zenon, <1>1 DEF DropAt
<1>3. \A i \in DOMAIN u : i \in DOMAIN t /\ i + 1 \in DOMAIN t
  BY <1>1
<1>4. InOrder(u)
  <2> SUFFICES ASSUME NEW i \in DOMAIN u, NEW j \in DOMAIN u, i < j
               PROVE  u[i].seq < u[j].seq
    BY Zenon DEF InOrder
  <2>1. PICK a \in DOMAIN t : u[i] = t[a] /\ a = IF i < k THEN i ELSE i + 1
    BY Zenon, <1>2, <1>3
  <2>2. PICK b \in DOMAIN t : u[j] = t[b] /\ b = IF j < k THEN j ELSE j + 1
    BY Zenon, <1>2, <1>3
  <2>3. a < b
    BY <1>1, <2>1, <2>2
  <2> QED
    BY Zenon, <2>1, <2>2, <2>3 DEF InOrder
<1>5. Numbered(u, n)
  BY Zenon, <1>2, <1>3 DEF Numbered
<1>6. ASSUME Class(t[k]) # "edge"
      PROVE  Edges(u) = Edges(t)
  <2>1. ASSUME NEW i \in DOMAIN u
        PROVE  u[i] \in Range(t)
    BY Zenon, <1>2, <1>3 DEF Range
  <2>2. ASSUME NEW i \in DOMAIN t, i # k
        PROVE  t[i] \in Range(u)
    <3>1. CASE i < k
      <4>1. i \in DOMAIN u
        BY <1>1, <3>1
      <4> QED
        BY Zenon, <1>2, <3>1, <4>1 DEF Range
    <3>2. CASE ~(i < k)
      <4>1. PICK j \in DOMAIN u : j = i - 1
        BY <1>1, <2>2, <3>2
      <4>2. ~(j < k) /\ j + 1 = i
        BY <1>1, <2>2, <3>2, <4>1
      <4> QED
        BY Zenon, <1>2, <4>2 DEF Range
    <3> QED
      BY Zenon, <3>1, <3>2
  <2>3. ASSUME NEW e \in Edges(u)
        PROVE  e \in Edges(t)
    <3>1. Class(e) = "edge" /\ \E i \in DOMAIN u : e = u[i]
      BY Zenon DEF Edges, Range
    <3> QED
      BY Zenon, <2>1, <3>1 DEF Edges
  <2>4. ASSUME NEW e \in Edges(t)
        PROVE  e \in Edges(u)
    <3>1. Class(e) = "edge" /\ \E i \in DOMAIN t : e = t[i]
      BY Zenon DEF Edges, Range
    <3> QED
      BY Zenon, <1>6, <2>2, <3>1 DEF Edges
  <2> QED
    BY Zenon, <2>3, <2>4
<1> QED
  BY Zenon, <1>4, <1>5, <1>6

-----------------------------------------------------------------------------
(* What a record does to the Deck and to the host. *)

\* The pointer, the pen and the keys of w are those of v after r.
Goes(v, r, w) ==
    /\ w.x = IF r.kind \in {"abs", "region"} THEN r.arg
             ELSE IF r.kind = "rel" THEN v.x + r.arg ELSE v.x
    /\ w.pen = IF r.kind \in {"hover", "ink"} THEN r.seq ELSE v.pen
    /\ w.held = IF r.kind \in {"abs", "region", "rel", "hover", "ink"} THEN v.held
                ELSE IF r.kind = "reset" THEN v.held \ KeyCodes
                ELSE IF r.down THEN v.held \cup {r.arg} ELSE v.held \ {r.arg}

\* Effect on the Deck, field by field.
LEMMA EffectFields ==
  ASSUME NEW d \in DeckStates, NEW r \in Recs
  PROVE  Effect(d, r) \in DeckStates /\ Goes(d, r, Effect(d, r))
<1>1. /\ r.kind \in {"abs", "region", "rel"} => r.arg \in Int
      /\ r.arg \in Args /\ r.seq \in Nat
  BY DEF Recs
<1>2. d.x \in Int /\ d.pen \in Nat /\ d.held \in SUBSET Args
  BY DEF DeckStates
<1>3. CASE r.kind \in {"abs", "region"}
  BY <1>1, <1>2, <1>3 DEF Effect, DeckStates, Goes
<1>4. CASE r.kind = "rel"
  <2>1. Effect(d, r) = [d EXCEPT !.x = d.x + r.arg]
    BY <1>4 DEF Effect
  <2>2. d.x + r.arg \in Int
    BY <1>1, <1>2, <1>4
  <2> QED
    BY <1>2, <1>4, <2>1, <2>2 DEF DeckStates, Goes
<1>5. CASE r.kind \in {"hover", "ink"}
  BY <1>1, <1>2, <1>5 DEF Effect, DeckStates, Goes
<1>6. CASE r.kind = "reset"
  BY <1>1, <1>2, <1>6 DEF Effect, DeckStates, Goes
<1>7. CASE r.kind \notin {"abs", "region", "rel", "hover", "ink", "reset"}
  <2>1. Effect(d, r) = [d EXCEPT !.held = IF r.down THEN d.held \cup {r.arg} ELSE d.held \ {r.arg}]
    BY <1>7 DEF Effect
  <2>2. (IF r.down THEN d.held \cup {r.arg} ELSE d.held \ {r.arg}) \in SUBSET Args
    BY <1>1, <1>2
  <2> QED
    BY <1>2, <1>7, <2>1, <2>2 DEF DeckStates, Goes
<1> QED
  BY <1>3, <1>4, <1>5, <1>6, <1>7

\* Two states of the Deck are the same when their fields are.
LEMMA SameState ==
  ASSUME NEW d \in DeckStates, NEW e \in DeckStates, d.x = e.x, d.pen = e.pen, d.held = e.held
  PROVE  d = e
  BY DEF DeckStates

\* The host with a record injected, and one that injected up to the n-th.
Injected(h, r, n) == [Effect(h, r) EXCEPT !.seq = n]
InjectedTo(h, n) == h \in HostStates /\ h.seq = n

\* The same on the host, which notes the sequence number of the record.
LEMMA EffectOnHost ==
  ASSUME NEW h \in HostStates, NEW r \in Recs, NEW n \in Nat,
         NEW g, g = Injected(h, r, n)
  PROVE  InjectedTo(g, n) /\ Goes(h, r, g)
<1>0. g = [Effect(h, r) EXCEPT !.seq = n]
  BY Zenon DEF Injected
<1>1. /\ r.kind \in {"abs", "region", "rel"} => r.arg \in Int
      /\ r.arg \in Args /\ r.seq \in Nat
  BY DEF Recs
<1>2. h.x \in Int /\ h.pen \in Nat /\ h.held \in SUBSET Args
  BY DEF HostStates
<1>3. CASE r.kind \in {"abs", "region"}
  <2>1. Effect(h, r) = [h EXCEPT !.x = r.arg]
    BY <1>3 DEF Effect
  <2> QED
    BY Zenon, <1>0, <1>1, <1>2, <1>3, <2>1 DEF HostStates, Goes, InjectedTo
<1>4. CASE r.kind = "rel"
  <2>1. Effect(h, r) = [h EXCEPT !.x = h.x + r.arg]
    BY <1>4 DEF Effect
  <2>2. h.x + r.arg \in Int
    BY <1>1, <1>2, <1>4
  <2> QED
    BY Zenon, <1>0, <1>2, <1>4, <2>1, <2>2 DEF HostStates, Goes, InjectedTo
<1>5. CASE r.kind \in {"hover", "ink"}
  <2>1. Effect(h, r) = [h EXCEPT !.pen = r.seq]
    BY <1>5 DEF Effect
  <2> QED
    BY Zenon, <1>0, <1>1, <1>2, <1>5, <2>1 DEF HostStates, Goes, InjectedTo
<1>6. CASE r.kind = "reset"
  <2>1. Effect(h, r) = [h EXCEPT !.held = h.held \ KeyCodes]
    BY <1>6 DEF Effect
  <2>2. h.held \ KeyCodes \in SUBSET Args
    BY <1>2
  <2> QED
    BY Zenon, <1>0, <1>1, <1>2, <1>6, <2>1, <2>2 DEF HostStates, Goes, InjectedTo
<1>7. CASE r.kind \notin {"abs", "region", "rel", "hover", "ink", "reset"}
  <2>1. Effect(h, r) = [h EXCEPT !.held = IF r.down THEN h.held \cup {r.arg} ELSE h.held \ {r.arg}]
    BY <1>7 DEF Effect
  <2>2. (IF r.down THEN h.held \cup {r.arg} ELSE h.held \ {r.arg}) \in SUBSET Args
    BY <1>1, <1>2
  <2> QED
    BY Zenon, <1>0, <1>2, <1>7, <2>1, <2>2 DEF HostStates, Goes, InjectedTo
<1> QED
  BY <1>3, <1>4, <1>5, <1>6, <1>7

\* What a record does to the pointer, the pen and the keys does not depend on
\* whose they are.
LEMMA HostFollows ==
  ASSUME NEW h \in HostStates, NEW d \in DeckStates, NEW r \in Recs, Has(h, d), NEW n \in Nat,
         NEW g, g = Injected(h, r, n)
  PROVE  Has(g, Effect(d, r))
<1>1. PICK e : e = Effect(d, r)
  BY Zenon
<1>2. Goes(h, r, g)
  BY Zenon, EffectOnHost
<1>3. Goes(d, r, e)
  BY Zenon, <1>1, EffectFields
<1>4. g.x = e.x /\ g.pen = e.pen /\ g.held = e.held
  BY <1>2, <1>3 DEF Has, Goes
<1> QED
  BY Zenon, <1>1, <1>4 DEF Has

\* The record that stands for the last one waiting and r.
Merged(tail, r) == IF Class(r) = "rel" THEN Sum(tail, r) ELSE r

\* What is coalesced leads to where the two records led, and is no edge.
LEMMA MergedLeads ==
  ASSUME NEW a \in Recs, NEW r \in Recs, TailTakes(a, r)
  PROVE  /\ Merged(a, r) \in Recs /\ Merged(a, r).seq = r.seq
         /\ Class(a) # "edge" /\ Class(r) # "edge" /\ Class(Merged(a, r)) # "edge"
         /\ \A d \in DeckStates : Effect(d, Merged(a, r)) = Effect(Effect(d, a), r)
<1>1. /\ a.kind \in {"abs", "region", "rel"} => a.arg \in Int
      /\ r.kind \in {"abs", "region", "rel"} => r.arg \in Int
  BY DEF Recs
<1>2. /\ Class(a) = Class(r)
      /\ Class(r) \in {"abs", "region", "rel", "hover"}
  BY DEF TailTakes
<1>3. a.kind = r.kind /\ r.kind = Class(r)
  BY <1>2 DEF Class
<1>4. CASE Class(r) = "rel"
  <2>1. Merged(a, r) = [r EXCEPT !.arg = a.arg + r.arg]
    BY <1>4 DEF Merged, Sum
  <2>2. a.arg + r.arg \in Int /\ a.arg + r.arg \in Args
    BY <1>1, <1>3, <1>4 DEF Args
  <2>3. /\ Merged(a, r) \in Recs /\ Merged(a, r).seq = r.seq
        /\ Merged(a, r).kind = "rel" /\ Merged(a, r).arg = a.arg + r.arg
    BY <1>3, <1>4, <2>1, <2>2 DEF Recs
  <2>4. Class(Merged(a, r)) = "rel"
    BY <2>3 DEF Class
  <2>5. ASSUME NEW d \in DeckStates
        PROVE  Effect(d, Merged(a, r)) = Effect(Effect(d, a), r)
    <3> DEFINE e == Effect(d, Merged(a, r))
               f == Effect(d, a)
               g == Effect(f, r)
    <3>1. e \in DeckStates /\ e.x = d.x + (a.arg + r.arg) /\ e.pen = d.pen /\ e.held = d.held
      BY Zenon, <2>3, EffectFields DEF Goes
    <3>2. f \in DeckStates /\ f.x = d.x + a.arg /\ f.pen = d.pen /\ f.held = d.held
      BY Zenon, <1>3, <1>4, EffectFields DEF Goes
    <3> HIDE DEF e, f
    <3>3. g \in DeckStates /\ g.x = f.x + r.arg /\ g.pen = f.pen /\ g.held = f.held
      BY Zenon, <1>3, <1>4, <3>2, EffectFields DEF Goes
    <3> HIDE DEF g
    <3>4. e.x = g.x
      <4>1. d.x \in Int
        BY DEF DeckStates
      <4> QED
        BY <1>1, <1>3, <1>4, <3>1, <3>2, <3>3, <4>1
    <3> QED
      BY Zenon, <3>1, <3>2, <3>3, <3>4, SameState DEF e, f, g
  <2> QED
    BY <1>2, <1>4, <2>3, <2>4, <2>5
<1>5. CASE Class(r) # "rel"
  <2>1. Merged(a, r) = r
    BY Zenon, <1>5 DEF Merged
  <2>2. ASSUME NEW d \in DeckStates
        PROVE  Effect(d, r) = Effect(Effect(d, a), r)
    <3> DEFINE e == Effect(d, r)
               f == Effect(d, a)
               g == Effect(f, r)
    <3>1. /\ e \in DeckStates
          /\ r.kind \in {"abs", "region"} => e.x = r.arg /\ e.pen = d.pen /\ e.held = d.held
          /\ r.kind = "hover" => e.x = d.x /\ e.pen = r.seq /\ e.held = d.held
      BY Zenon, EffectFields DEF Goes
    <3>2. /\ f \in DeckStates
          /\ a.kind \in {"abs", "region"} => f.pen = d.pen /\ f.held = d.held
          /\ a.kind = "hover" => f.x = d.x /\ f.held = d.held
      BY Zenon, EffectFields DEF Goes
    <3> HIDE DEF e, f
    <3>3. /\ g \in DeckStates
          /\ r.kind \in {"abs", "region"} => g.x = r.arg /\ g.pen = f.pen /\ g.held = f.held
          /\ r.kind = "hover" => g.x = f.x /\ g.pen = r.seq /\ g.held = f.held
      BY Zenon, <3>2, EffectFields DEF Goes
    <3> HIDE DEF g
    <3>4. e.x = g.x /\ e.pen = g.pen /\ e.held = g.held
      BY <1>2, <1>3, <1>5, <3>1, <3>2, <3>3
    <3> QED
      BY Zenon, <3>1, <3>3, <3>4, SameState DEF e, f, g
  <2> QED
    BY <1>2, <1>5, <2>1, <2>2
<1> QED
  BY Zenon, <1>4, <1>5

\* Of two samples of ink the newer one says where the pen is.
LEMMA InkLeads ==
  ASSUME NEW a \in Recs, NEW r \in Recs, Class(a) = "ink", Class(r) = "ink", NEW d \in DeckStates
  PROVE  Effect(d, r) = Effect(Effect(d, a), r)
<1>1. a.kind = "ink" /\ r.kind = "ink"
  BY DEF Class
<1> DEFINE e == Effect(d, r)
           f == Effect(d, a)
           g == Effect(f, r)
<1>2. e \in DeckStates /\ e.x = d.x /\ e.pen = r.seq /\ e.held = d.held
  BY Zenon, <1>1, EffectFields DEF Goes
<1>3. f \in DeckStates /\ f.x = d.x /\ f.held = d.held
  BY Zenon, <1>1, EffectFields DEF Goes
<1> HIDE DEF e, f
<1>4. g \in DeckStates /\ g.x = f.x /\ g.pen = r.seq /\ g.held = f.held
  BY Zenon, <1>1, <1>3, EffectFields DEF Goes
<1> HIDE DEF g
<1>5. e.x = g.x /\ e.pen = g.pen /\ e.held = g.held
  BY Zenon, <1>2, <1>3, <1>4
<1> QED
  BY Zenon, <1>2, <1>4, <1>5, SameState DEF e, f, g

-----------------------------------------------------------------------------
(* Where the records lead. *)

\* A new record does not change what the Deck had before it.
LEMMA HadBefore ==
  ASSUME NEW w \in Seq(DeckStates), NEW d \in DeckStates
  PROVE  /\ Append(w, d) \in Seq(DeckStates) /\ Len(Append(w, d)) = Len(w) + 1
         /\ \A m \in 0 .. Len(w) : HadAfter(Append(w, d), m) = HadAfter(w, m)
         /\ HadAfter(Append(w, d), Len(w) + 1) = d
<1> DEFINE v == Append(w, d)
<1>1. /\ v \in Seq(DeckStates) /\ Len(v) = Len(w) + 1 /\ Len(w) \in Nat
      /\ \A i \in 1 .. Len(w) : v[i] = w[i]
      /\ v[Len(w) + 1] = d
  BY AppendProperties
<1> HIDE DEF v
<1>2. ASSUME NEW m \in 0 .. Len(w)
      PROVE  HadAfter(v, m) = HadAfter(w, m)
  <2>1. m = 0 \/ m \in 1 .. Len(w)
    BY <1>1
  <2> QED
    BY Zenon, <1>1, <2>1 DEF HadAfter
<1>3. HadAfter(v, Len(w) + 1) = d
  <2>1. Len(w) + 1 # 0
    BY <1>1
  <2> QED
    BY Zenon, <1>1, <2>1 DEF HadAfter
<1> QED
  BY Zenon, <1>1, <1>2, <1>3 DEF v

\* The Deck had something after each of its records.
LEMMA HadState ==
  ASSUME NEW w \in Seq(DeckStates), NEW m \in 0 .. Len(w)
  PROVE  HadAfter(w, m) \in DeckStates
<1>1. m = 0 \/ m \in 1 .. Len(w)
  OBVIOUS
<1>2. Blank \in DeckStates
  BY DEF Blank, DeckStates, Args
<1>3. \A i \in 1 .. Len(w) : w[i] \in DeckStates
  OBVIOUS
<1> QED
  BY Zenon, <1>1, <1>2, <1>3 DEF HadAfter

\* With a record z behind s, the records of s lead where they led, and z comes
\* after the last of them.
LEMMA BeforeNewest ==
  ASSUME NEW s \in Seq(Recs), NEW z \in Recs, NEW w \in Seq(DeckStates), NEW d \in DeckStates,
         Numbered(s, Len(w)), Leads(s, w)
  PROVE  /\ \A i \in 1 .. Len(s) : LeadsAt(Append(s, z), Append(w, d), i)
         /\ \A i \in 1 .. Len(s) : SeqBefore(Append(s, z), i) \in 0 .. Len(w)
         /\ SeqBefore(Append(s, z), Len(s) + 1) = LastSeq(s)
<1> DEFINE t == Append(s, z)
           v == Append(w, d)
<1>1. /\ t \in Seq(Recs) /\ Len(t) = Len(s) + 1 /\ Len(s) \in Nat
      /\ \A i \in 1 .. Len(s) : t[i] = s[i]
      /\ t[Len(s) + 1] = z
  BY AppendProperties
<1>2. /\ \A m \in 0 .. Len(w) : HadAfter(v, m) = HadAfter(w, m)
  BY Zenon, HadBefore
<1> HIDE DEF t, v
<1>3. DOMAIN s = 1 .. Len(s) /\ Len(w) \in Nat
  OBVIOUS
<1>4. ASSUME NEW i \in 1 .. Len(s)
      PROVE  SeqBefore(t, i) = SeqBefore(s, i) /\ SeqBefore(s, i) \in 0 .. Len(w)
  <2>1. CASE i = 1
    <3>1. 0 \in 0 .. Len(w)
      BY <1>3
    <3> QED
      BY Zenon, <2>1, <3>1 DEF SeqBefore
  <2>2. CASE i # 1
    <3>1. i - 1 \in 1 .. Len(s)
      BY <1>1, <2>2
    <3>2. t[i - 1] = s[i - 1] /\ s[i - 1].seq \in 1 .. Len(w)
      BY Zenon, <1>1, <1>3, <3>1 DEF Numbered
    <3>3. s[i - 1].seq \in 0 .. Len(w)
      BY <1>3, <3>2
    <3> QED
      BY Zenon, <2>2, <3>2, <3>3 DEF SeqBefore
  <2> QED
    BY Zenon, <2>1, <2>2
<1>5. ASSUME NEW i \in 1 .. Len(s)
      PROVE  LeadsAt(t, v, i)
  <2>1. t[i] = s[i] /\ s[i].seq \in 1 .. Len(w)
    BY Zenon, <1>1, <1>3 DEF Numbered
  <2>2. s[i].seq \in 0 .. Len(w)
    BY <1>3, <2>1
  <2>3. LeadsAt(s, w, i)
    BY Zenon, <1>3 DEF Leads
  <2> QED
    BY Zenon, <1>2, <1>4, <2>1, <2>2, <2>3 DEF LeadsAt
<1>6. SeqBefore(t, Len(s) + 1) = LastSeq(s)
  <2>1. CASE s = <<>>
    <3>1. Len(s) + 1 = 1
      BY <2>1
    <3> QED
      BY Zenon, <2>1, <3>1 DEF SeqBefore, LastSeq
  <2>2. CASE s # <<>>
    <3>1. Len(s) + 1 # 1 /\ (Len(s) + 1) - 1 = Len(s) /\ Len(s) \in 1 .. Len(s)
      BY <2>2
    <3>2. t[(Len(s) + 1) - 1] = s[Len(s)]
      BY Zenon, <1>1, <3>1
    <3> QED
      BY Zenon, <2>2, <3>1, <3>2 DEF SeqBefore, LastSeq
  <2> QED
    BY Zenon, <2>1, <2>2
<1> QED
  BY Zenon, <1>4, <1>5, <1>6 DEF t, v

\* Without its k-th record a line leads where it led, if the one behind it does.
LEMMA DropLeads ==
  ASSUME NEW t \in Seq(Recs), NEW u \in Seq(Recs), NEW k \in 1 .. Len(t) - 1, DropAt(t, k, u),
         NEW w, \A i \in 1 .. Len(t) : i # k /\ i # k + 1 => LeadsAt(t, w, i),
         HadAfter(w, t[k + 1].seq) = Effect(HadAfter(w, SeqBefore(t, k)), t[k + 1])
  PROVE  Leads(u, w) /\ LastSeq(u) = t[Len(t)].seq
<1>1. /\ Len(t) \in Nat /\ Len(u) = Len(t) - 1 /\ k \in Nat /\ k >= 1 /\ k <= Len(t) - 1
      /\ DOMAIN u = 1 .. Len(t) - 1
  BY DEF DropAt
<1>2. \A i \in DOMAIN u : u[i] = IF i < k THEN t[i] ELSE t[i + 1]
  BY Zenon, <1>1 DEF DropAt
<1>3. ASSUME NEW i \in DOMAIN u
      PROVE  LeadsAt(u, w, i)
  <2>0. i \in Nat /\ i >= 1 /\ i <= Len(t) - 1
    BY <1>1
  <2>1. CASE i < k
    <3>1. i \in 1 .. Len(t) /\ i # k /\ i # k + 1
      BY <1>1, <2>0, <2>1
    <3>2. SeqBefore(u, i) = SeqBefore(t, i)
      <4>1. CASE i = 1
        BY Zenon, <4>1 DEF SeqBefore
      <4>2. CASE i # 1
        <5>1. i - 1 \in DOMAIN u /\ i - 1 < k
          BY <1>1, <2>0, <2>1, <4>2
        <5> QED
          BY Zenon, <1>2, <4>2, <5>1 DEF SeqBefore
      <4> QED
        BY Zenon, <4>1, <4>2
    <3> QED
      BY Zenon, <1>2, <2>1, <3>1, <3>2 DEF LeadsAt
  <2>2. CASE i = k
    <3>1. u[i] = t[k + 1]
      <4>1. ~(i < k)
        BY <1>1, <2>2
      <4> QED
        BY Zenon, <1>2, <2>2, <4>1
    <3>2. SeqBefore(u, i) = SeqBefore(t, k)
      <4>1. CASE i = 1
        BY Zenon, <2>2, <4>1 DEF SeqBefore
      <4>2. CASE i # 1
        <5>1. i - 1 \in DOMAIN u /\ i - 1 < k
          BY <1>1, <2>0, <2>2, <4>2
        <5> QED
          BY Zenon, <1>2, <2>2, <4>2, <5>1 DEF SeqBefore
      <4> QED
        BY Zenon, <4>1, <4>2
    <3> QED
      BY Zenon, <3>1, <3>2 DEF LeadsAt
  <2>3. CASE k < i
    <3>1. /\ i + 1 \in 1 .. Len(t) /\ i + 1 # k /\ i + 1 # k + 1 /\ ~(i < k)
          /\ i - 1 \in DOMAIN u /\ ~(i - 1 < k) /\ (i - 1) + 1 = i /\ i # 1 /\ i + 1 # 1
          /\ (i + 1) - 1 = i
      BY <1>1, <2>0, <2>3
    <3>2. u[i] = t[i + 1] /\ u[i - 1] = t[i]
      BY Zenon, <1>2, <3>1
    <3>3. SeqBefore(u, i) = t[i].seq /\ SeqBefore(t, i + 1) = t[i].seq
      BY Zenon, <3>1, <3>2 DEF SeqBefore
    <3>4. LeadsAt(t, w, i + 1)
      BY Zenon, <3>1
    <3> QED
      BY Zenon, <3>2, <3>3, <3>4 DEF LeadsAt
  <2> QED
    BY <1>1, <2>0, <2>1, <2>2, <2>3
<1>4. LastSeq(u) = t[Len(t)].seq
  <2>1. /\ Len(u) \in DOMAIN u /\ ~(Len(u) < k) /\ Len(u) + 1 = Len(t) /\ u # <<>>
    BY <1>1
  <2>2. u[Len(u)] = t[Len(t)]
    BY Zenon, <1>2, <2>1
  <2> QED
    BY Zenon, <2>1, <2>2 DEF LastSeq
<1> QED
  BY Zenon, <1>3, <1>4 DEF Leads

-----------------------------------------------------------------------------
(* Push. *)

\* A set of numbers has a least one.
LEMMA LeastOf ==
  ASSUME NEW S, S \subseteq Nat, S # {}
  PROVE  Min(S) \in S /\ \A y \in S : Min(S) <= y
<1>1. \E i \in S : \A j \in S : ~(<<j, i>> \in OpToRel(<, Nat))
  BY NatLessThanWellFounded, WFMin, Zenon
<1>2. PICK i \in S : \A j \in S : ~(<<j, i>> \in OpToRel(<, Nat))
  BY Zenon, <1>1
<1>3. ASSUME NEW j \in S
      PROVE  i <= j
  <2>1. <<j, i>> \notin {ss \in Nat \X Nat : ss[1] < ss[2]}
    BY Zenon, <1>2 DEF OpToRel
  <2>2. i \in Nat /\ j \in Nat /\ <<j, i>> \in Nat \X Nat
    BY Zenon
  <2>3. ~(j < i)
    BY Zenon, <2>1, <2>2
  <2> QED
    BY <2>2, <2>3
<1>4. \E m \in S : \A y \in S : m <= y
  BY Zenon, <1>3
<1> QED
  BY Zenon, <1>4 DEF Min

\* The last record waiting is replaced: the line is what it would be with the new
\* record behind it, without the one replaced.
LEMMA ReplaceDrops ==
  ASSUME NEW p \in Seq(Recs), NEW s \in Seq(Recs), NEW z \in Recs, s # <<>>
  PROVE  /\ Append(ButNewest(s), z) \in Seq(Recs)
         /\ Len(p \o s) \in 1 .. Len(p \o s) /\ (p \o s)[Len(p \o s)] = Newest(s)
         /\ DropAt(Append(p \o s, z), Len(p \o s), p \o Append(ButNewest(s), z))
<1> DEFINE f == SubSeq(s, 1, Len(s) - 1)
           t == p \o s
           g == p \o f
           u == Append(g, z)
           v == Append(t, z)
<1>1. /\ Len(s) \in Nat /\ Len(s) >= 1 /\ Len(p) \in Nat
  OBVIOUS
<1>2. f \in Seq(Recs) /\ Len(f) = Len(s) - 1 /\ \A i \in 1 .. Len(s) - 1 : f[i] = s[i]
  <2>1. PICK n \in Int : n = Len(s) - 1 /\ n >= 0
    BY <1>1
  <2>2. \A i \in 1 .. n : s[i] \in Recs
    BY <1>1, <2>1
  <2>3. /\ SubSeq(s, 1, n) \in Seq(Recs)
        /\ Len(SubSeq(s, 1, n)) = n
        /\ \A i \in 1 .. n : SubSeq(s, 1, n)[i] = s[i]
    BY <2>1, <2>2, SubSeqProperties
  <2> QED
    BY Zenon, <2>1, <2>3
<1> HIDE DEF f
<1>3. /\ t \in Seq(Recs) /\ Len(t) = Len(p) + Len(s)
      /\ \A i \in 1 .. Len(p) + Len(s) : t[i] = IF i <= Len(p) THEN p[i] ELSE s[i - Len(p)]
  BY Zenon, ConcatProperties
<1>4. /\ g \in Seq(Recs) /\ Len(g) = Len(p) + Len(f)
      /\ \A i \in 1 .. Len(p) + Len(f) : g[i] = IF i <= Len(p) THEN p[i] ELSE f[i - Len(p)]
  BY Zenon, <1>2, ConcatProperties
<1> HIDE DEF t, g
<1>5. /\ u \in Seq(Recs) /\ Len(u) = Len(g) + 1
      /\ \A i \in 1 .. Len(g) : u[i] = g[i]
      /\ u[Len(g) + 1] = z
  BY <1>4, AppendProperties
<1>6. /\ v \in Seq(Recs) /\ Len(v) = Len(t) + 1
      /\ \A i \in 1 .. Len(t) : v[i] = t[i]
      /\ v[Len(t) + 1] = z
  BY <1>3, AppendProperties
<1> HIDE DEF u, v
<1>7. /\ Len(g) \in Nat /\ Len(t) = Len(g) + 1 /\ Len(u) = Len(t) /\ Len(u) = Len(v) - 1
  BY <1>1, <1>2, <1>3, <1>4, <1>5, <1>6
<1>8. ASSUME NEW i \in 1 .. Len(g)
      PROVE  g[i] = t[i]
  <2>1. /\ i \in 1 .. Len(p) + Len(f) /\ i \in 1 .. Len(p) + Len(s)
        /\ ~(i <= Len(p)) => i - Len(p) \in 1 .. Len(s) - 1
    BY <1>1, <1>2, <1>4
  <2> QED
    BY Zenon, <1>2, <1>3, <1>4, <2>1
<1>9. ASSUME NEW i \in 1 .. Len(u)
      PROVE  u[i] = IF i < Len(t) THEN v[i] ELSE v[i + 1]
  <2>1. CASE i = Len(t)
    <3>1. u[i] = z
      BY Zenon, <1>5, <1>7, <2>1
    <3>2. v[i + 1] = z /\ ~(i < Len(t))
      BY <1>6, <1>7, <2>1
    <3> QED
      BY Zenon, <3>1, <3>2
  <2>2. CASE i # Len(t)
    <3>1. i \in 1 .. Len(g) /\ i \in 1 .. Len(t) /\ i < Len(t)
      BY <1>7, <2>2
    <3> QED
      BY Zenon, <1>5, <1>6, <1>8, <3>1
  <2> QED
    BY Zenon, <2>1, <2>2
<1>10. DropAt(v, Len(t), u)
  BY Zenon, <1>7, <1>9 DEF DropAt
<1>11. t[Len(t)] = s[Len(s)] /\ Len(t) \in 1 .. Len(t)
  <2>1. /\ Len(t) \in 1 .. Len(p) + Len(s) /\ ~(Len(t) <= Len(p)) /\ Len(t) - Len(p) = Len(s)
        /\ Len(t) \in 1 .. Len(t)
    BY <1>1, <1>3
  <2> QED
    BY Zenon, <1>3, <2>1
<1>12. p \o Append(f, z) = Append(p \o f, z) /\ Append(f, z) \in Seq(Recs)
  BY Zenon, <1>2, AppendBehind
<1>13. ButNewest(s) = f /\ Newest(s) = s[Len(s)]
  BY Zenon DEF f, ButNewest, Newest
<1> QED
  BY Zenon, <1>10, <1>11, <1>12, <1>13 DEF t, g, u, v

\* What a new record does to the line: it goes behind it, replaces the last one
\* waiting, or goes behind it and an older sample of ink goes.
PushedBehind(t, r, u) == u = Append(t, r)
PushedOver(t, r, u) ==
    /\ t # <<>> /\ Len(t) \in 1 .. Len(t)
    /\ TailTakes(t[Len(t)], r)
    /\ DropAt(Append(t, Merged(t[Len(t)], r)), Len(t), u)
PushedFolding(t, r, u) ==
    \E k \in 1 .. Len(t) :
        /\ Class(Append(t, r)[k]) = "ink" /\ Class(Append(t, r)[k + 1]) = "ink"
        /\ DropAt(Append(t, r), k, u)

\* Push does one of the three.
LEMMA PushDoes ==
  ASSUME NEW p \in Seq(Recs), NEW s \in Seq(Recs), NEW r \in Recs
  PROVE  /\ Push(s, r) \in Seq(Recs)
         /\ \/ PushedBehind(p \o s, r, p \o Push(s, r))
            \/ PushedOver(p \o s, r, p \o Push(s, r))
            \/ PushedFolding(p \o s, r, p \o Push(s, r))
<1>1. CASE s # <<>> /\ TailTakes(Newest(s), r)
  <2>1. Newest(s) \in Recs
    <3>1. Len(s) \in 1 .. Len(s)
      BY <1>1
    <3> QED
      BY <3>1 DEF Newest
  <2>2. Merged(Newest(s), r) \in Recs
    BY Zenon, <1>1, <2>1, MergedLeads
  <2>3. Push(s, r) = Append(ButNewest(s), Merged(Newest(s), r))
    BY Zenon, <1>1 DEF Push, Merged
  <2>4. PICK z \in Recs : z = Merged(Newest(s), r)
    BY Zenon, <2>2
  <2>5. /\ Append(ButNewest(s), z) \in Seq(Recs)
        /\ Len(p \o s) \in 1 .. Len(p \o s) /\ (p \o s)[Len(p \o s)] = Newest(s)
        /\ DropAt(Append(p \o s, z), Len(p \o s), p \o Append(ButNewest(s), z))
    BY Zenon, <1>1, ReplaceDrops
  <2>6. p \o s # <<>>
    <3>1. Len(<<>>) \notin 1 .. Len(<<>>)
      OBVIOUS
    <3> QED
      BY Zenon, <2>5, <3>1
  <2> QED
    BY Zenon, <1>1, <2>3, <2>4, <2>5, <2>6 DEF PushedOver
<1>2. CASE ~(s # <<>> /\ TailTakes(Newest(s), r))
  <2> DEFINE t == Append(s, r)
  <2>1. t \in Seq(Recs) /\ p \o t = Append(p \o s, r)
    BY Zenon, AppendBehind
  <2>2. Push(s, r) = IF Class(r) = "ink" /\ InkWaiting(t) > Cap THEN FoldOldestPair(t) ELSE t
    BY Zenon, <1>2 DEF Push
  <2>3. Push(s, r) = t \/ (Pairs(t) # {} /\ Push(s, r) = Without(t, Min(Pairs(t)) - 1))
    BY Zenon, <2>2 DEF FoldOldestPair
  <2>4. CASE Push(s, r) = t
    BY Zenon, <2>1, <2>4 DEF PushedBehind
  <2>5. CASE Pairs(t) # {} /\ Push(s, r) = Without(t, Min(Pairs(t)) - 1)
    <3>0. Len(t) = Len(s) + 1 /\ Len(s) \in Nat /\ Len(p) \in Nat /\ Len(p \o s) = Len(p) + Len(s)
      OBVIOUS
    <3> HIDE DEF t
    <3>1. Pairs(t) \subseteq Nat
      BY DEF Pairs
    <3>2. PICK m \in Pairs(t) : m = Min(Pairs(t))
      BY Zenon, <2>5, <3>1, LeastOf
    <3>3. /\ m \in 2 .. Len(t) /\ Class(t[m - 1]) = "ink" /\ Class(t[m]) = "ink"
      BY Zenon DEF Pairs
    <3>4. PICK j \in 1 .. Len(t) : j = m - 1
      BY <2>1, <3>3
    <3>5. Without(t, j) \in Seq(Recs) /\ DropAt(p \o t, Len(p) + j, p \o Without(t, j))
      BY Zenon, <2>1, RemoveDrops
    <3>6. \A i \in 1 .. Len(p) + Len(t) : (p \o t)[i] = IF i <= Len(p) THEN p[i] ELSE t[i - Len(p)]
      BY Zenon, <2>1, ConcatProperties
    <3>7. PICK k \in 1 .. Len(p \o s) : k = Len(p) + j
      <4>1. Len(p) + j \in 1 .. Len(p) + Len(s)
        BY <3>0, <3>3, <3>4
      <4> QED
        BY Zenon, <3>0, <4>1
    <3>8. (p \o t)[k] = t[m - 1] /\ (p \o t)[k + 1] = t[m]
      <4>1. /\ k \in 1 .. Len(p) + Len(t) /\ ~(k <= Len(p)) /\ k - Len(p) = m - 1
            /\ k + 1 \in 1 .. Len(p) + Len(t) /\ ~(k + 1 <= Len(p)) /\ (k + 1) - Len(p) = m
        BY <3>0, <3>3, <3>4, <3>7
      <4> QED
        BY Zenon, <3>6, <4>1
    <3>9. Push(s, r) = Without(t, j)
      BY Zenon, <2>5, <3>2, <3>4
    <3>10. PushedFolding(p \o s, r, p \o Push(s, r))
      BY Zenon, <2>1, <3>3, <3>5, <3>7, <3>8, <3>9 DEF PushedFolding
    <3> QED
      BY Zenon, <3>5, <3>9, <3>10
  <2> QED
    BY Zenon, <2>1, <2>3, <2>4, <2>5
<1> QED
  BY Zenon, <1>1, <1>2

\* The edges of a line with one more record behind it.
LEMMA EdgesOfAppend ==
  ASSUME NEW s \in Seq(Recs), NEW z \in Recs
  PROVE  Edges(Append(s, z)) = IF Class(z) = "edge" THEN Edges(s) \cup {z} ELSE Edges(s)
<1> DEFINE t == Append(s, z)
<1>1. /\ DOMAIN t = 1 .. Len(s) + 1 /\ Len(s) \in Nat /\ DOMAIN s = 1 .. Len(s)
      /\ \A i \in 1 .. Len(s) : t[i] = s[i]
      /\ t[Len(s) + 1] = z
  BY AppendProperties
<1> HIDE DEF t
<1>2. /\ \A i \in DOMAIN t : i \in DOMAIN s \/ i = Len(s) + 1
      /\ \A i \in DOMAIN s : i \in DOMAIN t
      /\ Len(s) + 1 \in DOMAIN t
  BY <1>1
<1>3. ASSUME NEW e
      PROVE  e \in Range(t) <=> e \in Range(s) \/ e = z
  <2>1. ASSUME NEW i \in DOMAIN t, e = t[i]
        PROVE  e \in Range(s) \/ e = z
    BY Zenon, <1>1, <1>2, <2>1 DEF Range
  <2>2. ASSUME NEW i \in DOMAIN s, e = s[i]
        PROVE  e \in Range(t)
    BY Zenon, <1>1, <1>2, <2>2 DEF Range
  <2>3. z \in Range(t)
    BY Zenon, <1>1, <1>2 DEF Range
  <2>4. /\ e \in Range(t) <=> \E i \in DOMAIN t : e = t[i]
        /\ e \in Range(s) <=> \E i \in DOMAIN s : e = s[i]
    BY Zenon DEF Range
  <2> QED
    BY Zenon, <2>1, <2>2, <2>3, <2>4
<1> QED
  BY Zenon, <1>3 DEF Edges, t

\* A push keeps the order, and every edge.
LEMMA PushKeeps ==
  ASSUME NEW t \in Seq(Recs), NEW u \in Seq(Recs), NEW n \in Nat, NEW r \in Recs, r.seq = n + 1,
         InOrder(t), Numbered(t, n),
         PushedBehind(t, r, u) \/ PushedOver(t, r, u) \/ PushedFolding(t, r, u)
  PROVE  InOrder(u) /\ Numbered(u, n + 1) /\ Edges(u) = Edges(Append(t, r))
<1>1. n + 1 \in Nat
  OBVIOUS
<1>2. CASE PushedBehind(t, r, u)
  BY Zenon, <1>2, NewestIsLast DEF PushedBehind
<1>3. CASE PushedOver(t, r, u)
  <2>1. PICK a \in Recs : a = t[Len(t)]
    BY <1>3 DEF PushedOver
  <2>2. TailTakes(a, r)
    BY Zenon, <1>3, <2>1 DEF PushedOver
  <2>3. PICK z \in Recs : z = Merged(a, r)
    BY Zenon, <2>2, MergedLeads
  <2>4. z.seq = n + 1 /\ Class(a) # "edge" /\ Class(r) # "edge" /\ Class(z) # "edge"
    BY Zenon, <2>2, <2>3, MergedLeads
  <2>5. /\ Append(t, z) \in Seq(Recs) /\ Len(Append(t, z)) = Len(t) + 1
        /\ \A i \in 1 .. Len(t) : Append(t, z)[i] = t[i]
        /\ InOrder(Append(t, z)) /\ Numbered(Append(t, z), n + 1)
    BY Zenon, <2>4, NewestIsLast
  <2>6. PICK y \in Seq(Recs) : y = Append(t, z)
    BY Zenon, <2>5
  <2>7. DropAt(y, Len(t), u) /\ Len(t) \in 1 .. Len(t)
    BY Zenon, <1>3, <2>1, <2>3, <2>6 DEF PushedOver
  <2>8. PICK k \in 1 .. Len(y) : k = Len(t)
    <3>1. Len(t) \in 1 .. Len(t) + 1
      BY <2>7
    <3> QED
      BY Zenon, <2>5, <2>6, <3>1
  <2>9. Class(y[k]) # "edge"
    BY Zenon, <2>1, <2>4, <2>5, <2>6, <2>7, <2>8
  <2>10. InOrder(u) /\ Numbered(u, n + 1) /\ Edges(u) = Edges(y)
    BY Zenon, <1>1, <2>5, <2>6, <2>7, <2>8, <2>9, DropKeepsOrder
  <2>11. Edges(y) = Edges(t) /\ Edges(Append(t, r)) = Edges(t)
    BY Zenon, <2>4, <2>6, EdgesOfAppend
  <2> QED
    BY Zenon, <2>10, <2>11
<1>4. CASE PushedFolding(t, r, u)
  <2>1. /\ Append(t, r) \in Seq(Recs) /\ Len(Append(t, r)) = Len(t) + 1
        /\ InOrder(Append(t, r)) /\ Numbered(Append(t, r), n + 1)
    BY Zenon, NewestIsLast
  <2>2. PICK y \in Seq(Recs) : y = Append(t, r)
    BY Zenon, <2>1
  <2>3. PICK j \in 1 .. Len(t) : Class(y[j]) = "ink" /\ DropAt(y, j, u)
    BY Zenon, <1>4, <2>2 DEF PushedFolding
  <2>4. PICK k \in 1 .. Len(y) : k = j
    <3>1. j \in 1 .. Len(t) + 1
      OBVIOUS
    <3> QED
      BY Zenon, <2>1, <2>2, <3>1
  <2>5. Class(y[k]) # "edge"
    BY <2>3, <2>4
  <2> QED
    BY Zenon, <1>1, <2>1, <2>2, <2>3, <2>4, <2>5, DropKeepsOrder
<1> QED
  BY Zenon, <1>2, <1>3, <1>4

\* y is t with z behind it, which leads where t leads, up to z.
Behind(t, z, y, v, n) ==
    /\ y \in Seq(Recs) /\ Len(y) = Len(t) + 1 /\ y[Len(t) + 1] = z
    /\ \A i \in 1 .. Len(t) : y[i] = t[i] /\ LeadsAt(y, v, i)
    /\ \A i \in 1 .. Len(t) : HadAfter(v, SeqBefore(y, i)) \in DeckStates
    /\ SeqBefore(y, Len(t) + 1) = n

\* A push leads where the new record leads.
LEMMA PushLeads ==
  ASSUME NEW t \in Seq(Recs), NEW u \in Seq(Recs), NEW w \in Seq(DeckStates),
         NEW r \in Recs, r.seq = Len(w) + 1,
         Numbered(t, Len(w)), Leads(t, w), LastSeq(t) = Len(w),
         PushedBehind(t, r, u) \/ PushedOver(t, r, u) \/ PushedFolding(t, r, u),
         NEW d, d = Effect(HadAfter(w, Len(w)), r)
  PROVE  Leads(u, Append(w, d)) /\ LastSeq(u) = Len(w) + 1
<1>1. Len(w) \in Nat /\ Len(w) \in 0 .. Len(w) /\ Len(t) \in Nat
  OBVIOUS
<1>2. HadAfter(w, Len(w)) \in DeckStates
  BY Zenon, <1>1, HadState
<1>3. d \in DeckStates
  BY Zenon, <1>2, EffectFields
<1>4. PICK v \in Seq(DeckStates) : v = Append(w, d)
  BY Zenon, <1>3, HadBefore
<1>5. /\ Len(v) = Len(w) + 1
      /\ HadAfter(v, Len(w)) = HadAfter(w, Len(w))
      /\ HadAfter(v, Len(w) + 1) = d
  BY Zenon, <1>1, <1>3, <1>4, HadBefore
<1>6. ASSUME NEW z \in Recs, z.seq = Len(w) + 1, NEW y, y = Append(t, z)
      PROVE  Behind(t, z, y, v, Len(w))
  <2>1. /\ y \in Seq(Recs) /\ Len(y) = Len(t) + 1 /\ y[Len(t) + 1] = z
        /\ \A i \in 1 .. Len(t) : y[i] = t[i]
    BY <1>6, AppendProperties
  <2>2. /\ \A i \in 1 .. Len(t) : LeadsAt(y, v, i)
        /\ \A i \in 1 .. Len(t) : SeqBefore(y, i) \in 0 .. Len(w)
        /\ SeqBefore(y, Len(t) + 1) = Len(w)
    BY Zenon, <1>3, <1>4, <1>6, BeforeNewest
  <2>3. ASSUME NEW i \in 1 .. Len(t)
        PROVE  HadAfter(v, SeqBefore(y, i)) \in DeckStates
    <3>1. PICK m \in 0 .. Len(v) : m = SeqBefore(y, i)
      <4>1. 0 .. Len(w) \subseteq 0 .. Len(v)
        BY <1>1, <1>5
      <4> QED
        BY Zenon, <2>2, <4>1
    <3> QED
      BY Zenon, <3>1, HadState
  <2> QED
    BY Zenon, <2>1, <2>2, <2>3 DEF Behind
<1>7. PICK y : y = Append(t, r)
  BY Zenon
<1>8. /\ y \in Seq(Recs) /\ Len(y) = Len(t) + 1 /\ y[Len(t) + 1] = r
      /\ \A i \in 1 .. Len(t) : y[i] = t[i] /\ LeadsAt(y, v, i)
      /\ \A i \in 1 .. Len(t) : HadAfter(v, SeqBefore(y, i)) \in DeckStates
      /\ SeqBefore(y, Len(t) + 1) = Len(w)
  BY Zenon, <1>6, <1>7 DEF Behind
<1>9. LeadsAt(y, v, Len(t) + 1)
  BY Zenon, <1>5, <1>8 DEF LeadsAt
<1>10. Leads(y, v)
  <2>1. \A i \in DOMAIN y : i \in 1 .. Len(t) \/ i = Len(t) + 1
    BY <1>1, <1>8
  <2> QED
    BY Zenon, <1>8, <1>9, <2>1 DEF Leads
<1>11. CASE PushedBehind(t, r, u)
  <2>1. u = y
    BY Zenon, <1>7, <1>11 DEF PushedBehind
  <2>2. y # <<>> 
    BY <1>1, <1>8
  <2>3. LastSeq(y) = Len(w) + 1
    BY Zenon, <1>8, <2>2 DEF LastSeq
  <2> QED
    BY Zenon, <1>4, <1>10, <2>1, <2>3
<1>12. CASE PushedOver(t, r, u)
  <2>1. PICK a \in Recs : a = t[Len(t)]
    BY <1>12 DEF PushedOver
  <2>2. TailTakes(a, r)
    BY Zenon, <1>12, <2>1 DEF PushedOver
  <2>3. PICK z \in Recs : z = Merged(a, r)
    BY Zenon, <2>2, MergedLeads
  <2>4. z.seq = Len(w) + 1
    BY Zenon, <2>2, <2>3, MergedLeads
  <2>5. PICK x : x = Append(t, z)
    BY Zenon
  <2>6. /\ x \in Seq(Recs) /\ Len(x) = Len(t) + 1 /\ x[Len(t) + 1] = z
        /\ \A i \in 1 .. Len(t) : x[i] = t[i] /\ LeadsAt(x, v, i)
        /\ \A i \in 1 .. Len(t) : HadAfter(v, SeqBefore(x, i)) \in DeckStates
    <3>1. Behind(t, z, x, v, Len(w))
      BY Zenon, <1>6, <2>4, <2>5
    <3> QED
      BY Zenon, <3>1 DEF Behind
  <2>7. DropAt(x, Len(t), u) /\ Len(t) \in 1 .. Len(t) /\ t # <<>>
    BY Zenon, <1>12, <2>1, <2>3, <2>5 DEF PushedOver
  <2>8. a.seq = Len(w)
    BY Zenon, <2>1, <2>7 DEF LastSeq
  <2>9. PICK e \in DeckStates : e = HadAfter(v, SeqBefore(x, Len(t)))
    BY Zenon, <2>6, <2>7
  <2>10. HadAfter(v, Len(w)) = Effect(e, a)
    <3>1. LeadsAt(x, v, Len(t)) /\ x[Len(t)] = a
      BY Zenon, <2>1, <2>6, <2>7
    <3> QED
      BY Zenon, <2>8, <2>9, <3>1 DEF LeadsAt
  <2>11. d = Effect(e, z)
    <3>1. Effect(e, z) = Effect(Effect(e, a), r)
      BY Zenon, <2>2, <2>3, MergedLeads
    <3> QED
      BY Zenon, <1>5, <2>10, <3>1
  <2>12. PICK k \in 1 .. Len(x) - 1 : k = Len(t) /\ k + 1 = Len(x)
    BY <1>1, <2>6, <2>7
  <2>13. \A i \in 1 .. Len(x) : i # k /\ i # k + 1 => LeadsAt(x, v, i)
    <3>1. \A i \in 1 .. Len(x) : i # k /\ i # k + 1 => i \in 1 .. Len(t)
      BY <1>1, <2>6, <2>12
    <3> QED
      BY Zenon, <2>6, <3>1
  <2>14. x[k + 1] = z /\ x[Len(x)] = z
    BY Zenon, <2>6, <2>12
  <2>15. HadAfter(v, x[k + 1].seq) = Effect(HadAfter(v, SeqBefore(x, k)), x[k + 1])
    BY Zenon, <1>5, <2>4, <2>9, <2>11, <2>12, <2>14
  <2>16. Leads(u, v) /\ LastSeq(u) = x[Len(x)].seq
    BY Zenon, <2>6, <2>7, <2>12, <2>13, <2>15, DropLeads
  <2> QED
    BY Zenon, <1>4, <2>4, <2>14, <2>16
<1>13. CASE PushedFolding(t, r, u)
  <2>1. PICK j \in 1 .. Len(t) : Class(y[j]) = "ink" /\ Class(y[j + 1]) = "ink" /\ DropAt(y, j, u)
    BY Zenon, <1>7, <1>13 DEF PushedFolding
  <2>2. PICK k \in 1 .. Len(y) - 1 : k = j
    BY SMTT(60), SMTT(90), <1>1, <1>8
  <2>3. /\ k \in DOMAIN y /\ k + 1 \in DOMAIN y /\ k + 1 # 1 /\ (k + 1) - 1 = k
        /\ k \in 1 .. Len(t) /\ \A i \in 1 .. Len(y) : i \in DOMAIN y
    BY SMTT(60), SMTT(90), <1>1, <1>8
  <2>4. PICK a \in Recs : a = y[k]
    BY SMTT(60), SMTT(90), <1>8, <2>3
  <2>5. PICK b \in Recs : b = y[k + 1]
    BY SMTT(60), SMTT(90), <1>8, <2>3
  <2>6. PICK e \in DeckStates : e = HadAfter(v, SeqBefore(y, k))
    BY Zenon, <1>8, <2>3
  <2>7. HadAfter(v, a.seq) = Effect(e, a)
    BY Zenon, <1>10, <2>3, <2>4, <2>6 DEF Leads, LeadsAt
  <2>8. HadAfter(v, b.seq) = Effect(HadAfter(v, a.seq), b)
    <3>1. SeqBefore(y, k + 1) = a.seq
      BY Zenon, <2>3, <2>4 DEF SeqBefore
    <3> QED
      BY Zenon, <1>10, <2>3, <2>5, <3>1 DEF Leads, LeadsAt
  <2>9. Effect(e, b) = Effect(Effect(e, a), b)
    BY Zenon, <2>1, <2>2, <2>4, <2>5, InkLeads
  <2>10. HadAfter(v, y[k + 1].seq) = Effect(HadAfter(v, SeqBefore(y, k)), y[k + 1])
    BY Zenon, <2>5, <2>6, <2>7, <2>8, <2>9
  <2>11. \A i \in 1 .. Len(y) : i # k /\ i # k + 1 => LeadsAt(y, v, i)
    BY Zenon, <1>10, <2>3 DEF Leads
  <2>12. Leads(u, v) /\ LastSeq(u) = y[Len(y)].seq
    BY Zenon, <1>8, <2>1, <2>2, <2>10, <2>11, DropLeads
  <2> QED
    BY Zenon, <1>4, <1>8, <2>12
<1> QED
  BY Zenon, <1>11, <1>12, <1>13

-----------------------------------------------------------------------------
(* The steps. *)

\* The Deck numbers what it produces.
LEMMA InputsAreRecs ==
  ASSUME log \in Seq(Recs), NEW r \in Inputs
  PROVE  r \in Recs /\ r.seq = Len(log) + 1
<1>1. Len(log) + 1 \in Nat
  OBVIOUS
<1>2. ASSUME NEW k \in Kinds, NEW a \in Args, NEW d \in BOOLEAN, NEW m \in BOOLEAN,
             k \in {"abs", "region", "rel"} => a \in Int
      PROVE  Rec(k, a, d, m) \in Recs /\ Rec(k, a, d, m).seq = Len(log) + 1
  BY <1>1, <1>2 DEF Rec, Recs
<1>3. \E k \in Kinds, a \in Args, d \in BOOLEAN, m \in BOOLEAN :
        r = Rec(k, a, d, m) /\ (k \in {"abs", "region", "rel"} => a \in Int)
  <2> DEFINE
        Motion == {Rec(k, 5, FALSE, TRUE) : k \in Kinds \cap {"abs", "region"}}
        Deltas == {Rec(i[1], 1, FALSE, i[2]) : i \in (Kinds \cap {"rel"}) \X BOOLEAN}
        Samples == {Rec(i[1], i[2], FALSE, i[3]) :
                      i \in (Kinds \cap {"hover", "ink"}) \X Strokes \X BOOLEAN}
        Presses == {Rec(i[1], i[2], i[2] \notin deck.held, FALSE) : i \in (Kinds \cap {"key"}) \X KeyCodes}
        Clicks == {Rec(i[1], i[2], i[2] \notin deck.held, FALSE) : i \in (Kinds \cap {"button"}) \X Buttons}
        Resets == {Rec(k, 0, FALSE, FALSE) : k \in Kinds \cap {"reset"}}
  <2>1. Inputs = UNION {Motion, Deltas, Samples, Presses, Clicks, Resets}
    BY Zenon DEF Inputs
  <2>2. /\ 5 \in Int /\ 1 \in Int /\ 0 \in Int /\ Int \subseteq Args /\ Strokes \subseteq Args
        /\ KeyCodes \subseteq Args /\ Buttons \subseteq Args
    BY DEF Args
  <2>3. \A b : (b \notin deck.held) \in BOOLEAN
    BY Zenon
  <2>4. CASE r \in Motion
    BY Zenon, <2>2, <2>4
  <2>5. CASE r \in Deltas
    <3>1. PICK i \in (Kinds \cap {"rel"}) \X BOOLEAN : r = Rec(i[1], 1, FALSE, i[2])
      BY Zenon, <2>5
    <3>2. i[1] \in Kinds /\ i[2] \in BOOLEAN
      OBVIOUS
    <3> QED
      BY Zenon, <2>2, <3>1, <3>2
  <2>6. CASE r \in Samples
    <3>1. PICK i \in (Kinds \cap {"hover", "ink"}) \X Strokes \X BOOLEAN : r = Rec(i[1], i[2], FALSE, i[3])
      BY Zenon, <2>6
    <3>2. i[1] \in Kinds /\ i[1] \notin {"abs", "region", "rel"} /\ i[2] \in Args /\ i[3] \in BOOLEAN
      BY <2>2
    <3> QED
      BY Zenon, <3>1, <3>2
  <2>7. CASE r \in Presses
    <3>1. PICK i \in (Kinds \cap {"key"}) \X KeyCodes : r = Rec(i[1], i[2], i[2] \notin deck.held, FALSE)
      BY Zenon, <2>7
    <3>2. i[1] \in Kinds /\ i[1] \notin {"abs", "region", "rel"} /\ i[2] \in Args
      BY <2>2
    <3> QED
      BY Zenon, <2>3, <3>1, <3>2
  <2>8. CASE r \in Clicks
    <3>1. PICK i \in (Kinds \cap {"button"}) \X Buttons : r = Rec(i[1], i[2], i[2] \notin deck.held, FALSE)
      BY Zenon, <2>8
    <3>2. i[1] \in Kinds /\ i[1] \notin {"abs", "region", "rel"} /\ i[2] \in Args
      BY <2>2
    <3> QED
      BY Zenon, <2>3, <3>1, <3>2
  <2>9. CASE r \in Resets
    BY Zenon, <2>2, <2>9
  <2> HIDE DEF Motion, Deltas, Samples, Presses, Clicks, Resets
  <2>10. \/ r \in Motion \/ r \in Deltas \/ r \in Samples
         \/ r \in Presses \/ r \in Clicks \/ r \in Resets
    BY Zenon, <2>1
  <2> QED
    BY Zenon, <2>4, <2>5, <2>6, <2>7, <2>8, <2>9, <2>10
<1> QED
  BY Zenon, <1>2, <1>3

\* The smaller of two numbers.
LEMMA LeastOfTwo ==
  ASSUME NEW a \in Nat, NEW b \in Nat
  PROVE  Min({a, b}) \in Nat /\ Min({a, b}) <= a /\ Min({a, b}) <= b
<1>1. {a, b} \subseteq Nat /\ {a, b} # {}
  OBVIOUS
<1> QED
  BY Zenon, <1>1, LeastOf

\* The lane takes what fits, of what there is.
LEMMA FlushFits ==
  ASSUME OutboxTypes, NEW s \in Seq(Recs)
  PROVE  /\ FlushCount(s, records) \in 0 .. Len(s)
         /\ Len(records) + FlushCount(s, records) <= LaneCap
         /\ lane # "open" => FlushCount(s, records) = 0
<1>1. Len(records) \in Nat /\ Len(s) \in Nat /\ LaneCap \in Nat /\ Len(records) <= LaneCap
  BY LaneAssumption DEF OutboxTypes
<1>2. PICK room \in Nat : room = LaneCap - Len(records)
  BY <1>1
<1>3. CASE lane = "open"
  <2>1. PICK m : m = Min({Len(s), room})
    BY Zenon
  <2>2. m \in Nat /\ m <= Len(s) /\ m <= room
    BY Zenon, <1>1, <2>1, LeastOfTwo
  <2>3. FlushCount(s, records) = m
    BY Zenon, <1>2, <1>3, <2>1 DEF FlushCount
  <2>4. m \in 0 .. Len(s) /\ Len(records) + m <= LaneCap
    BY <1>1, <1>2, <2>2
  <2> QED
    BY Zenon, <1>3, <2>3, <2>4
<1>4. CASE lane # "open"
  <2>1. FlushCount(s, records) = 0
    BY Zenon, <1>4 DEF FlushCount
  <2>2. 0 \in 0 .. Len(s) /\ Len(records) + 0 <= LaneCap
    BY <1>1
  <2> QED
    BY Zenon, <2>1, <2>2
<1> QED
  BY Zenon, <1>3, <1>4

\* A flush leaves the line as it would be with s waiting.
LEMMA FlushKeepsLine ==
  ASSUME OutboxTypes, NEW s \in Seq(Recs), Flush(s), applied' = applied
  PROVE  /\ Kept' = (applied \o records) \o s
         /\ records' \in Seq(Recs) /\ outbox' \in Seq(Recs) /\ Len(records') <= LaneCap
         /\ lane = "failed" => records' = <<>>
<1>1. applied \in Seq(Recs) /\ records \in Seq(Recs) /\ (lane = "failed" => records = <<>>)
  BY Zenon DEF OutboxTypes
<1>2. PICK n \in 0 .. Len(s) : n = FlushCount(s, records)
  BY Zenon, FlushFits
<1>3. Len(records) + n <= LaneCap /\ (lane # "open" => n = 0)
  BY Zenon, <1>2, FlushFits
<1>4. outbox' = SubSeq(s, n + 1, Len(s)) /\ records' = records \o SubSeq(s, 1, n)
  BY Zenon, <1>2 DEF Flush
<1>5. /\ SubSeq(s, n + 1, Len(s)) \in Seq(Recs)
      /\ records \o SubSeq(s, 1, n) \in Seq(Recs) /\ Len(records \o SubSeq(s, 1, n)) = Len(records) + n
      /\ (applied \o (records \o SubSeq(s, 1, n))) \o SubSeq(s, n + 1, Len(s)) = (applied \o records) \o s
  <2>1. MovesBorder(applied, records, s, n)
    BY Zenon, <1>1, FlushMovesBorder
  <2> QED
    BY Zenon, <2>1 DEF MovesBorder
<1>6. ASSUME lane = "failed"
      PROVE  records' = <<>>
  <2>1. n = 0 /\ records = <<>>
    BY <1>1, <1>3, <1>6
  <2>2. Len(records') = 0
    BY <1>4, <1>5, <2>1
  <2> QED
    BY <1>4, <1>5, <2>2
<1>7. Kept' = (applied' \o records') \o outbox'
  BY Zenon DEF Kept
<1> QED
  BY Zenon, <1>3, <1>4, <1>5, <1>6, <1>7

\* What the line is without the records of q, which take their numbers with them.
WithoutMiddle(p, q, s, n) ==
    /\ p \o s \in Seq(Recs) /\ InOrder(p \o s) /\ Numbered(p \o s, n)
    /\ {r.seq : r \in Range(q)} \subseteq 1 .. n
    /\ Edges(p \o s) = {e \in Edges((p \o q) \o s) : e.seq \notin {r.seq : r \in Range(q)}}

\* Records that are lost together leave the rest in order.
LEMMA MiddleGoes ==
  ASSUME NEW p \in Seq(Recs), NEW q \in Seq(Recs), NEW s \in Seq(Recs), NEW n \in Nat,
         InOrder((p \o q) \o s), Numbered((p \o q) \o s, n)
  PROVE  WithoutMiddle(p, q, s, n)
<1> DEFINE a == Len(p)
           b == Len(q)
           c == Len(s)
           pq == p \o q
           K == pq \o s
           M == p \o s
<1>0. a \in Nat /\ b \in Nat /\ c \in Nat
  OBVIOUS
<1>1. /\ pq \in Seq(Recs) /\ Len(pq) = a + b
      /\ \A i \in 1 .. a + b : pq[i] = IF i <= a THEN p[i] ELSE q[i - a]
  BY Zenon, ConcatProperties
<1> HIDE DEF pq
<1>2. /\ K \in Seq(Recs) /\ Len(K) = Len(pq) + c
      /\ \A i \in 1 .. Len(pq) + c : K[i] = IF i <= Len(pq) THEN pq[i] ELSE s[i - Len(pq)]
  <2>1. pq \in Seq(Recs)
    BY Zenon, <1>1
  <2> QED
    BY Zenon, <2>1, ConcatProperties
<1>3. /\ M \in Seq(Recs) /\ Len(M) = a + c
      /\ \A i \in 1 .. a + c : M[i] = IF i <= a THEN p[i] ELSE s[i - a]
  BY Zenon, ConcatProperties
<1>4. InOrder(K) /\ Numbered(K, n)
  BY Zenon DEF K, pq
<1> HIDE DEF K, M
<1>5. DOMAIN K = 1 .. (a + b) + c /\ DOMAIN M = 1 .. a + c /\ DOMAIN q = 1 .. b
  BY <1>0, <1>1, <1>2, <1>3
<1> HIDE DEF a, b, c
<1>6. ASSUME NEW i \in DOMAIN M
      PROVE  \E k \in DOMAIN K : M[i] = K[k] /\ k = IF i <= a THEN i ELSE i + b
  <2>0. i \in Nat /\ i >= 1 /\ i <= a + c
    BY <1>0, <1>5
  <2>1. CASE i <= a
    <3>1. i \in 1 .. a + b /\ i \in 1 .. Len(pq) + c /\ i <= Len(pq) /\ i \in DOMAIN K /\ i \in 1 .. a + c
      BY <1>0, <1>1, <1>5, <2>0, <2>1
    <3> QED
      BY Zenon, <1>1, <1>2, <1>3, <2>1, <3>1
  <2>2. CASE ~(i <= a)
    <3>1. PICK k \in DOMAIN K : k = i + b
      BY <1>0, <1>5, <2>0, <2>2
    <3>2. /\ k \in 1 .. Len(pq) + c /\ ~(k <= Len(pq)) /\ k - Len(pq) = i - a /\ i \in 1 .. a + c
      BY <1>0, <1>1, <1>5, <2>0, <2>2, <3>1
    <3>3. K[k] = s[i - a] /\ M[i] = s[i - a]
      BY Zenon, <1>2, <1>3, <2>2, <3>2
    <3> QED
      BY Zenon, <2>2, <3>1, <3>3
  <2> QED
    BY Zenon, <2>1, <2>2
<1>7. ASSUME NEW j \in DOMAIN q
      PROVE  \E k \in DOMAIN K : q[j] = K[k] /\ k = a + j /\ k > a /\ k <= a + b
  <2>1. PICK k \in DOMAIN K : k = a + j /\ k > a /\ k <= a + b
    BY <1>0, <1>5
  <2>2. /\ k \in 1 .. Len(pq) + c /\ k <= Len(pq) /\ k \in 1 .. a + b /\ ~(k <= a) /\ k - a = j
    BY SMTT(60), SMTT(90), <1>0, <1>1, <1>5, <2>1
  <2>3. K[k] = pq[k] /\ pq[k] = q[j]
    BY Zenon, <1>1, <1>2, <2>2
  <2> QED
    BY Zenon, <2>1, <2>3
<1>8. ASSUME NEW k \in DOMAIN K
      PROVE  \/ \E i \in DOMAIN M : K[k] = M[i]
             \/ \E j \in DOMAIN q : K[k] = q[j]
  <2>0. k \in Nat /\ k >= 1 /\ k <= (a + b) + c
    BY <1>0, <1>5
  <2>1. CASE k <= a
    <3>1. k \in DOMAIN M
      BY <1>0, <1>5, <2>0, <2>1
    <3> QED
      BY Zenon, <1>6, <2>1, <3>1
  <2>2. CASE k > a /\ k <= a + b
    <3>1. PICK j \in DOMAIN q : a + j = k
      <4>1. k - a \in DOMAIN q /\ a + (k - a) = k
        BY <1>0, <1>5, <2>0, <2>2
      <4> QED
        BY Zenon, <4>1
    <3> QED
      BY Zenon, <1>7, <3>1
  <2>3. CASE k > a + b
    <3>1. PICK i \in DOMAIN M : i + b = k /\ ~(i <= a)
      <4>1. k - b \in DOMAIN M /\ (k - b) + b = k /\ ~(k - b <= a)
        BY <1>0, <1>5, <2>0, <2>3
      <4> QED
        BY Zenon, <4>1
    <3> QED
      BY Zenon, <1>6, <3>1
  <2> QED
    BY <1>0, <2>0, <2>1, <2>2, <2>3
<1>9. InOrder(M)
  <2> SUFFICES ASSUME NEW i \in DOMAIN M, NEW j \in DOMAIN M, i < j
               PROVE  M[i].seq < M[j].seq
    BY Zenon DEF InOrder
  <2>1. PICK k \in DOMAIN K : M[i] = K[k] /\ k = IF i <= a THEN i ELSE i + b
    BY Zenon, <1>6
  <2>2. PICK l \in DOMAIN K : M[j] = K[l] /\ l = IF j <= a THEN j ELSE j + b
    BY Zenon, <1>6
  <2>3. k < l
    BY <1>0, <1>5, <2>1, <2>2
  <2> QED
    BY Zenon, <1>4, <2>1, <2>2, <2>3 DEF InOrder
<1>10. Numbered(M, n)
  <2> SUFFICES ASSUME NEW i \in DOMAIN M
               PROVE  M[i].seq \in 1 .. n
    BY Zenon DEF Numbered
  <2> QED
    BY Zenon, <1>4, <1>6 DEF Numbered
<1>11. ASSUME NEW j \in DOMAIN q
       PROVE  q[j].seq \in 1 .. n
  BY Zenon, <1>4, <1>7 DEF Numbered
<1>12. {r.seq : r \in Range(q)} \subseteq 1 .. n
  BY Zenon, <1>11 DEF Range
<1>13. ASSUME NEW i \in DOMAIN M, NEW j \in DOMAIN q
       PROVE  M[i].seq # q[j].seq
  <2>1. PICK k \in DOMAIN K : M[i] = K[k] /\ k = IF i <= a THEN i ELSE i + b
    BY Zenon, <1>6
  <2>2. PICK l \in DOMAIN K : q[j] = K[l] /\ l = a + j /\ l > a /\ l <= a + b
    BY Zenon, <1>7
  <2>3. k < l \/ l < k
    BY SMTT(60), SMTT(90), <1>0, <1>5, <2>1, <2>2
  <2>4. K[k].seq < K[l].seq \/ K[l].seq < K[k].seq
    BY Zenon, <1>4, <2>3 DEF InOrder
  <2>5. K[k].seq \in 1 .. n /\ K[l].seq \in 1 .. n
    BY Zenon, <1>4 DEF Numbered
  <2>6. K[k].seq # K[l].seq
    BY <2>4, <2>5
  <2> QED
    BY Zenon, <2>1, <2>2, <2>6
<1>14. ASSUME NEW e
       PROVE  e \in Edges(M) <=> e \in Edges(K) /\ e.seq \notin {r.seq : r \in Range(q)}
  <2>1. /\ e \in Range(M) <=> \E i \in DOMAIN M : e = M[i]
        /\ e \in Range(K) <=> \E i \in DOMAIN K : e = K[i]
    BY Zenon DEF Range
  <2>2. e.seq \in {r.seq : r \in Range(q)} <=> \E j \in DOMAIN q : e.seq = q[j].seq
    BY Zenon DEF Range
  <2>3. ASSUME e \in Range(M)
        PROVE  e \in Range(K) /\ e.seq \notin {r.seq : r \in Range(q)}
    <3>1. PICK i \in DOMAIN M : e = M[i]
      BY Zenon, <2>1, <2>3
    <3>2. e \in Range(K)
      BY Zenon, <1>6, <2>1, <3>1
    <3> QED
      BY Zenon, <1>13, <2>2, <3>1, <3>2
  <2>4. ASSUME e \in Range(K), e.seq \notin {r.seq : r \in Range(q)}
        PROVE  e \in Range(M)
    <3>1. PICK k \in DOMAIN K : e = K[k]
      BY Zenon, <2>1, <2>4
    <3> QED
      BY Zenon, <1>8, <2>1, <2>2, <2>4, <3>1
  <2> QED
    BY Zenon, <2>3, <2>4 DEF Edges
<1>15. Edges(M) = {e \in Edges(K) : e.seq \notin {r.seq : r \in Range(q)}}
  BY Zenon, <1>14
<1> QED
  BY Zenon, <1>3, <1>9, <1>10, <1>12, <1>15 DEF WithoutMiddle, M, K, pq

\* The head of the lane comes after everything injected.
LEMMA HeadIsNext ==
  ASSUME NEW p \in Seq(Recs), NEW q \in Seq(Recs), NEW s \in Seq(Recs), q # <<>>, NEW n \in Nat,
         NEW K, K = (p \o q) \o s, InOrder(K), Numbered(K, n)
  PROVE  /\ Len(p) + 1 \in DOMAIN K /\ K[Len(p) + 1] = Head(q)
         /\ SeqBefore(K, Len(p) + 1) = LastSeq(p)
         /\ LastSeq(p) \in 0 .. n /\ Head(q).seq \in 1 .. n /\ Head(q).seq > LastSeq(p)
<1> DEFINE a == Len(p)
           b == Len(q)
           c == Len(s)
           pq == p \o q
<1>0. a \in Nat /\ b \in Nat /\ b >= 1 /\ c \in Nat /\ Head(q) = q[1]
  OBVIOUS
<1>1. /\ pq \in Seq(Recs) /\ Len(pq) = a + b
      /\ \A i \in 1 .. a + b : pq[i] = IF i <= a THEN p[i] ELSE q[i - a]
  BY Zenon, ConcatProperties
<1>2. K = pq \o s
  BY Zenon
<1> HIDE DEF pq
<1>3. /\ K \in Seq(Recs) /\ Len(K) = Len(pq) + c
      /\ \A i \in 1 .. Len(pq) + c : K[i] = IF i <= Len(pq) THEN pq[i] ELSE s[i - Len(pq)]
  <2>1. pq \in Seq(Recs)
    BY Zenon, <1>1
  <2> QED
    BY Zenon, <1>2, <2>1, ConcatProperties
<1>4. DOMAIN K = 1 .. (a + b) + c
  BY <1>0, <1>1, <1>3
<1> HIDE DEF b, c
<1>5. a + 1 \in DOMAIN K /\ K[a + 1] = Head(q)
  <2>1. /\ a + 1 \in DOMAIN K /\ a + 1 \in 1 .. Len(pq) + c /\ a + 1 <= Len(pq)
        /\ a + 1 \in 1 .. a + b /\ ~(a + 1 <= a) /\ (a + 1) - a = 1
    BY <1>0, <1>1, <1>4
  <2> QED
    BY Zenon, <1>0, <1>1, <1>3, <2>1
<1>6. Head(q).seq \in 1 .. n
  BY Zenon, <1>5 DEF Numbered
<1>7. CASE p = <<>>
  <2>1. a + 1 = 1
    BY <1>7
  <2>2. SeqBefore(K, a + 1) = 0 /\ LastSeq(p) = 0
    BY Zenon, <1>7, <2>1 DEF SeqBefore, LastSeq
  <2>3. 0 \in 0 .. n /\ Head(q).seq > 0
    BY <1>6
  <2> QED
    BY Zenon, <1>5, <1>6, <2>2, <2>3
<1>8. CASE p # <<>>
  <2>0. a >= 1
    BY <1>8
  <2>1. /\ a \in DOMAIN K /\ a < a + 1 /\ (a + 1) - 1 = a /\ a + 1 # 1
        /\ a \in 1 .. Len(pq) + c /\ a <= Len(pq) /\ a \in 1 .. a + b /\ a <= a
    BY <1>0, <1>1, <1>4, <2>0
  <2>2. K[a] = p[a]
    BY Zenon, <1>1, <1>3, <2>1
  <2>3. LastSeq(p) = K[a].seq
    BY Zenon, <1>8, <2>2 DEF LastSeq
  <2>4. SeqBefore(K, a + 1) = K[a].seq
    BY Zenon, <2>1 DEF SeqBefore
  <2>5. K[a].seq < Head(q).seq /\ K[a].seq \in 1 .. n
    BY Zenon, <1>5, <2>1 DEF InOrder, Numbered
  <2>6. K[a].seq \in 0 .. n /\ Head(q).seq > K[a].seq
    <3>1. \A x, y \in 1 .. n : x < y => x \in 0 .. n /\ y > x
      OBVIOUS
    <3> QED
      BY Zenon, <1>6, <2>5, <3>1
  <2> QED
    BY Zenon, <1>5, <1>6, <2>3, <2>4, <2>6
<1> QED
  BY Zenon, <1>7, <1>8

\* The line is made of records.
LEMMA LineOfRecords ==
  ASSUME OutboxTypes
  PROVE  /\ applied \in Seq(Recs) /\ records \in Seq(Recs) /\ outbox \in Seq(Recs)
         /\ applied \o records \in Seq(Recs) /\ Kept \in Seq(Recs)
         /\ Kept = (applied \o records) \o outbox
<1>1. applied \in Seq(Recs) /\ records \in Seq(Recs) /\ outbox \in Seq(Recs)
  BY Zenon DEF OutboxTypes
<1>2. applied \o records \in Seq(Recs)
  BY Zenon, <1>1, Concatenates
<1>3. Kept = (applied \o records) \o outbox
  BY Zenon DEF Kept
<1>4. (applied \o records) \o outbox \in Seq(Recs)
  <2>1. PICK g \in Seq(Recs) : g = applied \o records
    BY Zenon, <1>2
  <2> QED
    BY Zenon, <1>1, <2>1, Concatenates
<1> QED
  BY Zenon, <1>1, <1>2, <1>3, <1>4

\* The last record injected is one the Deck produced.
LEMMA AppliedIsOld ==
  ASSUME OutboxTypes, NEW n \in Nat, Numbered(Kept, n)
  PROVE  LastSeq(applied) \in 0 .. n /\ (applied # <<>> => LastSeq(applied) # 0)
<1>1. /\ applied \in Seq(Recs) /\ records \in Seq(Recs) /\ outbox \in Seq(Recs)
      /\ Kept = (applied \o records) \o outbox /\ Kept \in Seq(Recs)
  BY Zenon, LineOfRecords
<1>2. CASE applied = <<>>
  <2>1. 0 \in 0 .. n
    OBVIOUS
  <2> QED
    BY Zenon, <1>2, <2>1 DEF LastSeq
<1>3. CASE applied # <<>>
  <2>1. PICK p \in Seq(Recs) : p = applied
    BY Zenon, <1>1
  <2>2. PICK q \in Seq(Recs) : q = records
    BY Zenon, <1>1
  <2>3. PICK s \in Seq(Recs) : s = outbox
    BY Zenon, <1>1
  <2>4. Len(p) \in DOMAIN ((p \o q) \o s) /\ ((p \o q) \o s)[Len(p)] = p[Len(p)]
    BY <1>3, <2>1
  <2>5. p[Len(p)].seq \in 1 .. n
    BY Zenon, <1>1, <2>1, <2>2, <2>3, <2>4 DEF Numbered
  <2>6. p[Len(p)].seq \in 0 .. n /\ p[Len(p)].seq # 0
    BY <2>5
  <2> QED
    BY Zenon, <1>3, <2>1, <2>6 DEF LastSeq
<1> QED
  BY Zenon, <1>2, <1>3

\* An input record.
LEMMA InputKeeps ==
  ASSUME OutboxIInv, NEW r \in Inputs, Input(r)
  PROVE  OutboxIInv'
<1>1. /\ OutboxTypes /\ InOrder(Kept) /\ Numbered(Kept, Len(log))
      /\ Edges(Kept) = {e \in Edges(log) : e.seq \notin lost}
      /\ host.seq = LastSeq(applied) /\ Followed
  BY Zenon DEF OutboxIInv
<1>2. /\ log \in Seq(Recs) /\ was \in Seq(DeckStates) /\ Len(was) = Len(log)
      /\ deck \in DeckStates /\ lost \in SUBSET (1 .. Len(log))
      /\ lane = "failed" => fails # 0
  BY Zenon, <1>1 DEF OutboxTypes
<1>3. /\ log' = Append(log, r) /\ deck' = Effect(deck, r) /\ was' = Append(was, deck')
      /\ Flush(Push(outbox, r))
      /\ lane' = lane /\ release' = release /\ host' = host /\ applied' = applied
      /\ lost' = lost /\ fails' = fails
  BY Zenon DEF Input
<1>4. r \in Recs /\ r.seq = Len(log) + 1
  BY Zenon, <1>2, InputsAreRecs
<1>5. /\ applied \o records \in Seq(Recs) /\ Kept \in Seq(Recs) /\ outbox \in Seq(Recs)
      /\ Kept = (applied \o records) \o outbox
  BY Zenon, <1>1, LineOfRecords
<1>6. PICK p \in Seq(Recs) : p = applied \o records
  BY Zenon, <1>5
<1>7. PICK K \in Seq(Recs) : K = Kept /\ K = p \o outbox
  BY Zenon, <1>5, <1>6
<1>8. PICK s \in Seq(Recs) : s = Push(outbox, r)
  BY Zenon, <1>4, <1>5, PushDoes
<1>9. PICK u \in Seq(Recs) : u = p \o s
  BY Zenon, Concatenates
<1>10. PushedBehind(K, r, u) \/ PushedOver(K, r, u) \/ PushedFolding(K, r, u)
  BY Zenon, <1>4, <1>5, <1>7, <1>8, <1>9, PushDoes
<1>11. /\ Kept' = u
       /\ records' \in Seq(Recs) /\ outbox' \in Seq(Recs) /\ Len(records') <= LaneCap
       /\ lane = "failed" => records' = <<>>
  <2>1. Flush(s)
    BY Zenon, <1>3, <1>8
  <2> QED
    BY Zenon, <1>1, <1>3, <1>6, <1>9, <2>1, FlushKeepsLine
<1>12. PICK n \in Nat : n = Len(log) /\ n = Len(was)
  BY <1>2
<1>13. InOrder(u) /\ Numbered(u, n + 1) /\ Edges(u) = Edges(Append(K, r))
  <2>1. r.seq = n + 1 /\ InOrder(K) /\ Numbered(K, n)
    BY Zenon, <1>1, <1>4, <1>7, <1>12
  <2>2. r \in Recs
    BY Zenon, <1>4
  <2> QED
    BY Zenon, <1>10, <2>1, <2>2, PushKeeps
<1>14. log' \in Seq(Recs) /\ Len(log') = n + 1
  BY <1>2, <1>3, <1>4, <1>12
<1>15. deck' \in DeckStates
  BY Zenon, <1>2, <1>3, <1>4, EffectFields
<1>16. /\ was' \in Seq(DeckStates) /\ Len(was') = n + 1
       /\ HadAfter(was', n + 1) = deck'
  <2>1. PICK d \in DeckStates : d = deck'
    BY Zenon, <1>15
  <2> QED
    <3>1. PICK w \in Seq(DeckStates) : w = was
      BY Zenon, <1>2
    <3>2. /\ Append(w, d) \in Seq(DeckStates) /\ Len(Append(w, d)) = Len(w) + 1
          /\ HadAfter(Append(w, d), Len(w) + 1) = d
      BY Zenon, HadBefore
    <3> QED
      BY Zenon, <1>3, <1>12, <2>1, <3>1, <3>2
<1>17. OutboxTypes'
  <2>1. lost' \in SUBSET (1 .. Len(log'))
    <3>1. 1 .. n \subseteq 1 .. n + 1
      OBVIOUS
    <3> QED
      BY Zenon, <1>2, <1>3, <1>12, <1>14, <3>1
  <2>2. Len(was') = Len(log') /\ applied' \in Seq(Recs)
    BY Zenon, <1>1, <1>3, <1>14, <1>16 DEF OutboxTypes
  <2> QED
    BY Zenon, <1>1, <1>3, <1>11, <1>14, <1>15, <1>16, <2>1, <2>2 DEF OutboxTypes
<1>18. Edges(u) = {e \in Edges(log') : e.seq \notin lost'}
  <2>1. Edges(Append(K, r)) = IF Class(r) = "edge" THEN Edges(K) \cup {r} ELSE Edges(K)
    BY Zenon, <1>4, EdgesOfAppend
  <2>2. Edges(log') = IF Class(r) = "edge" THEN Edges(log) \cup {r} ELSE Edges(log)
    BY Zenon, <1>2, <1>3, <1>4, EdgesOfAppend
  <2>3. r.seq \notin lost
    <3>1. n + 1 \notin 1 .. n
      OBVIOUS
    <3> QED
      BY Zenon, <1>2, <1>4, <1>12, <3>1
  <2>4. Edges(K) = {e \in Edges(log) : e.seq \notin lost}
    BY Zenon, <1>1, <1>7
  <2>5. ASSUME NEW e
        PROVE  e \in Edges(u) <=> e \in Edges(log') /\ e.seq \notin lost'
    BY Zenon, <1>3, <1>13, <2>1, <2>2, <2>3, <2>4
  <2> QED
    BY Zenon, <2>5
<1>19. Followed'
  <2> SUFFICES ASSUME fails = 0, lane = "open"
               PROVE  /\ Leads(u, was')
                      /\ LastSeq(u) = n + 1 /\ deck' = HadAfter(was', n + 1)
                      /\ Has(host, HadAfter(was', host.seq))
    BY Zenon, <1>3, <1>11, <1>14 DEF Followed
  <2>1. /\ Leads(K, was) /\ LastSeq(K) = n /\ deck = HadAfter(was, n)
        /\ Has(host, HadAfter(was, host.seq))
    BY Zenon, <1>1, <1>7, <1>12 DEF Followed
  <2>2. PICK w \in Seq(DeckStates) : w = was
    BY Zenon, <1>2
  <2>3. PICK d : d = deck'
    BY Zenon
  <2>4. Leads(u, Append(w, d)) /\ LastSeq(u) = Len(w) + 1
    <3>1. /\ r.seq = Len(w) + 1 /\ Numbered(K, Len(w)) /\ Leads(K, w) /\ LastSeq(K) = Len(w)
          /\ d = Effect(HadAfter(w, Len(w)), r)
      BY Zenon, <1>1, <1>3, <1>4, <1>7, <1>12, <2>1, <2>2, <2>3
    <3> QED
      BY Zenon, <1>4, <1>10, <3>1, PushLeads
  <2>5. Has(host, HadAfter(was', host.seq))
    <3>1. host.seq \in 0 .. n
      <4>1. LastSeq(applied) \in 0 .. n
        BY Zenon, <1>1, <1>12, AppliedIsOld
      <4> QED
        BY Zenon, <1>1, <4>1
    <3>2. HadAfter(Append(w, d), host.seq) = HadAfter(w, host.seq)
      <4>1. host.seq \in 0 .. Len(w) /\ d \in DeckStates
        BY Zenon, <1>12, <1>15, <2>2, <2>3, <3>1
      <4> QED
        BY Zenon, <4>1, HadBefore
    <3> QED
      BY Zenon, <1>3, <2>1, <2>2, <2>3, <3>2
  <2> QED
    BY Zenon, <1>3, <1>12, <1>16, <2>2, <2>3, <2>4, <2>5
<1> QED
  <2>1. InOrder(Kept') /\ Numbered(Kept', Len(log'))
    BY Zenon, <1>11, <1>13, <1>14
  <2>2. Edges(Kept') = {e \in Edges(log') : e.seq \notin lost'}
    BY Zenon, <1>11, <1>18
  <2>3. host'.seq = LastSeq(applied')
    BY Zenon, <1>1, <1>3
  <2> QED
    BY Zenon, <1>17, <1>19, <2>1, <2>2, <2>3 DEF OutboxIInv

\* A step that leaves the line, the log and what is lost alone.
LEMMA SameLine ==
  ASSUME OutboxIInv, OutboxTypes', Kept' = Kept, log' = log, lost' = lost,
         host'.seq = LastSeq(applied'), Followed'
  PROVE  OutboxIInv'
<1>1. /\ InOrder(Kept) /\ Numbered(Kept, Len(log))
      /\ Edges(Kept) = {e \in Edges(log) : e.seq \notin lost}
  BY Zenon DEF OutboxIInv
<1>2. /\ InOrder(Kept') /\ Numbered(Kept', Len(log'))
      /\ Edges(Kept') = {e \in Edges(log') : e.seq \notin lost'}
  BY Zenon, <1>1
<1> QED
  BY Zenon, <1>2 DEF OutboxIInv

\* The retry tick.
LEMMA TickKeeps ==
  ASSUME OutboxIInv, Tick
  PROVE  OutboxIInv'
<1>1. OutboxTypes /\ Followed /\ host.seq = LastSeq(applied)
  BY Zenon DEF OutboxIInv
<1>2. /\ Flush(outbox) /\ lane = "open"
      /\ deck' = deck /\ lane' = lane /\ release' = release /\ host' = host /\ log' = log
      /\ was' = was /\ applied' = applied /\ lost' = lost /\ fails' = fails
  BY Zenon DEF Tick
<1>3. outbox \in Seq(Recs) /\ Kept = (applied \o records) \o outbox
  BY Zenon, <1>1, LineOfRecords
<1>4. /\ Kept' = (applied \o records) \o outbox
      /\ records' \in Seq(Recs) /\ outbox' \in Seq(Recs) /\ Len(records') <= LaneCap
      /\ lane = "failed" => records' = <<>>
  BY Zenon, <1>1, <1>2, <1>3, FlushKeepsLine
<1>5. Kept' = Kept
  BY Zenon, <1>3, <1>4
<1>6. OutboxTypes'
  BY Zenon, <1>1, <1>2, <1>4 DEF OutboxTypes
<1>7. Followed'
  BY Zenon, <1>1, <1>2, <1>5 DEF Followed
<1>8. host'.seq = LastSeq(applied')
  BY Zenon, <1>1, <1>2
<1> QED
  BY Zenon, <1>2, <1>5, <1>6, <1>7, <1>8, SameLine

\* The lane is open again, after a failure.
LEMMA ReopenedKeeps ==
  ASSUME OutboxIInv, Reopened
  PROVE  OutboxIInv'
<1>1. OutboxTypes /\ Followed /\ host.seq = LastSeq(applied)
  BY Zenon DEF OutboxIInv
<1>2. PICK n : /\ n = Min({Len(outbox), LaneCap})
               /\ records' = SubSeq(outbox, 1, n) /\ outbox' = SubSeq(outbox, n + 1, Len(outbox))
  BY Zenon DEF Reopened
<1>3. /\ lane = "failed" /\ lane' = "open"
      /\ deck' = deck /\ release' = release /\ host' = host /\ log' = log
      /\ was' = was /\ applied' = applied /\ lost' = lost /\ fails' = fails
  BY Zenon DEF Reopened
<1>4. /\ applied \in Seq(Recs) /\ outbox \in Seq(Recs) /\ Kept = (applied \o records) \o outbox
      /\ records = <<>> /\ fails # 0
  BY Zenon, <1>1, <1>3, LineOfRecords DEF OutboxTypes
<1>5. n \in 0 .. Len(outbox) /\ n <= LaneCap
  <2>1. Len(outbox) \in Nat /\ LaneCap \in Nat
    BY <1>4, LaneAssumption
  <2>2. n \in Nat /\ n <= Len(outbox) /\ n <= LaneCap
    BY Zenon, <1>2, <2>1, LeastOfTwo
  <2> QED
    BY <2>1, <2>2
<1>6. PICK q \in Seq(Recs) : q = <<>>
  <2>1. <<>> \in Seq(Recs)
    OBVIOUS
  <2> QED
    BY Zenon, <2>1
<1>7. MovesBorder(applied, q, outbox, n)
  BY Zenon, <1>4, <1>5, FlushMovesBorder
<1>8. PICK t \in Seq(Recs) : t = SubSeq(outbox, 1, n) /\ Len(t) = n /\ q \o t = t
  <2>1. SubSeq(outbox, 1, n) \in Seq(Recs) /\ Len(SubSeq(outbox, 1, n)) = n
    BY <1>4, <1>5, SubSeqProperties
  <2>2. <<>> \o SubSeq(outbox, 1, n) = SubSeq(outbox, 1, n)
    BY Zenon, <2>1, ConcatEmptySeq
  <2> QED
    BY Zenon, <1>6, <2>1, <2>2
<1>9. records' = t /\ outbox' \in Seq(Recs) /\ (applied' \o records') \o outbox' = Kept
  BY Zenon, <1>2, <1>3, <1>4, <1>6, <1>7, <1>8 DEF MovesBorder
<1>10. Kept' = Kept
  BY Zenon, <1>9 DEF Kept
<1>11. records' \in Seq(Recs) /\ Len(records') <= LaneCap
  BY Zenon, <1>5, <1>8, <1>9
<1>12. lane' # "failed" /\ fails' # 0
  BY <1>3, <1>4
<1>13. OutboxTypes'
  BY Zenon, <1>1, <1>3, <1>9, <1>11, <1>12 DEF OutboxTypes
<1>14. Followed'
  BY Zenon, <1>12 DEF Followed
<1>15. host'.seq = LastSeq(applied')
  BY Zenon, <1>1, <1>3
<1> QED
  BY Zenon, <1>3, <1>10, <1>13, <1>14, <1>15, SameLine

\* What the host has may be released after a failure, or at the end.
LEMMA ReleaseKeeps ==
  ASSUME OutboxIInv, HostReleases \/ HostEnds
  PROVE  OutboxIInv'
<1>1. OutboxTypes /\ host.seq = LastSeq(applied)
  BY Zenon DEF OutboxIInv
<1>2. /\ host' = [host EXCEPT !.held = Releases, !.pen = 0]
      /\ deck' = deck /\ outbox' = outbox /\ lane' = lane /\ records' = records /\ log' = log
      /\ was' = was /\ applied' = applied /\ lost' = lost /\ fails' = fails
      /\ release' = FALSE \/ release' = release
      /\ release \/ lane = "done"
  BY Zenon DEF HostReleases, HostEnds
<1>3. host \in HostStates
  BY Zenon, <1>1 DEF OutboxTypes
<1>4. host' \in HostStates /\ host'.seq = host.seq
  BY Zenon, <1>2, <1>3 DEF HostStates, Releases
<1>5. release' \in BOOLEAN /\ (fails = 0 => ~release')
  <2>1. release \in BOOLEAN /\ (fails = 0 => ~release)
    BY Zenon, <1>1 DEF OutboxTypes
  <2>2. CASE release' = FALSE
    BY Zenon, <2>2
  <2>3. CASE release' = release
    BY Zenon, <2>1, <2>3
  <2> QED
    BY Zenon, <1>2, <2>2, <2>3
<1>6. OutboxTypes'
  BY Zenon, <1>1, <1>2, <1>4, <1>5 DEF OutboxTypes
<1>7. Kept' = Kept
  BY Zenon, <1>2 DEF Kept
<1>8. fails' # 0 \/ lane' # "open"
  <2>1. lane = "done" => lane # "open"
    OBVIOUS
  <2> QED
    BY Zenon, <1>1, <1>2, <2>1 DEF OutboxTypes
<1>9. Followed'
  BY Zenon, <1>8 DEF Followed
<1>10. host'.seq = LastSeq(applied')
  BY Zenon, <1>1, <1>2, <1>4
<1> QED
  BY Zenon, <1>2, <1>6, <1>7, <1>9, <1>10, SameLine

\* The numbers of some records, and an edge that is in none of them.
Numbers(q) == {r.seq : r \in Range(q)}
EdgesBut(s, gone) == {r \in Edges(s) : r.seq \notin gone}

\* What is lost with a lane, or with the worker, is in none of the places a record
\* waits, and nothing else is.
LEMMA LosesMiddle ==
  ASSUME OutboxIInv, NEW p \in Seq(Recs), NEW q \in Seq(Recs), NEW s \in Seq(Recs),
         Kept = (p \o q) \o s, NEW gone, gone = lost \cup Numbers(q)
  PROVE  /\ InOrder(p \o s) /\ Numbered(p \o s, Len(log))
         /\ gone \in SUBSET (1 .. Len(log))
         /\ Edges(p \o s) = EdgesBut(log, gone)
<1>1. /\ OutboxTypes /\ InOrder((p \o q) \o s) /\ Numbered((p \o q) \o s, Len(log))
      /\ Edges((p \o q) \o s) = {e \in Edges(log) : e.seq \notin lost}
  BY Zenon DEF OutboxIInv
<1>2. log \in Seq(Recs) /\ lost \in SUBSET (1 .. Len(log))
  BY Zenon, <1>1 DEF OutboxTypes
<1>3. PICK n \in Nat : n = Len(log)
  BY <1>2
<1>4. WithoutMiddle(p, q, s, n)
  <2>1. InOrder((p \o q) \o s) /\ Numbered((p \o q) \o s, n)
    BY Zenon, <1>1, <1>3
  <2> QED
    BY Zenon, <2>1, MiddleGoes
<1>5. PICK taken : taken = {r.seq : r \in Range(q)}
  BY Zenon
<1>6. /\ InOrder(p \o s) /\ Numbered(p \o s, n) /\ taken \subseteq 1 .. n
      /\ Edges(p \o s) = {e \in Edges((p \o q) \o s) : e.seq \notin taken}
  BY Zenon, <1>4, <1>5 DEF WithoutMiddle
<1>7. gone = lost \cup taken
  BY Zenon, <1>5 DEF Numbers
<1>8. Edges(p \o s) = {e \in Edges(log) : e.seq \notin gone}
  BY Zenon, <1>1, <1>6, <1>7
<1>9. gone \in SUBSET (1 .. Len(log))
  BY Zenon, <1>2, <1>3, <1>6, <1>7
<1> QED
  BY Zenon, <1>3, <1>6, <1>8, <1>9 DEF EdgesBut

\* The end of the session, for the Deck.
LEMMA InputEndsKeeps ==
  ASSUME OutboxIInv, InputEnds
  PROVE  OutboxIInv'
<1>1. OutboxTypes /\ host.seq = LastSeq(applied)
  BY Zenon DEF OutboxIInv
<1>2. /\ lane' = "done" /\ lost' = lost \cup {r.seq : r \in Range(outbox)} /\ outbox' = <<>>
      /\ deck' = deck /\ records' = records /\ release' = release /\ host' = host /\ log' = log
      /\ was' = was /\ applied' = applied /\ fails' = fails
  BY Zenon DEF InputEnds
<1>3. /\ applied \o records \in Seq(Recs) /\ outbox \in Seq(Recs) /\ Kept \in Seq(Recs)
      /\ Kept = (applied \o records) \o outbox
  BY Zenon, <1>1, LineOfRecords
<1>4. <<>> \in Seq(Recs)
  OBVIOUS
<1>5. PICK p \in Seq(Recs) : p = applied \o records
  BY Zenon, <1>3
<1>6. PICK q \in Seq(Recs) : q = outbox
  BY Zenon, <1>3
<1>7. PICK s \in Seq(Recs) : s = <<>>
  BY Zenon, <1>4
<1>8. Kept = (p \o q) \o s
  <2>1. Kept \o <<>> = Kept
    BY Zenon, <1>3, ConcatEmptySeq
  <2> QED
    BY Zenon, <1>3, <1>5, <1>6, <1>7, <2>1
<1>9. lost' = lost \cup {r.seq : r \in Range(q)}
  BY Zenon, <1>2, <1>6
<1>10. /\ InOrder(p \o s) /\ Numbered(p \o s, Len(log))
       /\ lost' \in SUBSET (1 .. Len(log))
       /\ Edges(p \o s) = {e \in Edges(log) : e.seq \notin lost'}
  <2>1. PICK gone : gone = lost'
    BY Zenon
  <2>2. gone = lost \cup Numbers(q)
    BY Zenon, <1>9, <2>1 DEF Numbers
  <2>3. /\ InOrder(p \o s) /\ Numbered(p \o s, Len(log))
        /\ gone \in SUBSET (1 .. Len(log))
        /\ Edges(p \o s) = EdgesBut(log, gone)
    BY Zenon, <1>8, <2>2, LosesMiddle
  <2> QED
    BY Zenon, <2>1, <2>3 DEF EdgesBut
<1>11. Kept' = p \o s
  BY Zenon, <1>2, <1>5, <1>7 DEF Kept
<1>12. lane' # "failed" /\ lane' # "open" /\ outbox' \in Seq(Recs)
  BY <1>2
<1>13. OutboxTypes'
  BY Zenon, <1>1, <1>2, <1>10, <1>12 DEF OutboxTypes
<1>14. Followed'
  BY Zenon, <1>12 DEF Followed
<1>15. host'.seq = LastSeq(applied')
  BY Zenon, <1>1, <1>2
<1>16. /\ InOrder(Kept') /\ Numbered(Kept', Len(log'))
       /\ Edges(Kept') = {e \in Edges(log') : e.seq \notin lost'}
  BY Zenon, <1>2, <1>10, <1>11
<1> QED
  BY Zenon, <1>13, <1>14, <1>15, <1>16 DEF OutboxIInv

\* The lane fails, with what it took.
LEMMA LaneFailsKeeps ==
  ASSUME OutboxIInv, LaneFails
  PROVE  OutboxIInv'
<1>1. OutboxTypes /\ host.seq = LastSeq(applied)
  BY Zenon DEF OutboxIInv
<1>2. /\ fails' = fails + 1 /\ release' = TRUE /\ records' = <<>>
      /\ lane' = "failed" \/ lane' = "done"
      /\ lost' = lost \cup {r.seq : r \in Range(records)}
      /\ deck' = deck /\ outbox' = outbox /\ host' = host /\ log' = log
      /\ was' = was /\ applied' = applied
  BY Zenon DEF LaneFails
<1>3. /\ applied \in Seq(Recs) /\ records \in Seq(Recs) /\ outbox \in Seq(Recs)
      /\ Kept = (applied \o records) \o outbox
  BY Zenon, <1>1, LineOfRecords
<1>4. PICK p \in Seq(Recs) : p = applied
  BY Zenon, <1>3
<1>5. PICK q \in Seq(Recs) : q = records
  BY Zenon, <1>3
<1>6. PICK s \in Seq(Recs) : s = outbox
  BY Zenon, <1>3
<1>7. Kept = (p \o q) \o s
  BY Zenon, <1>3, <1>4, <1>5, <1>6
<1>8. /\ InOrder(p \o s) /\ Numbered(p \o s, Len(log))
      /\ lost' \in SUBSET (1 .. Len(log))
      /\ Edges(p \o s) = {e \in Edges(log) : e.seq \notin lost'}
  <2>1. PICK gone : gone = lost'
    BY Zenon
  <2>2. gone = lost \cup Numbers(q)
    BY Zenon, <1>2, <1>5, <2>1 DEF Numbers
  <2>3. /\ InOrder(p \o s) /\ Numbered(p \o s, Len(log))
        /\ gone \in SUBSET (1 .. Len(log))
        /\ Edges(p \o s) = EdgesBut(log, gone)
    BY Zenon, <1>7, <2>2, LosesMiddle
  <2> QED
    BY Zenon, <2>1, <2>3 DEF EdgesBut
<1>9. Kept' = p \o s
  <2>1. p \o <<>> = p
    BY Zenon, ConcatEmptySeq
  <2>2. Kept' = (applied' \o records') \o outbox'
    BY Zenon DEF Kept
  <2> QED
    BY Zenon, <1>2, <1>4, <1>6, <2>1, <2>2
<1>10. fails' \in Nat /\ fails' # 0
  <2>1. fails \in Nat
    BY Zenon, <1>1 DEF OutboxTypes
  <2> QED
    BY <1>2, <2>1
<1>11. records' \in Seq(Recs) /\ Len(records') <= LaneCap
  BY <1>2, LaneAssumption
<1>12. OutboxTypes'
  BY Zenon, <1>1, <1>2, <1>8, <1>10, <1>11 DEF OutboxTypes
<1>13. Followed'
  BY Zenon, <1>10 DEF Followed
<1>14. host'.seq = LastSeq(applied')
  BY Zenon, <1>1, <1>2
<1>15. /\ InOrder(Kept') /\ Numbered(Kept', Len(log'))
       /\ Edges(Kept') = {e \in Edges(log') : e.seq \notin lost'}
  BY Zenon, <1>2, <1>8, <1>9
<1> QED
  BY Zenon, <1>12, <1>13, <1>14, <1>15 DEF OutboxIInv

\* The host reads the lane: what it reads is always newer, so it is injected, and
\* takes the host to where the Deck was.
LEMMA HostReadsKeeps ==
  ASSUME OutboxIInv, HostReads
  PROVE  OutboxIInv'
<1>1. /\ OutboxTypes /\ InOrder(Kept) /\ Numbered(Kept, Len(log))
      /\ host.seq = LastSeq(applied) /\ Followed
  BY Zenon DEF OutboxIInv
<1>2. /\ records # <<>> /\ records' = Tail(records)
      /\ deck' = deck /\ outbox' = outbox /\ lane' = lane /\ release' = release /\ log' = log
      /\ was' = was /\ lost' = lost /\ fails' = fails
      /\ Head(records).seq > host.seq =>
            /\ host' = [Effect(host, Head(records)) EXCEPT !.seq = Head(records).seq]
            /\ applied' = Append(applied, Head(records))
  BY Zenon DEF HostReads
<1>3. /\ applied \in Seq(Recs) /\ records \in Seq(Recs) /\ outbox \in Seq(Recs)
      /\ Kept = (applied \o records) \o outbox
  BY Zenon, <1>1, LineOfRecords
<1>4. /\ host \in HostStates /\ was \in Seq(DeckStates) /\ Len(was) = Len(log) /\ log \in Seq(Recs)
      /\ Len(records) <= LaneCap
  BY Zenon, <1>1 DEF OutboxTypes
<1>5. PICK p \in Seq(Recs) : p = applied
  BY Zenon, <1>3
<1>6. PICK q \in Seq(Recs) : q = records
  BY Zenon, <1>3
<1>7. PICK s \in Seq(Recs) : s = outbox
  BY Zenon, <1>3
<1>8. PICK n \in Nat : n = Len(log)
  BY <1>4
<1>9. PICK K : K = (p \o q) \o s
  BY Zenon
<1>10. q # <<>> /\ Kept = K /\ InOrder(K) /\ Numbered(K, n)
  BY Zenon, <1>1, <1>2, <1>3, <1>5, <1>6, <1>7, <1>8, <1>9
<1>11. /\ Len(p) + 1 \in DOMAIN K /\ K[Len(p) + 1] = Head(q)
       /\ SeqBefore(K, Len(p) + 1) = LastSeq(p)
       /\ LastSeq(p) \in 0 .. n /\ Head(q).seq \in 1 .. n /\ Head(q).seq > LastSeq(p)
  BY Zenon, <1>9, <1>10, HeadIsNext
<1>12. /\ Append(p, Head(q)) \in Seq(Recs) /\ Tail(q) \in Seq(Recs) /\ Head(q) \in Recs
       /\ (Append(p, Head(q)) \o Tail(q)) \o s = K
  <2>1. q # <<>>
    BY Zenon, <1>10
  <2>2. ReadsHead(p, q, s)
    BY Zenon, <2>1, ReadMovesBorder
  <2> QED
    BY Zenon, <1>9, <2>2 DEF ReadsHead
<1>13. PICK h \in Recs : h = Head(q)
  BY Zenon, <1>12
<1>14. /\ host' = [Effect(host, h) EXCEPT !.seq = h.seq] /\ applied' = Append(p, h)
  BY Zenon, <1>1, <1>2, <1>5, <1>6, <1>11, <1>13
<1>15. h.seq \in Nat
  BY <1>11, <1>13
<1>16. host' \in HostStates /\ host'.seq = h.seq
  <2>1. PICK g : g = host'
    BY Zenon
  <2>2. PICK f \in HostStates : f = host
    BY Zenon, <1>4
  <2>3. PICK m \in Nat : m = h.seq
    BY Zenon, <1>15
  <2>4. g = Injected(f, h, m)
    BY Zenon, <1>14, <2>1, <2>2, <2>3 DEF Injected
  <2>5. InjectedTo(g, m)
    BY Zenon, <2>4, EffectOnHost
  <2> QED
    BY Zenon, <2>1, <2>3, <2>5 DEF InjectedTo
<1>17. applied' \in Seq(Recs) /\ records' \in Seq(Recs) /\ Kept' = Kept
  <2>1. Kept' = (applied' \o records') \o outbox'
    BY Zenon DEF Kept
  <2> QED
    BY Zenon, <1>2, <1>6, <1>7, <1>10, <1>12, <1>13, <1>14, <2>1
<1>18. Len(records') <= LaneCap /\ (lane = "failed" => records' = <<>>)
  <2>1. lane # "failed"
    BY Zenon, <1>1, <1>2 DEF OutboxTypes
  <2>2. Len(Tail(q)) <= Len(q)
    BY <1>10, HeadTailProperties
  <2>3. Len(records') <= LaneCap
    BY SMTT(60), SMTT(90), <1>2, <1>4, <1>6, <1>17, <2>2, LaneAssumption
  <2> QED
    BY Zenon, <2>1, <2>3
<1>19. OutboxTypes'
  BY Zenon, <1>1, <1>2, <1>16, <1>17, <1>18 DEF OutboxTypes
<1>20. host'.seq = LastSeq(applied')
  <2>1. /\ Append(p, h) # <<>> /\ Append(p, h)[Len(Append(p, h))] = h
    BY AppendProperties
  <2> QED
    BY Zenon, <1>14, <1>16, <2>1 DEF LastSeq
<1>21. Followed'
  <2> SUFFICES ASSUME fails = 0, lane = "open"
               PROVE  /\ Leads(Kept, was)
                      /\ LastSeq(Kept) = Len(log) /\ deck = HadAfter(was, Len(log))
                      /\ Has(host', HadAfter(was, host'.seq))
    BY Zenon, <1>2, <1>17 DEF Followed
  <2>1. /\ Leads(Kept, was)
        /\ LastSeq(Kept) = Len(log) /\ deck = HadAfter(was, Len(log))
        /\ Has(host, HadAfter(was, host.seq))
    BY Zenon, <1>1 DEF Followed
  <2>2. PICK d \in DeckStates : d = HadAfter(was, host.seq)
    <3>1. host.seq \in 0 .. Len(was)
      BY Zenon, <1>1, <1>4, <1>5, <1>8, <1>11
    <3> QED
      BY Zenon, <1>4, <3>1, HadState
  <2>3. HadAfter(was, h.seq) = Effect(d, h)
    <3>1. LeadsAt(K, was, Len(p) + 1)
      BY Zenon, <1>10, <1>11, <2>1 DEF Leads
    <3> QED
      BY Zenon, <1>1, <1>5, <1>11, <1>13, <2>2, <3>1 DEF LeadsAt
  <2>4. PICK g : g = host'
    BY Zenon
  <2>5. Has(g, Effect(d, h))
    <3>1. host \in HostStates /\ Has(host, d) /\ g = Injected(host, h, h.seq)
      BY Zenon, <1>4, <1>14, <2>1, <2>2, <2>4 DEF Injected
    <3> QED
      BY Zenon, <1>15, <3>1, HostFollows
  <2> QED
    BY Zenon, <1>16, <2>1, <2>3, <2>4, <2>5
<1> QED
  BY Zenon, <1>2, <1>17, <1>19, <1>20, <1>21, SameLine

\* Nothing is in line at first, and the host has what the Deck has.
LEMMA OutboxStarts ==
  ASSUME OutboxInit
  PROVE  OutboxIInv
<1>1. /\ deck = Blank /\ host = [x |-> 0, pen |-> 0, held |-> {}, seq |-> 0]
      /\ outbox = <<>> /\ records = <<>> /\ lane = "open" /\ release = FALSE
      /\ log = <<>> /\ was = <<>> /\ applied = <<>> /\ lost = {} /\ fails = 0
  BY Zenon DEF OutboxInit
<1>2. <<>> \in Seq(Recs) /\ <<>> \in Seq(DeckStates) /\ Len(<<>>) = 0 /\ DOMAIN <<>> = {}
  OBVIOUS
<1>3. deck \in DeckStates /\ host \in HostStates
  BY <1>1 DEF Blank, DeckStates, HostStates, Args
<1>4. 0 <= LaneCap /\ 0 \in Nat
  BY LaneAssumption
<1>5. OutboxTypes
  <2>1. lost \in SUBSET (1 .. Len(log)) /\ Len(records) <= LaneCap /\ fails \in Nat
    BY Zenon, <1>1, <1>2, <1>4
  <2>2. lane # "failed" /\ lane \in {"open", "failed", "done"} /\ release \in BOOLEAN /\ ~release
    BY Zenon, <1>1
  <2> QED
    BY Zenon, <1>1, <1>2, <1>3, <2>1, <2>2 DEF OutboxTypes
<1>6. Kept = <<>>
  BY <1>1, ConcatEmptySeq DEF Kept
<1>7. InOrder(Kept) /\ Numbered(Kept, Len(log)) /\ Leads(Kept, was)
  BY Zenon, <1>2, <1>6 DEF InOrder, Numbered, Leads
<1>8. Edges(Kept) = {e \in Edges(log) : e.seq \notin lost}
  BY Zenon, <1>1, <1>6
<1>9. host.seq = 0 /\ host.x = 0 /\ host.pen = 0 /\ host.held = {}
  BY <1>1
<1>10. host.seq = LastSeq(applied)
  BY Zenon, <1>1, <1>9 DEF LastSeq
<1>11. Blank.x = 0 /\ Blank.pen = 0 /\ Blank.held = {}
  BY DEF Blank
<1>12. Followed
  BY Zenon, <1>1, <1>2, <1>6, <1>7, <1>9, <1>11 DEF Followed, LastSeq, HadAfter, Has
<1> QED
  BY Zenon, <1>5, <1>7, <1>8, <1>10, <1>12 DEF OutboxIInv

\* Every step keeps the invariant.
LEMMA OutboxSteps == OutboxIInv /\ [OutboxNext]_outboxVars => OutboxIInv'
<1> SUFFICES ASSUME OutboxIInv, [OutboxNext]_outboxVars
             PROVE  OutboxIInv'
  BY Zenon
<1>1. CASE \E r \in Inputs : Input(r)
  BY Zenon, <1>1, InputKeeps
<1>2. CASE Tick
  BY Zenon, <1>2, TickKeeps
<1>3. CASE Reopened
  BY Zenon, <1>3, ReopenedKeeps
<1>4. CASE InputEnds
  BY Zenon, <1>4, InputEndsKeeps
<1>5. CASE LaneFails
  BY Zenon, <1>5, LaneFailsKeeps
<1>6. CASE HostReleases \/ HostEnds
  BY Zenon, <1>6, ReleaseKeeps
<1>7. CASE HostReads
  BY Zenon, <1>7, HostReadsKeeps
<1>8. CASE UNCHANGED outboxVars
  <2>1. /\ deck' = deck /\ outbox' = outbox /\ lane' = lane /\ records' = records
        /\ release' = release /\ host' = host /\ log' = log /\ was' = was
        /\ applied' = applied /\ lost' = lost /\ fails' = fails
    BY Zenon, <1>8 DEF outboxVars
  <2>2. Kept' = Kept
    BY Zenon, <2>1 DEF Kept
  <2>3. OutboxTypes'
    BY Zenon, <2>1 DEF OutboxIInv, OutboxTypes
  <2>4. Followed'
    BY Zenon, <2>1, <2>2 DEF OutboxIInv, Followed
  <2>5. host'.seq = LastSeq(applied')
    BY Zenon, <2>1 DEF OutboxIInv
  <2> QED
    BY Zenon, <2>1, <2>2, <2>3, <2>4, <2>5, SameLine
<1> QED
  BY Zenon, <1>1, <1>2, <1>3, <1>4, <1>5, <1>6, <1>7, <1>8 DEF OutboxNext

\* The invariant says that edges are kept, and where they land.
LEMMA OutboxImplies == OutboxIInv => EdgesKept /\ EdgesLand
<1> SUFFICES ASSUME OutboxIInv
             PROVE  EdgesKept /\ EdgesLand
  BY Zenon
<1>1. /\ OutboxTypes /\ InOrder(Kept) /\ Numbered(Kept, Len(log))
      /\ Edges(Kept) = {r \in Edges(log) : r.seq \notin lost}
      /\ host.seq = LastSeq(applied) /\ Followed
  BY Zenon DEF OutboxIInv
<1>2. EdgesKept
  BY Zenon, <1>1 DEF EdgesKept, InOrder
<1>3. ASSUME fails = 0, lane = "open", applied # <<>>
      PROVE  /\ host.x = was[Newest(applied).seq].x /\ host.pen = was[Newest(applied).seq].pen
             /\ host.held = was[Newest(applied).seq].held
  <2>1. Len(log) \in Nat
    <3>1. log \in Seq(Recs)
      BY Zenon, <1>1 DEF OutboxTypes
    <3> QED
      BY <3>1
  <2>2. LastSeq(applied) # 0
    BY Zenon, <1>1, <1>3, <2>1, AppliedIsOld
  <2>3. LastSeq(applied) = Newest(applied).seq
    BY Zenon, <1>3 DEF LastSeq, Newest
  <2>4. HadAfter(was, host.seq) = was[Newest(applied).seq]
    BY Zenon, <1>1, <2>2, <2>3 DEF HadAfter
  <2>5. Has(host, HadAfter(was, host.seq))
    BY Zenon, <1>1, <1>3 DEF Followed
  <2> QED
    BY Zenon, <2>4, <2>5 DEF Has
<1>4. EdgesLand
  BY Zenon, <1>3 DEF EdgesLand
<1> QED
  BY Zenon, <1>2, <1>4

\* The outbox keeps its invariant (lane_outbox.rs, the Deck's input worker and the
\* host's): nothing overtakes, and each record kept leads from where the Deck was
\* after the one before it to where it was after this one.
THEOREM OutboxCorrect == OutboxSpec => []OutboxIInv
<1>1. OutboxInit => OutboxIInv
  BY Zenon, OutboxStarts
<1> QED
  BY <1>1, OutboxSteps, PTL DEF OutboxSpec

\* Edges are never dropped, merged or reordered (lane_outbox.rs header), for any
\* outbox cap, any lane and any records.
THEOREM EdgesKeptCorrect == OutboxSpec => []EdgesKept
  BY OutboxCorrect, OutboxImplies, PTL

\* As long as no lane failed, every record the host injects leaves it with the
\* pointer, the pen and the keys where the Deck had them (lane_outbox.rs push and
\* the coalescing it does).
THEOREM EdgesLandCorrect == OutboxSpec => []EdgesLand
  BY OutboxCorrect, OutboxImplies, PTL
=============================================================================
