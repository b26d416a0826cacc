----------------------------- MODULE LaneProofs -----------------------------
(***************************************************************************)
(* Two users of the attachment's streams.  The Pier's USB helper owes the  *)
(* kernel every fetched URB exactly once, for any number of URBs, any      *)
(* limits and any behaviour of lane and Deck.  The session lanes are given *)
(* up only when they are exhausted and never step back to an older lane,   *)
(* for any roles, generations, frames and faults.                          *)
(***************************************************************************)
EXTENDS UsbBridge, SessionLanes, TLAPS

\* The map hs from ids below n, read with the kernel's handles k: each id names
\* a fetched handle, each fetched handle has an id, and only one.
Owed(k, hs, n) ==
    /\ k \in [Handles -> {"idle", "queued", "out"}]
    /\ n \in Nat
    /\ \A i \in DOMAIN hs : i \in Nat /\ i < n /\ hs[i] \in Handles /\ k[hs[i]] = "out"
    /\ \A h \in Handles : k[h] = "out" => \E i \in DOMAIN hs : hs[i] = h
    /\ \A i, j \in DOMAIN hs : hs[i] = hs[j] => i = j

IInv == helper = "running" => Owed(kernel, handles, nextId)

-----------------------------------------------------------------------------
(* The ways the map and the kernel change. *)

\* A handle the map does not name changes between idle and queued.
LEMMA Unfetched ==
  ASSUME NEW k, NEW hs, NEW n, Owed(k, hs, n),
         NEW h \in Handles, k[h] # "out", NEW s \in {"idle", "queued"}
  PROVE  Owed([k EXCEPT ![h] = s], hs, n)
<1>1. \A g \in Handles : [k EXCEPT ![h] = s][g] = IF g = h THEN s ELSE k[g]
  BY DEF Owed
<1>2. [k EXCEPT ![h] = s] \in [Handles -> {"idle", "queued", "out"}]
  BY Zenon DEF Owed
<1> QED
  BY <1>1, <1>2 DEF Owed

\* A queued handle is fetched under the next id.
LEMMA Fetched ==
  ASSUME NEW k, NEW hs, NEW n, Owed(k, hs, n), NEW h \in Handles, k[h] = "queued"
  PROVE  Owed([k EXCEPT ![h] = "out"],
              [i \in DOMAIN hs \cup {n} |-> IF i = n THEN h ELSE hs[i]], n + 1)
<1> DEFINE k2 == [k EXCEPT ![h] = "out"]
           h2 == [i \in DOMAIN hs \cup {n} |-> IF i = n THEN h ELSE hs[i]]
<1>1. /\ k2 \in [Handles -> {"idle", "queued", "out"}]
      /\ \A g \in Handles : k2[g] = IF g = h THEN "out" ELSE k[g]
  BY DEF Owed
<1>2. n \in Nat /\ n \notin DOMAIN hs
  BY DEF Owed
<1>3. /\ DOMAIN h2 = DOMAIN hs \cup {n}
      /\ h2[n] = h
      /\ \A i \in DOMAIN hs : h2[i] = hs[i]
  BY <1>2
<1> HIDE DEF k2, h2
<1>4. \A i \in DOMAIN hs : i \in Nat /\ i < n /\ hs[i] \in Handles /\ hs[i] # h /\ k[hs[i]] = "out"
  BY DEF Owed
<1>5. \A i \in DOMAIN h2 : i \in Nat /\ i < n + 1 /\ h2[i] \in Handles /\ k2[h2[i]] = "out"
  BY <1>1, <1>2, <1>3, <1>4
<1>6. \A g \in Handles : k2[g] = "out" => \E i \in DOMAIN h2 : h2[i] = g
  <2> SUFFICES ASSUME NEW g \in Handles, k2[g] = "out", g # h
               PROVE  \E i \in DOMAIN h2 : h2[i] = g
    BY <1>3
  <2>1. PICK i \in DOMAIN hs : hs[i] = g
    BY <1>1 DEF Owed
  <2> QED
    BY <2>1, <1>3
<1>7. \A i, j \in DOMAIN h2 : h2[i] = h2[j] => i = j
  BY <1>3, <1>4 DEF Owed
<1> QED
  BY <1>1, <1>2, <1>5, <1>6, <1>7 DEF Owed, k2, h2

\* A fetched handle is given back and its id leaves the map.
LEMMA GivenBack ==
  ASSUME NEW k, NEW hs, NEW n, Owed(k, hs, n), NEW id \in DOMAIN hs
  PROVE  Owed([k EXCEPT ![hs[id]] = "idle"], Restrict(hs, DOMAIN hs \ {id}), n)
<1> DEFINE k2 == [k EXCEPT ![hs[id]] = "idle"]
           h2 == Restrict(hs, DOMAIN hs \ {id})
<1>1. /\ k2 \in [Handles -> {"idle", "queued", "out"}]
      /\ \A g \in Handles : k2[g] = IF g = hs[id] THEN "idle" ELSE k[g]
  BY DEF Owed
<1>2. DOMAIN h2 = DOMAIN hs \ {id} /\ \A i \in DOMAIN h2 : h2[i] = hs[i]
  BY DEF Restrict
<1> HIDE DEF k2, h2
<1>3. \A i \in DOMAIN h2 : i \in Nat /\ i < n /\ h2[i] \in Handles /\ k2[h2[i]] = "out"
  BY <1>1, <1>2 DEF Owed
<1>4. \A g \in Handles : k2[g] = "out" => \E i \in DOMAIN h2 : h2[i] = g
  <2> SUFFICES ASSUME NEW g \in Handles, k2[g] = "out"
               PROVE  \E i \in DOMAIN h2 : h2[i] = g
    OBVIOUS
  <2>1. g # hs[id] /\ k[g] = "out"
    BY <1>1
  <2>2. PICK i \in DOMAIN hs : hs[i] = g
    BY <2>1 DEF Owed
  <2> QED
    BY <2>1, <2>2, <1>2
<1>5. \A i, j \in DOMAIN h2 : h2[i] = h2[j] => i = j
  BY <1>2 DEF Owed
<1> QED
  BY Zenon, <1>1, <1>3, <1>4, <1>5 DEF Owed, k2, h2

-----------------------------------------------------------------------------
(* The steps. *)

\* A helper that ends owes nothing: it never runs again.
LEMMA EndedOwesNothing ==
  ASSUME NEW why, why # "running", HelperEnds(why)
  PROVE  IInv'
BY DEF HelperEnds, IInv

\* The dispatcher leaves its loop, which ends the helper.
LEMMA SessionEndOwesNothing ==
  ASSUME NEW why, SessionEnds(why)
  PROVE  IInv'
BY DEF SessionEnds, HelperEnds, IInv

\* Every step keeps what the helper owes.
LEMMA StepOwes ==
  ASSUME IInv, [Next]_vars
  PROVE  IInv'
<1>1. CASE UNCHANGED <<helper, kernel, handles, nextId>>
  BY <1>1 DEF IInv, Owed
<1>2. CASE UNCHANGED vars
  BY <1>1, <1>2 DEF vars, hostVars
<1>3. ASSUME NEW h \in Handles, KernelSubmit(h)
      PROVE  IInv'
  BY Zenon, <1>3, Unfetched DEF KernelSubmit, IInv
<1>4. ASSUME NEW h \in Handles, KernelUnlink(h)
      PROVE  IInv'
  <2>1. CASE kernel[h] = "queued"
    <3>1. /\ helper = "running" /\ UNCHANGED <<helper, handles, nextId>>
          /\ kernel' = [kernel EXCEPT ![h] = "idle"]
      BY <1>4, <2>1 DEF KernelUnlink
    <3>2. Owed([kernel EXCEPT ![h] = "idle"], handles, nextId)
      BY Zenon, <3>1, <2>1, Unfetched DEF IInv
    <3> QED
      BY <3>1, <3>2 DEF IInv
  <2>2. CASE kernel[h] # "queued"
    BY <1>1, <1>4, <2>2 DEF KernelUnlink
  <2> QED
    BY <2>1, <2>2
<1>5. ASSUME NEW h \in Handles, HelperCancel(h)
      PROVE  IInv'
  <2> DEFINE id == CHOOSE i \in DOMAIN handles : handles[i] = h
  <2>1. helper = "running" /\ h \in Range(handles) /\ UNCHANGED nextId
    BY Zenon, <1>5 DEF HelperCancel, HelperCancelWith
  <2>2. id \in DOMAIN handles /\ handles[id] = h
    BY <2>1 DEF Range
  <2>3. CASE HelperEnds("tombstone limit")
    BY Zenon, <2>3, EndedOwesNothing
  <2>4. CASE /\ handles' = Restrict(handles, (DOMAIN handles \ {id}) \cup {})
             /\ Giveback(h) /\ UNCHANGED helper
    <3>1. handles' = Restrict(handles, DOMAIN handles \ {id})
      BY <2>4
    <3> HIDE DEF id
    <3>2. Owed([kernel EXCEPT ![handles[id]] = "idle"], Restrict(handles, DOMAIN handles \ {id}), nextId)
      BY <2>1, <2>2, GivenBack DEF IInv
    <3> QED
      BY Zenon, <3>1, <3>2, <2>1, <2>2, <2>4 DEF Giveback, IInv
  <2> QED
    BY Zenon, <1>5, <2>3, <2>4 DEF HelperCancel, HelperCancelWith
<1>6. ASSUME NEW h \in Handles, HelperSubmit(h)
      PROVE  IInv'
  <2>1. CASE HelperEnds("in-flight limit")
    BY Zenon, <2>1, EndedOwesNothing
  <2>2. CASE ~HelperEnds("in-flight limit")
    <3>1. /\ helper = "running" /\ kernel[h] = "queued" /\ nextId' = nextId + 1 /\ UNCHANGED helper
          /\ handles' = [i \in DOMAIN handles \cup {nextId} |-> IF i = nextId THEN h ELSE handles[i]]
          /\ kernel' = [kernel EXCEPT ![h] = "out"]
      BY Zenon, <1>6, <2>2 DEF HelperSubmit
    <3>2. Owed([kernel EXCEPT ![h] = "out"],
               [i \in DOMAIN handles \cup {nextId} |-> IF i = nextId THEN h ELSE handles[i]], nextId + 1)
      BY Zenon, <3>1, Fetched DEF IInv
    <3> QED
      BY <3>1, <3>2 DEF IInv
  <2> QED
    BY Zenon, <2>1, <2>2
<1>7. ASSUME HelperCompletion
      PROVE  IInv'
  <2> DEFINE id == Head(hin)
  <2>1. CASE HelperEnds("unknown URB")
    BY Zenon, <2>1, EndedOwesNothing
  <2>2. CASE UNCHANGED <<helper, kernel, handles>>
    BY Zenon, <1>1, <1>7, <2>2 DEF HelperCompletion
  <2>3. CASE id \in DOMAIN handles /\ handles' = Forget(handles, id) /\ Giveback(handles[id])
             /\ UNCHANGED helper
    <3>1. helper = "running" /\ UNCHANGED nextId
      BY Zenon, <1>7 DEF HelperCompletion
    <3> HIDE DEF id
    <3> QED
      BY Zenon, <2>3, <3>1, GivenBack DEF Forget, Giveback, IInv
  <2> QED
    BY Zenon, <1>7, <2>1, <2>2, <2>3 DEF HelperCompletion
<1>8. ASSUME \E why : SessionEnds(why)
      PROVE  IInv'
  BY <1>8, SessionEndOwesNothing
<1>9. ASSUME PierForward \/ PierCompletion \/ DeckFrame \/ PierSeesHelperEnd
      PROVE  IInv'
  BY Zenon, <1>1, <1>8, <1>9
     DEF PierForward, PierCompletion, DeckFrame, PierSeesHelperEnd, Submit, Cancel, hostVars
<1>10. ASSUME NEW d, NEW u, PierUnavailable(d, u)
       PROVE  IInv'
  BY <1>10 DEF PierUnavailable, HelperEnds, IInv
<1>11. ASSUME \/ \E d \in 0 .. Len(down), u \in 0 .. Len(up) : LaneReset(d, u) \/ DeckDisabled(d, u)
              \/ \E w \in workers : Report(w) \/ Expire(w)
              \/ Pump \/ DeckNotice \/ MacStops \/ MacReleases
       PROVE  IInv'
  <2>1. UNCHANGED hostVars
    BY <1>11 DEF LaneReset, DeckDisabled, Report, Expire, WorkerEnds, Pump, DeckNotice,
       MacStops, MacStopsWith, MacReleases
  <2> QED
    BY Zenon, <1>1, <2>1 DEF hostVars
<1> QED
  BY Zenon, <1>2, <1>3, <1>4, <1>5, <1>6, <1>7, <1>9, <1>10, <1>11 DEF Next

\* run_bridge owes every fetched URB to the kernel under exactly one id, so no
\* completion, stale or late, is ever given back in place of another request:
\* for any URBs and limits, over any loss, reset or stop of the bulk lane.
THEOREM OwedOnceCorrect == Spec => []OwedOnce
<1>1. Init => IInv
  <2> SUFFICES ASSUME Init
               PROVE  Owed(kernel, handles, nextId)
    BY DEF IInv
  <2>1. DOMAIN handles = {}
    BY DEF Init
  <2>2. kernel \in [Handles -> {"idle", "queued", "out"}] /\ \A h \in Handles : kernel[h] = "idle"
    BY DEF Init
  <2>3. nextId \in Nat
    BY DEF Init
  <2> QED
    BY <2>1, <2>2, <2>3 DEF Owed
<1>2. IInv => OwedOnce
  <2> SUFFICES ASSUME Owed(kernel, handles, nextId)
               PROVE  /\ Range(handles) = {h \in Handles : kernel[h] = "out"}
                      /\ IsInjective(handles)
    BY DEF IInv, OwedOnce
  <2>1. Range(handles) = {h \in Handles : kernel[h] = "out"}
    BY DEF Owed, Range
  <2>2. IsInjective(handles)
    BY DEF Owed, IsInjective
  <2> QED
    BY <2>1, <2>2
<1> QED
  BY <1>1, <1>2, StepOwes, PTL DEF Spec

-----------------------------------------------------------------------------
(* The session lanes: what an end knows of the lanes it opens, and which     *)
(* lane it reads.                                                            *)

\* The values of a registry slot, a stream and an accepting worker.
Slots == [state : {"absent", "open", "recovering", "disabled"}, highest : Nat, fails : Nat]
Streams == [preface : {"none", "sent", "read"}, sent : Nat, got : Nat, torn : SUBSET Ends]
Readers == [at : {"wait", "read", "stopped"}, gen : Nat, code : {"none", "failed", "superseded"}, chain : Nat]

\* The types of the lanes' variables.
LaneTypes ==
    /\ phase \in [Ends -> {"awaiting", "unauthorized", "authorized", "ended"}]
    /\ slot \in [Ends -> [Roles -> Slots]]
    /\ wire \in [Roles -> [Gens -> Streams]]
    /\ opener \in [Roles -> {"open", "opening", "run", "stopped"}]
    /\ accept \in [Roles -> Readers]
    /\ due \in [Roles -> [gen : Nat, owes : BOOLEAN]]
    /\ cut \in [Ends -> [Roles -> SUBSET Gens]]

\* The worker that opens a role's lanes, the only one to write them, knows the
\* state of the role's slot, and reports at most the lane it runs.
OpenerKnows(r) ==
    /\ cut[Acceptor(r)][r] = {}
    /\ phase[Opener(r)] # "ended" =>
         /\ opener[r] = "open" => slot[Opener(r)][r].state \in {"absent", "recovering"}
         /\ opener[r] \in {"opening", "run"} => slot[Opener(r)][r].state = "open"
         /\ opener[r] = "stopped" => slot[Opener(r)][r].state = "disabled"
         /\ \A g \in cut[Opener(r)][r] : opener[r] = "run" /\ g = Current(r)

\* The lanes that delivered a frame are no newer than g.
ReadUpTo(r, g) == \A h \in Gens : wire[r][h].got > 0 => h <= g

\* End e has not been told that the attachment is granted.
Unauthorized(e) == phase[e] \in {"awaiting", "unauthorized"}

\* The accepting end reads the newest lane it admitted, or an older one until it
\* takes that one; before it is authorized it reads nothing.
ReadsNewest(r) ==
    LET e == Acceptor(r) IN
    /\ ReadUpTo(r, slot[e][r].highest)
    /\ Unauthorized(e) => /\ accept[r].at = "wait" /\ ReadUpTo(r, 0)
                          /\ e = "pier" => due[r] = None
    /\ due[r] # None => /\ due[r].gen \in Gens /\ ReadUpTo(r, due[r].gen)
                        /\ phase[e] = "authorized" => due[r].gen <= slot[e][r].highest
    /\ accept[r].at = "read" => /\ accept[r].gen \in Gens /\ ReadUpTo(r, accept[r].gen)
                                /\ accept[r].gen <= slot[e][r].highest
                                /\ due[r] # None => accept[r].gen <= due[r].gen

\* The lanes' inductive invariant.
LaneIInv ==
    /\ LaneTypes
    /\ \A r \in Roles : ReadsNewest(r) /\ (~Bidirectional(r) => OpenerKnows(r))

-----------------------------------------------------------------------------
(* Shapes of the changes. *)

\* The two ends of a role.
LEMMA TwoEnds ==
  ASSUME NEW r
  PROVE  /\ Opener(r) \in Ends /\ Acceptor(r) \in Ends /\ Acceptor(r) # Opener(r)
         /\ \A e \in Ends : e = Opener(r) \/ e = Acceptor(r)
         /\ Other(Opener(r)) = Acceptor(r)
<1>1. Other("deck") = "pier" /\ Other("pier") = "deck"
  BY DEF Other, Ends
<1> QED
  BY <1>1 DEF Opener, Acceptor, Ends

\* Generations are positive numbers.
LEMMA GensAreNumbers == \A g \in Gens : g \in Nat /\ g > 0
  BY MaxGenAssumption DEF Gens

\* A stream's marks change.
LEMMA StreamMarked ==
  ASSUME NEW s \in Streams, NEW T \in SUBSET Ends
  PROVE  [s EXCEPT !.torn = T] \in Streams /\ [s EXCEPT !.torn = T].got = s.got
  BY Zenon DEF Streams

\* Tearing lanes down changes their marks only.
LEMMA TornKeeps ==
  ASSUME wire \in [Roles -> [Gens -> Streams]], NEW e \in Ends, NEW r \in Roles, NEW gens
  PROVE  /\ TornBy(e, r, gens) \in [Gens -> Streams]
         /\ \A h \in Gens : TornBy(e, r, gens)[h].got = wire[r][h].got
<1>1. ASSUME NEW h \in Gens
      PROVE  /\ wire[r][h] \in Streams
             /\ [wire[r][h] EXCEPT !.torn = @ \cup {e}] \in Streams
             /\ [wire[r][h] EXCEPT !.torn = @ \cup {e}].got = wire[r][h].got
  <2>1. wire[r][h] \in Streams
    OBVIOUS
  <2>2. wire[r][h].torn \cup {e} \in SUBSET Ends
    BY <2>1 DEF Streams
  <2> QED
    BY Zenon, <2>1, <2>2, StreamMarked
<1> QED
  BY <1>1 DEF TornBy

\* So does a failure, whatever follows it.
LEMMA FailureKeeps ==
  ASSUME wire \in [Roles -> [Gens -> Streams]], NEW e \in Ends, NEW r \in Roles, NEW g, NEW v
  PROVE  /\ TornAfter(e, r, g, v) \in [Roles -> [Gens -> Streams]]
         /\ \A q \in Roles : \A h \in Gens : TornAfter(e, r, g, v)[q][h].got = wire[q][h].got
<1>1. ASSUME NEW q \in Roles
      PROVE  /\ TornAfter(e, r, g, v)[q] \in [Gens -> Streams]
             /\ \A h \in Gens : TornAfter(e, r, g, v)[q][h].got = wire[q][h].got
  <2>1. TornAfter(e, r, g, v)[q] = IF v = "end" THEN TornBy(e, q, HeldBy(e, q))
                                   ELSE IF q = r THEN TornBy(e, r, {g}) ELSE wire[q]
    BY Zenon DEF TornAfter
  <2>2. wire[q] \in [Gens -> Streams]
    BY Zenon
  <2>3. /\ TornBy(e, q, HeldBy(e, q)) \in [Gens -> Streams]
        /\ \A h \in Gens : TornBy(e, q, HeldBy(e, q))[h].got = wire[q][h].got
    BY Zenon, TornKeeps
  <2>4. /\ TornBy(e, r, {g}) \in [Gens -> Streams]
        /\ \A h \in Gens : TornBy(e, r, {g})[h].got = wire[r][h].got
    BY Zenon, TornKeeps
  <2>5. CASE v = "end"
    BY Zenon, <2>1, <2>3, <2>5
  <2>6. CASE v # "end" /\ q = r
    BY Zenon, <2>1, <2>4, <2>6
  <2>7. CASE v # "end" /\ q # r
    BY Zenon, <2>1, <2>2, <2>7
  <2> QED
    BY Zenon, <2>5, <2>6, <2>7
<1>2. TornAfter(e, r, g, v) = [q \in Roles |-> TornAfter(e, r, g, v)[q]]
  BY Zenon DEF TornAfter
<1> QED
  BY Zenon, <1>1, <1>2

\* What a report does: it ends the attachment at most, keeps the generations,
\* and changes no slot but that of the lane it is about.
LEMMA ReportKeeps ==
  ASSUME LaneTypes, NEW e \in Ends, NEW r \in Roles, NEW g, NEW fails \in Nat,
         ReportedAt(e, r, g, fails)
  PROVE  /\ slot' \in [Ends -> [Roles -> Slots]]
         /\ phase' \in [Ends -> {"awaiting", "unauthorized", "authorized", "ended"}]
         /\ due' \in [Roles -> [gen : Nat, owes : BOOLEAN]]
         /\ \A f \in Ends : \A q \in Roles :
               /\ slot'[f][q].highest = slot[f][q].highest
               /\ ~(f = e /\ q = r) => slot'[f][q] = slot[f][q]
         /\ \A f \in Ends : phase'[f] \in {phase[f], "ended"}
         /\ \A q \in Roles : due'[q] \in {due[q], None}
         /\ Live(e, r, g) =>
               \/ VerdictAt(e, r, g, fails) = "reopen" /\ slot'[e][r].state = "recovering"
               \/ VerdictAt(e, r, g, fails) = "disable" /\ slot'[e][r].state = "disabled"
               \/ VerdictAt(e, r, g, fails) = "end" /\ phase'[e] = "ended"
<1>1. PICK v : v = VerdictAt(e, r, g, fails)
  BY Zenon
<1>2. /\ slot' = IF v = "superseded" THEN slot ELSE [slot EXCEPT ![e][r] = FailedSlot(e, r, v, fails)]
      /\ phase' = IF v = "end" THEN [phase EXCEPT ![e] = "ended"] ELSE phase
      /\ due' = [q \in Roles |-> IF v = "end" /\ Acceptor(q) = e THEN None ELSE due[q]]
  BY Zenon, <1>1 DEF ReportedAt
<1>3. /\ FailedSlot(e, r, v, fails) \in Slots
      /\ FailedSlot(e, r, v, fails).highest = slot[e][r].highest
      /\ FailedSlot(e, r, v, fails).state = IF v = "disable" THEN "disabled" ELSE "recovering"
  <2>1. slot[e][r] \in Slots
    BY DEF LaneTypes
  <2>2. fails + 1 \in Nat
    OBVIOUS
  <2>3. (IF v = "disable" THEN "disabled" ELSE "recovering") \in {"absent", "open", "recovering", "disabled"}
    OBVIOUS
  <2> QED
    <3>1. PICK x \in {"absent", "open", "recovering", "disabled"} :
             x = IF v = "disable" THEN "disabled" ELSE "recovering"
      BY <2>3
    <3>2. PICK s \in Slots : s = slot[e][r]
      BY Zenon, <2>1
    <3>3. PICK t : t = FailedSlot(e, r, v, fails)
      BY Zenon
    <3>4. t = [s EXCEPT !.state = x, !.fails = fails + 1]
      BY Zenon, <3>1, <3>2, <3>3 DEF FailedSlot
    <3>5. t \in Slots /\ t.highest = s.highest /\ t.state = x
      BY Zenon, <2>2, <3>4 DEF Slots
    <3> QED
      BY Zenon, <3>1, <3>2, <3>3, <3>5
<1>4. /\ slot' \in [Ends -> [Roles -> Slots]]
      /\ \A f \in Ends : \A q \in Roles :
            /\ slot'[f][q].highest = slot[f][q].highest
            /\ ~(f = e /\ q = r) => slot'[f][q] = slot[f][q]
      /\ v # "superseded" => slot'[e][r].state = IF v = "disable" THEN "disabled" ELSE "recovering"
  <2>1. slot \in [Ends -> [Roles -> Slots]]
    BY Zenon DEF LaneTypes
  <2>2. CASE v = "superseded"
    BY Zenon, <1>2, <2>1, <2>2
  <2>3. CASE v # "superseded"
    <3>1. PICK s : s = FailedSlot(e, r, v, fails)
      BY Zenon
    <3>2. slot' = [slot EXCEPT ![e][r] = s] /\ s \in Slots
      BY Zenon, <1>2, <1>3, <2>3, <3>1
    <3>3. /\ slot' \in [Ends -> [Roles -> Slots]] /\ slot'[e][r] = s
          /\ \A f \in Ends : \A q \in Roles : ~(f = e /\ q = r) => slot'[f][q] = slot[f][q]
      BY Zenon, <2>1, <3>2
    <3> QED
      <4> SUFFICES ASSUME NEW f \in Ends, NEW q \in Roles
                   PROVE  slot'[f][q].highest = slot[f][q].highest
        BY Zenon, <1>3, <3>1, <3>3
      <4>1. CASE f = e /\ q = r
        BY Zenon, <1>3, <3>1, <3>3, <4>1
      <4>2. CASE ~(f = e /\ q = r)
        BY Zenon, <3>3, <4>2
      <4> QED
        BY Zenon, <4>1, <4>2
  <2> QED
    BY Zenon, <2>2, <2>3
<1>5. /\ phase' \in [Ends -> {"awaiting", "unauthorized", "authorized", "ended"}]
      /\ \A f \in Ends : phase'[f] \in {phase[f], "ended"}
      /\ v = "end" => phase'[e] = "ended"
  BY <1>2 DEF LaneTypes
<1>6. /\ due' \in [Roles -> [gen : Nat, owes : BOOLEAN]]
      /\ \A q \in Roles : due'[q] \in {due[q], None}
  <2>1. None \in [gen : Nat, owes : BOOLEAN]
    BY DEF None
  <2> QED
    BY Zenon, <1>2, <2>1 DEF LaneTypes
<1>7. Live(e, r, g) => v \in {"reopen", "end", "disable"}
  BY <1>1 DEF VerdictAt, Exhausted
<1> QED
  BY Zenon, <1>1, <1>4, <1>5, <1>6, <1>7

\* One stream changes, and delivers nothing.
LEMMA StreamChanged ==
  ASSUME wire \in [Roles -> [Gens -> Streams]], NEW r \in Roles, NEW g, NEW t,
         g \in Gens => t \in Streams /\ t.got = wire[r][g].got, wire' = [wire EXCEPT ![r][g] = t]
  PROVE  /\ wire' \in [Roles -> [Gens -> Streams]]
         /\ \A q \in Roles : \A h \in Gens : wire'[q][h].got = wire[q][h].got
<1>1. wire' \in [Roles -> [Gens -> Streams]]
  BY Zenon
<1>2. ASSUME NEW q \in Roles, NEW h \in Gens  PROVE wire'[q][h].got = wire[q][h].got
  <2>1. wire'[q][h] = IF q = r /\ h = g THEN t ELSE wire[q][h]
    OBVIOUS
  <2> QED
    BY Zenon, <2>1
<1> QED
  BY Zenon, <1>1, <1>2

\* A lane's good frame clears its count of failures, no more.
LEMMA HealthyKeeps ==
  ASSUME LaneTypes, NEW e \in Ends, NEW r \in Roles, NEW g, Healthy(e, r, g)
  PROVE  /\ slot' \in [Ends -> [Roles -> Slots]]
         /\ \A f \in Ends : \A q \in Roles :
               /\ slot'[f][q].highest = slot[f][q].highest /\ slot'[f][q].state = slot[f][q].state
               /\ ~(f = e /\ q = r) => slot'[f][q] = slot[f][q]
<1>1. slot \in [Ends -> [Roles -> Slots]]
  BY Zenon DEF LaneTypes
<1>2. CASE slot' = slot
  BY Zenon, <1>1, <1>2
<1>3. CASE slot' = [slot EXCEPT ![e][r].fails = 0]
  <2>1. PICK s \in Slots : s = slot[e][r]
    BY <1>1
  <2>2. PICK t : t = [s EXCEPT !.fails = 0]
    BY Zenon
  <2>3. t \in Slots /\ t.highest = s.highest /\ t.state = s.state
    <3>1. 0 \in Nat
      OBVIOUS
    <3> QED
      BY Zenon, <2>2, <3>1 DEF Slots
  <2>4. slot' = [slot EXCEPT ![e][r] = t]
    BY Zenon, <1>3, <2>1, <2>2
  <2>5. /\ slot' \in [Ends -> [Roles -> Slots]] /\ slot'[e][r] = t
        /\ \A f \in Ends : \A q \in Roles : ~(f = e /\ q = r) => slot'[f][q] = slot[f][q]
    BY <1>1, <2>3, <2>4
  <2> QED
    BY Zenon, <2>1, <2>3, <2>5
<1> QED
  BY Zenon, <1>2, <1>3 DEF Healthy

\* The step does nothing to what the accepting end of role r reads: at most it gets
\* its control lane, its attachment ends, a lane that awaited its owner is dropped,
\* or the reader leaves.
ReadsAsBefore(r) ==
    LET e == Acceptor(r) IN
    /\ \A h \in Gens : wire'[r][h].got = wire[r][h].got
    /\ slot'[e][r].highest = slot[e][r].highest
    /\ phase'[e] \in {phase[e], "ended"} \/ (phase[e] = "awaiting" /\ phase'[e] = "unauthorized")
    /\ due'[r] \in {due[r], None}
    /\ \/ accept'[r].at = accept[r].at /\ accept'[r].gen = accept[r].gen
       \/ accept'[r].at # "read" /\ (accept[r].at = "read" \/ phase[e] = "ended")

\* Such a step keeps the newest lane the one read.
LEMMA ReadsStays ==
  ASSUME NEW r \in Roles, ReadsNewest(r), ReadsAsBefore(r)
  PROVE  ReadsNewest(r)'
<1>1. PICK e : e = Acceptor(r)
  BY Zenon
<1>2. \A g : ReadUpTo(r, g) => \A h \in Gens : wire'[r][h].got > 0 => h <= g
  BY Zenon DEF ReadUpTo, ReadsAsBefore
<1>3. ReadUpTo(r, slot[e][r].highest)'
  <2>1. ReadUpTo(r, slot[e][r].highest) /\ slot'[e][r].highest = slot[e][r].highest
    BY Zenon, <1>1 DEF ReadsNewest, ReadsAsBefore
  <2> QED
    BY Zenon, <1>2, <2>1 DEF ReadUpTo
<1>4. ASSUME Unauthorized(e)'
      PROVE  accept'[r].at = "wait" /\ ReadUpTo(r, 0)' /\ (e = "pier" => due'[r] = None)
  <2>1. Unauthorized(e) /\ phase[e] # "ended"
    BY <1>1, <1>4 DEF Unauthorized, ReadsAsBefore
  <2>2. accept[r].at = "wait" /\ ReadUpTo(r, 0) /\ (e = "pier" => due[r] = None)
    BY Zenon, <1>1, <2>1 DEF ReadsNewest
  <2>3. ReadUpTo(r, 0)'
    BY Zenon, <1>2, <2>2 DEF ReadUpTo
  <2>4. accept'[r].at = "wait"
    BY Zenon, <1>1, <2>1, <2>2 DEF ReadsAsBefore
  <2> QED
    BY Zenon, <2>2, <2>3, <2>4 DEF ReadsAsBefore
<1>5. ASSUME due'[r] # None
      PROVE  /\ due'[r].gen \in Gens /\ ReadUpTo(r, due[r].gen)'
             /\ phase'[e] = "authorized" => due'[r].gen <= slot'[e][r].highest
  <2>1. due'[r] = due[r]
    BY Zenon, <1>5 DEF ReadsAsBefore
  <2>2. /\ due[r].gen \in Gens /\ ReadUpTo(r, due[r].gen)
        /\ phase[e] = "authorized" => due[r].gen <= slot[e][r].highest
    BY Zenon, <1>1, <1>5, <2>1 DEF ReadsNewest
  <2>3. phase'[e] = "authorized" => phase[e] = "authorized"
    BY <1>1 DEF ReadsAsBefore
  <2>4. slot'[e][r].highest = slot[e][r].highest
    BY Zenon, <1>1 DEF ReadsAsBefore
  <2> QED
    BY Zenon, <1>2, <2>1, <2>2, <2>3, <2>4 DEF ReadUpTo
<1>6. ASSUME accept'[r].at = "read"
      PROVE  /\ accept'[r].gen \in Gens /\ ReadUpTo(r, accept[r].gen)'
             /\ accept'[r].gen <= slot'[e][r].highest
             /\ due'[r] # None => accept'[r].gen <= due'[r].gen
  <2>1. accept[r].at = "read" /\ accept'[r].gen = accept[r].gen
    BY Zenon, <1>6 DEF ReadsAsBefore
  <2>2. /\ accept[r].gen \in Gens /\ ReadUpTo(r, accept[r].gen)
        /\ accept[r].gen <= slot[e][r].highest
        /\ due[r] # None => accept[r].gen <= due[r].gen
    BY Zenon, <1>1, <2>1 DEF ReadsNewest
  <2>3. slot'[e][r].highest = slot[e][r].highest
    BY Zenon, <1>1 DEF ReadsAsBefore
  <2>4. due'[r] # None => due'[r] = due[r]
    BY Zenon DEF ReadsAsBefore
  <2> QED
    BY Zenon, <1>2, <2>1, <2>2, <2>3, <2>4 DEF ReadUpTo
<1> QED
  BY Zenon, <1>1, <1>3, <1>4, <1>5, <1>6 DEF ReadsNewest

\* The step does nothing to what the opener of role r knows: at most its
\* attachment ends.
KnowsAsBefore(r) ==
    /\ phase'[Opener(r)] = "ended" \/ phase[Opener(r)] # "ended"
    /\ slot'[Opener(r)][r].state = slot[Opener(r)][r].state
    /\ slot'[Opener(r)][r].highest = slot[Opener(r)][r].highest
    /\ opener'[r] = opener[r]
    /\ \A e \in Ends : cut'[e][r] = cut[e][r]

\* Such a step keeps it.
LEMMA KnowsStays ==
  ASSUME NEW r \in Roles, OpenerKnows(r), KnowsAsBefore(r)
  PROVE  OpenerKnows(r)'
<1>1. cut'[Acceptor(r)][r] = cut[Acceptor(r)][r] /\ cut'[Opener(r)][r] = cut[Opener(r)][r]
  BY Zenon, TwoEnds DEF KnowsAsBefore
<1> QED
  BY Zenon, <1>1 DEF OpenerKnows, KnowsAsBefore, Current

\* A step that keeps the types keeps the invariant when it changes nothing that
\* matters to a role, or keeps the role's part of it.
LEMMA LaneStep ==
  ASSUME LaneIInv, LaneTypes',
         \A q \in Roles : ReadsAsBefore(q) \/ ReadsNewest(q)',
         \A q \in Roles : ~Bidirectional(q) => KnowsAsBefore(q) \/ OpenerKnows(q)'
  PROVE  LaneIInv'
<1>1. ASSUME NEW q \in Roles  PROVE ReadsNewest(q)'
  BY Zenon, ReadsStays DEF LaneIInv
<1>2. ASSUME NEW q \in Roles, ~Bidirectional(q)  PROVE OpenerKnows(q)'
  BY Zenon, <1>2, KnowsStays DEF LaneIInv
<1> QED
  BY Zenon, <1>1, <1>2 DEF LaneIInv

-----------------------------------------------------------------------------
(* The connection's steps. *)

\* The control lane is opened or admitted.
LEMMA ControlKeeps ==
  ASSUME LaneIInv, DeckOpensControl \/ PierAdmitsControl
  PROVE  LaneIInv'
<1>1. PICK e \in Ends : phase[e] = "awaiting" /\ phase' = [phase EXCEPT ![e] = "unauthorized"]
  BY DEF DeckOpensControl, PierAdmitsControl, Ends
<1>2. UNCHANGED <<slot, wire, opener, accept, due, cut>>
  BY Zenon DEF DeckOpensControl, PierAdmitsControl
<1>3. /\ phase' \in [Ends -> {"awaiting", "unauthorized", "authorized", "ended"}]
      /\ \A f \in Ends : phase'[f] = phase[f] \/ (phase[f] = "awaiting" /\ phase'[f] = "unauthorized")
  BY <1>1 DEF LaneIInv, LaneTypes
<1>4. LaneTypes'
  BY Zenon, <1>2, <1>3 DEF LaneIInv, LaneTypes
<1>5. ASSUME NEW q \in Roles  PROVE ReadsAsBefore(q)
  BY Zenon, <1>2, <1>3, TwoEnds DEF ReadsAsBefore
<1>6. ASSUME NEW q \in Roles  PROVE KnowsAsBefore(q)
  <2>1. Opener(q) \in Ends
    BY Zenon, TwoEnds
  <2>2. phase'[Opener(q)] = "ended" \/ phase[Opener(q)] # "ended"
    BY Zenon, <1>3, <2>1
  <2> QED
    BY Zenon, <1>2, <2>2 DEF KnowsAsBefore
<1> QED
  BY Zenon, <1>4, <1>5, <1>6, LaneStep

\* The Pier authorizes the attachment: it has admitted no lane yet.
LEMMA GrantKeeps ==
  ASSUME LaneIInv, GrantAttachment
  PROVE  LaneIInv'
<1>1. /\ phase["pier"] = "unauthorized" /\ phase' = [phase EXCEPT !["pier"] = "authorized"]
      /\ UNCHANGED <<slot, wire, opener, accept, due, cut>>
  BY Zenon DEF GrantAttachment
<1>2. /\ phase' \in [Ends -> {"awaiting", "unauthorized", "authorized", "ended"}]
      /\ phase'["pier"] = "authorized" /\ \A f \in Ends : f # "pier" => phase'[f] = phase[f]
  BY <1>1 DEF LaneIInv, LaneTypes, Ends
<1>3. LaneTypes'
  BY Zenon, <1>1, <1>2 DEF LaneIInv, LaneTypes
<1>4. ASSUME NEW q \in Roles, Acceptor(q) = "pier"  PROVE ReadsNewest(q)'
  <2>1. /\ accept[q].at = "wait" /\ ReadUpTo(q, slot["pier"][q].highest) /\ due[q] = None
        /\ Unauthorized("pier")
    BY Zenon, <1>1, <1>4 DEF ReadsNewest, LaneIInv, Unauthorized
  <2>2. accept'[q].at # "read" /\ due'[q] = None /\ ReadUpTo(q, slot["pier"][q].highest)'
    BY Zenon, <1>1, <2>1 DEF ReadUpTo
  <2>3. ~Unauthorized("pier")'
    BY <1>2 DEF Unauthorized
  <2> QED
    BY Zenon, <1>4, <2>2, <2>3 DEF ReadsNewest
<1>5. ASSUME NEW q \in Roles, Acceptor(q) # "pier"  PROVE ReadsAsBefore(q)
  BY Zenon, <1>1, <1>2, <1>5, TwoEnds DEF ReadsAsBefore
<1>6. ASSUME NEW q \in Roles  PROVE KnowsAsBefore(q)
  <2>1. phase[Opener(q)] # "ended" \/ phase'[Opener(q)] = "ended"
    BY Zenon, <1>1, <1>2, TwoEnds
  <2> QED
    BY Zenon, <1>1, <2>1 DEF KnowsAsBefore
<1> QED
  BY Zenon, <1>3, <1>4, <1>5, <1>6, LaneStep

\* The Deck takes the grant: the lanes it held are the newest, and none was read.
LEMMA AcceptKeeps ==
  ASSUME LaneIInv, AcceptAttachment
  PROVE  LaneIInv'
<1>1. /\ phase["deck"] = "unauthorized" /\ phase' = [phase EXCEPT !["deck"] = "authorized"]
      /\ UNCHANGED <<wire, opener, accept, due, cut>>
      /\ slot' = [slot EXCEPT !["deck"] = [r \in Roles |->
                    IF Opener(r) = "pier" /\ due[r] # None
                    THEN [slot["deck"][r] EXCEPT !.state = "open", !.highest = due[r].gen]
                    ELSE slot["deck"][r]]]
  BY Zenon DEF AcceptAttachment
<1>2. /\ phase' \in [Ends -> {"awaiting", "unauthorized", "authorized", "ended"}]
      /\ phase'["deck"] = "authorized" /\ \A f \in Ends : f # "deck" => phase'[f] = phase[f]
  BY Zenon, <1>1 DEF LaneIInv, LaneTypes, Ends
<1>3. ASSUME NEW s \in Slots, NEW n \in Nat, NEW t, t = [s EXCEPT !.state = "open", !.highest = n]
      PROVE  t \in Slots /\ t.highest = n
  <2>1. "open" \in {"absent", "open", "recovering", "disabled"}
    OBVIOUS
  <2> QED
    BY Zenon, <1>3, <2>1 DEF Slots
<1>4. ASSUME NEW q \in Roles
      PROVE  /\ slot'["deck"][q] \in Slots /\ slot'["pier"] = slot["pier"]
             /\ Opener(q) = "deck" => slot'["deck"][q] = slot["deck"][q]
             /\ Opener(q) = "pier" /\ due[q] # None => slot'["deck"][q].highest = due[q].gen
  <2>1. PICK s \in Slots : s = slot["deck"][q]
    BY DEF LaneIInv, LaneTypes, Ends
  <2>2. PICK n \in Nat : n = due[q].gen
    BY DEF LaneIInv, LaneTypes
  <2>3. PICK t : t = [s EXCEPT !.state = "open", !.highest = n]
    BY Zenon
  <2>4. t \in Slots /\ t.highest = n
    BY Zenon, <1>3, <2>3
  <2>5. slot \in [Ends -> [Roles -> Slots]] /\ "deck" \in Ends /\ "pier" \in Ends /\ "deck" # "pier"
    BY DEF LaneIInv, LaneTypes, Ends
  <2>6. slot'["pier"] = slot["pier"] /\ slot'["deck"][q] = IF Opener(q) = "pier" /\ due[q] # None THEN t ELSE s
    BY Zenon, <1>1, <2>1, <2>2, <2>3, <2>5
  <2>7. CASE Opener(q) = "pier" /\ due[q] # None
    <3>1. slot'["deck"][q] = t
      BY Zenon, <2>6, <2>7
    <3>2. Opener(q) # "deck"
      BY Zenon, <2>5, <2>7
    <3> QED
      BY Zenon, <2>2, <2>4, <2>6, <3>1, <3>2
  <2>8. CASE ~(Opener(q) = "pier" /\ due[q] # None)
    <3>1. slot'["deck"][q] = s
      BY Zenon, <2>6, <2>8
    <3> QED
      BY Zenon, <2>1, <2>6, <2>8, <3>1
  <2> QED
    BY Zenon, <2>7, <2>8
<1>5. LaneTypes'
  <2>1. slot' \in [Ends -> [Roles -> Slots]]
    <3>1. slot \in [Ends -> [Roles -> Slots]]
      BY Zenon DEF LaneIInv, LaneTypes
    <3>2. PICK d : d = [r \in Roles |-> IF Opener(r) = "pier" /\ due[r] # None
                    THEN [slot["deck"][r] EXCEPT !.state = "open", !.highest = due[r].gen]
                    ELSE slot["deck"][r]]
      BY Zenon
    <3>3. slot' = [slot EXCEPT !["deck"] = d] /\ slot'["deck"] = d
      BY Zenon, <1>1, <3>1, <3>2 DEF Ends
    <3>4. d \in [Roles -> Slots]
      BY Zenon, <1>4, <3>2, <3>3
    <3> QED
      BY Zenon, <3>1, <3>3, <3>4
  <2> QED
    BY Zenon, <1>1, <1>2, <2>1 DEF LaneIInv, LaneTypes
<1>6. ASSUME NEW q \in Roles, Acceptor(q) = "deck"  PROVE ReadsNewest(q)'
  <2>1. /\ accept[q].at = "wait" /\ ReadUpTo(q, 0) /\ Unauthorized("deck")
        /\ due[q] # None => due[q].gen \in Gens
    BY Zenon, <1>1, <1>6 DEF ReadsNewest, LaneIInv, Unauthorized
  <2>2. \A h \in Gens : ~(wire'[q][h].got > 0)
    <3>1. \A h \in Gens : ~(h <= 0)
      BY GensAreNumbers
    <3> QED
      BY Zenon, <1>1, <2>1, <3>1 DEF ReadUpTo
  <2>3. due[q] # None => slot'["deck"][q].highest = due[q].gen /\ due[q].gen <= slot'["deck"][q].highest
    <3>1. Opener(q) = "pier"
      BY Zenon, <1>6, TwoEnds DEF Ends
    <3>2. due[q].gen <= due[q].gen
      BY SMTT(30) DEF LaneIInv, LaneTypes
    <3> QED
      BY Zenon, <1>4, <3>1, <3>2
  <2>4. accept'[q].at # "read" /\ due'[q] = due[q] /\ ~(Unauthorized("deck")')
    <3>1. accept'[q].at = "wait" /\ due'[q] = due[q]
      BY Zenon, <1>1, <2>1
    <3> QED
      BY <1>2, <3>1 DEF Unauthorized
  <2> QED
    BY Zenon, <1>6, <2>1, <2>2, <2>3, <2>4 DEF ReadsNewest, ReadUpTo
<1>7. ASSUME NEW q \in Roles, Acceptor(q) # "deck"  PROVE ReadsAsBefore(q)
  <2>1. Acceptor(q) = "pier" /\ "pier" \in Ends
    BY Zenon, <1>7, TwoEnds DEF Ends
  <2> QED
    BY Zenon, <1>1, <1>2, <1>4, <1>7, <2>1 DEF ReadsAsBefore
<1>8. ASSUME NEW q \in Roles  PROVE KnowsAsBefore(q)
  <2>1. phase[Opener(q)] # "ended" \/ phase'[Opener(q)] = "ended"
    BY Zenon, <1>1, <1>2, TwoEnds
  <2>2. slot'[Opener(q)][q] = slot[Opener(q)][q]
    BY Zenon, <1>4, TwoEnds DEF Opener
  <2> QED
    BY ZenonT(60), <1>1, <2>1, <2>2 DEF KnowsAsBefore
<1> QED
  BY Zenon, <1>5, <1>6, <1>7, <1>8, LaneStep

\* The attachment ends at one end.
LEMMA EndKeeps ==
  ASSUME LaneIInv, NEW e \in Ends, EndAttachment(e)
  PROVE  LaneIInv'
<1>1. /\ phase' = [phase EXCEPT ![e] = "ended"]
      /\ wire' = [r \in Roles |-> TornBy(e, r, HeldBy(e, r))]
      /\ due' = [r \in Roles |-> IF Acceptor(r) = e THEN None ELSE due[r]]
      /\ UNCHANGED <<slot, opener, accept, cut>>
  BY Zenon DEF EndAttachment
<1>2. /\ phase' \in [Ends -> {"awaiting", "unauthorized", "authorized", "ended"}]
      /\ \A f \in Ends : phase'[f] \in {phase[f], "ended"}
  BY <1>1 DEF LaneIInv, LaneTypes
<1>3. /\ wire' \in [Roles -> [Gens -> Streams]]
      /\ \A q \in Roles : \A h \in Gens : wire'[q][h].got = wire[q][h].got
  <2>1. wire \in [Roles -> [Gens -> Streams]]
    BY Zenon DEF LaneIInv, LaneTypes
  <2>2. \A q \in Roles : /\ TornBy(e, q, HeldBy(e, q)) \in [Gens -> Streams]
                         /\ \A h \in Gens : TornBy(e, q, HeldBy(e, q))[h].got = wire[q][h].got
    BY Zenon, <2>1, TornKeeps
  <2> QED
    BY Zenon, <1>1, <2>2
<1>4. due' \in [Roles -> [gen : Nat, owes : BOOLEAN]] /\ \A q \in Roles : due'[q] \in {due[q], None}
  <2>1. None \in [gen : Nat, owes : BOOLEAN]
    BY DEF None
  <2> QED
    BY Zenon, <1>1, <2>1 DEF LaneIInv, LaneTypes
<1>5. LaneTypes'
  BY Zenon, <1>1, <1>2, <1>3, <1>4 DEF LaneIInv, LaneTypes
<1>6. ASSUME NEW q \in Roles  PROVE ReadsAsBefore(q)
  BY Zenon, <1>1, <1>2, <1>3, <1>4, TwoEnds DEF ReadsAsBefore
<1>7. ASSUME NEW q \in Roles  PROVE KnowsAsBefore(q)
  <2>1. phase'[Opener(q)] = "ended" \/ phase[Opener(q)] # "ended"
    BY <1>2, TwoEnds
  <2> QED
    BY Zenon, <1>1, <2>1 DEF KnowsAsBefore
<1> QED
  BY Zenon, <1>5, <1>6, <1>7, LaneStep

\* The stream that opens delivers nothing yet.
LEMMA OpenStreamWire ==
  ASSUME LaneTypes, NEW r \in Roles, OpenStream(r)
  PROVE  /\ wire' \in [Roles -> [Gens -> Streams]]
         /\ \A q \in Roles : \A h \in Gens : wire'[q][h].got = wire[q][h].got
<1>1. PICK e \in Ends : e = Opener(r)
  BY Zenon, TwoEnds
<1>2. PICK T \in SUBSET Ends : T = IF phase[e] = "ended" THEN {e} ELSE {}
  BY Zenon
<1>3. PICK g : g = Current(r)
  BY Zenon
<1>4. wire' = [wire EXCEPT ![r][g].preface = "sent", ![r][g].torn = T]
  BY Zenon, <1>1, <1>2, <1>3 DEF OpenStream
<1>5. wire \in [Roles -> [Gens -> Streams]]
  BY Zenon DEF LaneTypes
<1>6. CASE g \in Gens
  <2>1. PICK s \in Streams : s = wire[r][g]
    BY <1>5, <1>6
  <2>2. PICK t : t = [s EXCEPT !.preface = "sent", !.torn = T]
    BY Zenon
  <2>3. t \in Streams /\ t.got = s.got
    <3>1. "sent" \in {"none", "sent", "read"}
      OBVIOUS
    <3> QED
      BY Zenon, <2>2, <3>1 DEF Streams
  <2>4. wire' = [wire EXCEPT ![r][g] = t]
    BY Zenon, <1>4, <1>5, <1>6, <2>1, <2>2 DEF Streams
  <2> QED
    BY Zenon, <1>5, <1>6, <2>1, <2>3, <2>4, StreamChanged
<1>7. CASE g \notin Gens
  <2>1. wire' \in [Roles -> [Gens -> Streams]] /\ \A q \in Roles : \A h \in Gens : wire'[q][h] = wire[q][h]
    BY Zenon, <1>4, <1>5, <1>7
  <2> QED
    BY Zenon, <2>1
<1> QED
  BY Zenon, <1>6, <1>7

\* A record that is written delivers nothing yet.
LEMMA WriteFrameWire ==
  ASSUME LaneTypes, NEW r \in Roles, WriteFrame(r)
  PROVE  /\ wire' \in [Roles -> [Gens -> Streams]]
         /\ \A q \in Roles : \A h \in Gens : wire'[q][h].got = wire[q][h].got
<1>1. PICK g : g = Current(r)
  BY Zenon
<1>2. wire' = [wire EXCEPT ![r][g].sent = @ + 1]
  BY Zenon, <1>1 DEF WriteFrame
<1>3. wire \in [Roles -> [Gens -> Streams]]
  BY Zenon DEF LaneTypes
<1>4. PICK s : s = wire[r][g]
  BY Zenon
<1>5. PICK n : n = s.sent + 1
  BY Zenon
<1>6. PICK t : t = [s EXCEPT !.sent = n]
  BY Zenon
<1>7. ASSUME g \in Gens  PROVE t \in Streams /\ t.got = wire[r][g].got
  <2>1. s \in Streams
    BY <1>3, <1>4, <1>7
  <2>2. n \in Nat
    BY <1>5, <2>1 DEF Streams
  <2> QED
    BY Zenon, <1>4, <1>6, <2>1, <2>2 DEF Streams
<1>8. wire' = [wire EXCEPT ![r][g] = t]
  BY Zenon, <1>2, <1>4, <1>5, <1>6
<1> QED
  BY Zenon, <1>3, <1>7, <1>8, StreamChanged

\* Nor does a stream that is found stopped.
LEMMA WriterStoppedWire ==
  ASSUME LaneTypes, NEW e \in Ends, NEW r \in Roles, NEW g \in Gens, WriterStopped(e, r, g)
  PROVE  /\ wire' \in [Roles -> [Gens -> Streams]]
         /\ \A q \in Roles : \A h \in Gens : wire'[q][h].got = wire[q][h].got
<1>1. wire' = [wire EXCEPT ![r][g].torn = @ \cup {e}]
  BY Zenon DEF WriterStopped
<1>2. wire \in [Roles -> [Gens -> Streams]]
  BY Zenon DEF LaneTypes
<1>3. PICK s \in Streams : s = wire[r][g]
  BY Zenon, <1>2
<1>4. PICK T \in SUBSET Ends : T = s.torn \cup {e}
  BY Zenon DEF Streams
<1>5. PICK t : t = [s EXCEPT !.torn = T]
  BY Zenon
<1>6. t \in Streams /\ t.got = s.got
  BY Zenon, <1>5, StreamMarked
<1>7. wire' = [wire EXCEPT ![r][g] = t]
  BY Zenon, <1>1, <1>3, <1>4, <1>5
<1> QED
  BY Zenon, <1>2, <1>3, <1>6, <1>7, StreamChanged

\* Lanes are torn down and one preface is read.
LEMMA AdmittedWire ==
  ASSUME LaneTypes, NEW e \in Ends, NEW r \in Roles, NEW g \in Gens, NEW gens,
         wire' = [wire EXCEPT ![r] = [TornBy(e, r, gens) EXCEPT ![g].preface = "read"]]
  PROVE  /\ wire' \in [Roles -> [Gens -> Streams]]
         /\ \A q \in Roles : \A h \in Gens : wire'[q][h].got = wire[q][h].got
<1>1. wire \in [Roles -> [Gens -> Streams]]
  BY Zenon DEF LaneTypes
<1>2. PICK W : W = TornBy(e, r, gens)
  BY Zenon
<1>3. W \in [Gens -> Streams] /\ \A h \in Gens : W[h].got = wire[r][h].got
  BY SMTT(30), <1>1, <1>2, TornKeeps
<1>4. PICK s \in Streams : s = W[g]
  BY Zenon, <1>3
<1>5. PICK t : t = [s EXCEPT !.preface = "read"]
  BY Zenon
<1>6. t \in Streams /\ t.got = s.got
  <2>1. "read" \in {"none", "sent", "read"}
    OBVIOUS
  <2> QED
    BY Zenon, <1>5, <2>1 DEF Streams
<1>7. PICK V : V = [W EXCEPT ![g] = t]
  BY Zenon
<1>8. V \in [Gens -> Streams] /\ \A h \in Gens : V[h].got = wire[r][h].got
  <2>1. V \in [Gens -> Streams] /\ \A h \in Gens : V[h] = IF h = g THEN t ELSE W[h]
    BY Zenon, <1>3, <1>6, <1>7
  <2>2. t.got = wire[r][g].got
    BY Zenon, <1>3, <1>4, <1>6
  <2> QED
    BY Zenon, <1>3, <2>1, <2>2
<1>9. wire' = [wire EXCEPT ![r] = V]
  BY Zenon, <1>2, <1>4, <1>5, <1>7
<1>10. wire' \in [Roles -> [Gens -> Streams]]
  BY Zenon, <1>1, <1>8, <1>9
<1>11. ASSUME NEW q \in Roles, NEW h \in Gens  PROVE wire'[q][h].got = wire[q][h].got
  <2>1. CASE q = r
    BY Zenon, <1>1, <1>8, <1>9, <2>1
  <2>2. CASE q # r
    BY Zenon, <1>1, <1>9, <2>2
  <2> QED
    BY Zenon, <2>1, <2>2
<1> QED
  BY Zenon, <1>10, <1>11

\* A stream is refused, or dropped unread.
LEMMA RefusedWire ==
  ASSUME LaneTypes, NEW r \in Roles, NEW g \in Gens, Refuse(r, g) \/ PrefaceLost(r, g)
  PROVE  /\ wire' \in [Roles -> [Gens -> Streams]]
         /\ \A q \in Roles : \A h \in Gens : wire'[q][h].got = wire[q][h].got
<1>1. PICK T \in SUBSET Ends : wire' = [wire EXCEPT ![r][g].preface = "read", ![r][g].torn = T]
  <2>1. CASE Refuse(r, g)
    <3>1. PICK T : T = wire[r][g].torn \cup {Acceptor(r)}
      BY Zenon
    <3>2. wire[r][g].torn \in SUBSET Ends
      BY DEF LaneTypes, Streams
    <3>3. T \in SUBSET Ends
      BY Zenon, <3>1, <3>2, TwoEnds
    <3>4. [wire EXCEPT ![r][g].preface = "read"][r][g].torn = wire[r][g].torn
      BY DEF LaneTypes, Streams
    <3> QED
      BY Zenon, <2>1, <3>1, <3>3, <3>4 DEF Refuse
  <2>2. CASE PrefaceLost(r, g)
    <3>1. wire' = [wire EXCEPT ![r][g].preface = "read", ![r][g].torn = Ends]
      BY Zenon, <2>2 DEF PrefaceLost
    <3>2. Ends \in SUBSET Ends
      BY Zenon
    <3> QED
      BY Zenon, <3>1, <3>2
  <2> QED
    BY Zenon, <2>1, <2>2
<1>2. wire \in [Roles -> [Gens -> Streams]]
  BY Zenon DEF LaneTypes
<1>3. PICK s \in Streams : s = wire[r][g]
  BY <1>2
<1>4. PICK t : t = [s EXCEPT !.preface = "read", !.torn = T]
  BY Zenon
<1>5. t \in Streams /\ t.got = s.got
  <2>1. "read" \in {"none", "sent", "read"}
    BY Zenon
  <2> QED
    BY Zenon, <1>1, <1>4, <2>1 DEF Streams
<1>6. wire' = [wire EXCEPT ![r][g] = t]
  BY Zenon, <1>1, <1>2, <1>3, <1>4 DEF Streams
<1> QED
  BY Zenon, <1>2, <1>3, <1>5, <1>6, StreamChanged

\* A preface that arrives delivers no frame.
LEMMA AdmitWire ==
  ASSUME LaneTypes, NEW r \in Roles, NEW g \in Gens, Admit(r, g) \/ PrefaceLost(r, g)
  PROVE  /\ wire' \in [Roles -> [Gens -> Streams]]
         /\ \A q \in Roles : \A h \in Gens : wire'[q][h].got = wire[q][h].got
<1>1. CASE Hold(r, g)
  <2>1. PICK gens : gens = {due[r].gen}
    BY Zenon
  <2>2. wire' = [wire EXCEPT ![r] = [TornBy("deck", r, gens) EXCEPT ![g].preface = "read"]]
    BY Zenon, <1>1, <2>1 DEF Hold
  <2>3. "deck" \in Ends
    BY DEF Ends
  <2> QED
    BY Zenon, <2>2, <2>3, AdmittedWire
<1>2. CASE Install(r, g)
  <2>1. PICK gens : gens = IF slot[Acceptor(r)][r].state = "open" THEN {slot[Acceptor(r)][r].highest} ELSE {}
    BY Zenon
  <2>2. PICK e \in Ends : e = Acceptor(r)
    BY Zenon, TwoEnds
  <2>3. wire' = [wire EXCEPT ![r] = [TornBy(e, r, gens) EXCEPT ![g].preface = "read"]]
    BY Zenon, <1>2, <2>1, <2>2 DEF Install
  <2> QED
    BY Zenon, <2>3, AdmittedWire
<1>3. CASE Refuse(r, g) \/ PrefaceLost(r, g)
  BY Zenon, <1>3, RefusedWire
<1> QED
  BY Zenon, <1>1, <1>2, <1>3 DEF Admit

-----------------------------------------------------------------------------
(* The steps of the role's workers. *)

\* A step of role r's worker at end e changes what the other roles read and know
\* at most by ending the attachment.
LEMMA RoleStep ==
  ASSUME LaneIInv, LaneTypes', NEW e \in Ends, NEW r \in Roles,
         \A f \in Ends : phase'[f] \in {phase[f], "ended"},
         \A f \in Ends : \A q \in Roles : ~(f = e /\ q = r) => slot'[f][q] = slot[f][q],
         \A q \in Roles : q # r =>
            /\ \A h \in Gens : wire'[q][h].got = wire[q][h].got
            /\ accept'[q] = accept[q] /\ opener'[q] = opener[q] /\ due'[q] \in {due[q], None}
            /\ \A f \in Ends : cut'[f][q] = cut[f][q],
         ReadsAsBefore(r) \/ ReadsNewest(r)',
         ~Bidirectional(r) => KnowsAsBefore(r) \/ OpenerKnows(r)'
  PROVE  LaneIInv'
<1>1. ASSUME NEW q \in Roles, q # r  PROVE ReadsAsBefore(q) /\ KnowsAsBefore(q)
  <2>1. phase'[Opener(q)] = "ended" \/ phase[Opener(q)] # "ended"
    BY Zenon, TwoEnds
  <2> QED
    BY Zenon, <1>1, <2>1, TwoEnds DEF ReadsAsBefore, KnowsAsBefore
<1> QED
  BY Zenon, <1>1, LaneStep

\* The opening worker knows the slot after a failure of the lane it runs.
LEMMA AfterReport ==
  ASSUME LaneIInv, NEW r \in Roles, ~Bidirectional(r), NEW fails \in Nat,
         ReportedAt(Opener(r), r, Current(r), fails), opener[r] \in {"opening", "run"},
         opener'[r] = AfterVerdict(VerdictAt(Opener(r), r, Current(r), fails)),
         \A f \in Ends : cut'[f][r] = {}
  PROVE  OpenerKnows(r)'
<1>1. PICK e \in Ends : e = Opener(r)
  BY Zenon, TwoEnds
<1>2. PICK v : v = VerdictAt(e, r, Current(r), fails)
  BY Zenon
<1>3. /\ \A f \in Ends : phase'[f] \in {phase[f], "ended"}
      /\ Live(e, r, Current(r)) =>
            \/ v = "reopen" /\ slot'[e][r].state = "recovering"
            \/ v = "disable" /\ slot'[e][r].state = "disabled"
            \/ v = "end" /\ phase'[e] = "ended"
  <2>1. LaneTypes
    BY Zenon DEF LaneIInv
  <2>2. PICK g : g = Current(r)
    BY Zenon
  <2>3. ReportedAt(e, r, g, fails)
    BY Zenon, <1>1, <2>2
  <2>4. /\ \A f \in Ends : phase'[f] \in {phase[f], "ended"}
        /\ Live(e, r, g) =>
              \/ VerdictAt(e, r, g, fails) = "reopen" /\ slot'[e][r].state = "recovering"
              \/ VerdictAt(e, r, g, fails) = "disable" /\ slot'[e][r].state = "disabled"
              \/ VerdictAt(e, r, g, fails) = "end" /\ phase'[e] = "ended"
    BY Zenon, <2>1, <2>3, ReportKeeps
  <2> QED
    BY Zenon, <1>2, <2>2, <2>4
<1>4. cut'[Acceptor(r)][r] = {} /\ cut'[Opener(r)][r] = {}
  BY Zenon, TwoEnds
<1>5. CASE phase'[e] = "ended"
  BY Zenon, <1>1, <1>4, <1>5 DEF OpenerKnows
<1>6. CASE phase'[e] # "ended"
  <2>1. phase[e] # "ended"
    BY Zenon, <1>3, <1>6
  <2>2. Live(e, r, Current(r))
    <3>1. OpenerKnows(r)
      BY Zenon DEF LaneIInv
    <3>2. slot[e][r].state = "open"
      BY Zenon, <1>1, <2>1, <3>1 DEF OpenerKnows
    <3> QED
      BY Zenon, <1>1, <2>1, <3>2 DEF Live, Current
  <2>3. \/ opener'[r] = "open" /\ slot'[e][r].state = "recovering"
        \/ opener'[r] = "stopped" /\ slot'[e][r].state = "disabled"
    BY Zenon, <1>1, <1>2, <1>3, <1>6, <2>2 DEF AfterVerdict
  <2>4. CASE opener'[r] = "open" /\ slot'[e][r].state = "recovering"
    <3>1. /\ opener'[r] \notin {"opening", "run"} /\ opener'[r] # "stopped"
          /\ slot'[e][r].state \in {"absent", "recovering"}
      BY Zenon, <2>4
    <3> QED
      BY Zenon, <1>1, <1>4, <3>1 DEF OpenerKnows
  <2>5. CASE opener'[r] = "stopped" /\ slot'[e][r].state = "disabled"
    <3>1. opener'[r] \notin {"opening", "run"} /\ opener'[r] # "open"
      BY Zenon, <2>5
    <3> QED
      BY Zenon, <1>1, <1>4, <2>5, <3>1 DEF OpenerKnows
  <2> QED
    BY Zenon, <2>3, <2>4, <2>5
<1> QED
  BY Zenon, <1>5, <1>6

\* A lane is reserved, or the worker gives up.
LEMMA OpenLocalKeeps ==
  ASSUME LaneIInv, NEW r \in Roles, OpenLocal(r)
  PROVE  LaneIInv'
<1>1. PICK e \in Ends : e = Opener(r)
  BY Zenon, TwoEnds
<1>2. LaneTypes
  BY Zenon DEF LaneIInv
<1>3. UNCHANGED <<phase, wire, accept, due, cut>> /\ opener[r] = "open" /\ phase[e] \in {"authorized", "ended"}
  BY Zenon, <1>1 DEF OpenLocal
<1>4. ~Bidirectional(r) /\ phase[e] # "ended" =>
        /\ slot[e][r].state \in {"absent", "recovering"}
        /\ cut'[Acceptor(r)][r] = {} /\ cut'[e][r] = {}
  <2>1. opener[r] # "run"
    BY Zenon, <1>3
  <2> QED
    BY Zenon, <1>1, <1>3, <2>1 DEF LaneIInv, OpenerKnows
<1>5. CASE slot' = [slot EXCEPT ![e][r].state = "open", ![e][r].highest = @ + 1]
           /\ opener' = [opener EXCEPT ![r] = "opening"]
  <2>1. PICK s \in Slots : s = slot[e][r]
    BY <1>2 DEF LaneTypes
  <2>2. PICK n \in Nat : n = s.highest + 1
    BY DEF Slots
  <2>3. PICK t : t = [s EXCEPT !.state = "open", !.highest = n]
    BY Zenon
  <2>4. t \in Slots /\ t.state = "open"
    <3>1. "open" \in {"absent", "open", "recovering", "disabled"}
      BY Zenon
    <3> QED
      BY Zenon, <2>3, <3>1 DEF Slots
  <2>5. slot' = [slot EXCEPT ![e][r] = t]
    BY Zenon, <1>5, <2>1, <2>2, <2>3, <1>2 DEF LaneTypes, Slots
  <2>6. /\ slot' \in [Ends -> [Roles -> Slots]] /\ slot'[e][r] = t
        /\ \A f \in Ends : \A q \in Roles : ~(f = e /\ q = r) => slot'[f][q] = slot[f][q]
    <3>1. slot \in [Ends -> [Roles -> Slots]]
      BY Zenon, <1>2 DEF LaneTypes
    <3> QED
      BY <2>4, <2>5, <3>1
  <2>7. /\ opener' \in [Roles -> {"open", "opening", "run", "stopped"}] /\ opener'[r] = "opening"
        /\ \A q \in Roles : q # r => opener'[q] = opener[q]
    BY <1>2, <1>5 DEF LaneTypes
  <2>8. LaneTypes'
    BY Zenon, <1>2, <1>3, <2>6, <2>7 DEF LaneTypes
  <2>9. ReadsAsBefore(r)
    <3>1. slot'[Acceptor(r)][r] = slot[Acceptor(r)][r]
      BY Zenon, <1>1, <2>6, TwoEnds
    <3> QED
      BY Zenon, <1>3, <3>1 DEF ReadsAsBefore
  <2>10. ASSUME ~Bidirectional(r)  PROVE OpenerKnows(r)'
    <3>1. CASE phase[e] = "ended"
      <4>1. cut'[Acceptor(r)][r] = {}
        BY Zenon, <1>3, <2>10 DEF LaneIInv, OpenerKnows
      <4> QED
        BY Zenon, <1>1, <1>3, <3>1, <4>1 DEF OpenerKnows
    <3>2. CASE phase[e] # "ended"
      <4>1. opener'[r] # "open" /\ opener'[r] # "stopped" /\ slot'[e][r].state = "open"
        BY Zenon, <2>4, <2>6, <2>7
      <4>2. cut'[Acceptor(r)][r] = {} /\ cut'[e][r] = {}
        BY Zenon, <1>4, <2>10, <3>2
      <4> QED
        BY Zenon, <1>1, <4>1, <4>2 DEF OpenerKnows
    <3> QED
      BY Zenon, <3>1, <3>2
  <2> QED
    BY ZenonT(60), <1>3, <2>6, <2>7, <2>8, <2>9, <2>10, RoleStep
<1>6. CASE /\ phase[e] = "ended" \/ slot[e][r].state \in {"open", "disabled"}
           /\ opener' = [opener EXCEPT ![r] = "stopped"] /\ UNCHANGED slot
  <2>1. /\ opener' \in [Roles -> {"open", "opening", "run", "stopped"}]
        /\ \A q \in Roles : q # r => opener'[q] = opener[q]
    BY Zenon, <1>2, <1>6 DEF LaneTypes
  <2>2. LaneTypes'
    BY Zenon, <1>2, <1>3, <1>6, <2>1 DEF LaneTypes
  <2>3. ReadsAsBefore(r)
    BY Zenon, <1>3, <1>6 DEF ReadsAsBefore
  <2>4. ASSUME ~Bidirectional(r)  PROVE OpenerKnows(r)'
    <3>1. phase'[e] = "ended"
      BY Zenon, <1>3, <1>4, <1>6, <2>4
    <3>2. cut'[Acceptor(r)][r] = {}
      BY Zenon, <1>3, <2>4 DEF LaneIInv, OpenerKnows
    <3> QED
      BY ZenonT(60), <1>1, <3>1, <3>2 DEF OpenerKnows
  <2> QED
    BY ZenonT(60), <1>3, <1>6, <2>1, <2>2, <2>3, <2>4, RoleStep
<1> QED
  BY Zenon, <1>1, <1>5, <1>6 DEF OpenLocal

\* The stream opens.
LEMMA OpenStreamKeeps ==
  ASSUME LaneIInv, NEW r \in Roles, OpenStream(r)
  PROVE  LaneIInv'
<1>1. PICK e \in Ends : e = Opener(r)
  BY Zenon, TwoEnds
<1>2. LaneTypes
  BY Zenon DEF LaneIInv
<1>3. /\ UNCHANGED <<phase, slot, accept, due, cut>> /\ opener[r] = "opening"
      /\ opener' = [opener EXCEPT ![r] = "run"]
  BY Zenon DEF OpenStream
<1>4. /\ wire' \in [Roles -> [Gens -> Streams]]
      /\ \A q \in Roles : \A h \in Gens : wire'[q][h].got = wire[q][h].got
  BY Zenon, <1>2, OpenStreamWire
<1>5. /\ opener' \in [Roles -> {"open", "opening", "run", "stopped"}] /\ opener'[r] = "run"
      /\ \A q \in Roles : q # r => opener'[q] = opener[q]
  BY <1>2, <1>3 DEF LaneTypes
<1>6. LaneTypes'
  BY Zenon, <1>2, <1>3, <1>4, <1>5 DEF LaneTypes
<1>7. ReadsAsBefore(r)
  BY Zenon, <1>3, <1>4 DEF ReadsAsBefore
<1>8. ASSUME ~Bidirectional(r)  PROVE OpenerKnows(r)'
  <2>1. OpenerKnows(r)
    BY Zenon, <1>8 DEF LaneIInv
  <2>2. /\ cut'[Acceptor(r)][r] = {}
        /\ phase'[e] # "ended" => slot'[e][r].state = "open" /\ \A h \in cut'[e][r] : opener[r] = "run"
    BY Zenon, <1>1, <1>3, <2>1 DEF OpenerKnows
  <2>3. opener[r] # "run" /\ opener'[r] # "open" /\ opener'[r] # "stopped"
    BY Zenon, <1>3, <1>5
  <2> QED
    BY Zenon, <1>1, <2>2, <2>3 DEF OpenerKnows
<1> QED
  BY ZenonT(60), <1>3, <1>4, <1>5, <1>6, <1>7, <1>8, RoleStep

\* A step that reports a failure of a lane of role r at end e keeps the invariant,
\* when the role's reader at most leaves and the opener knows what follows.
LEMMA ReportStep ==
  ASSUME LaneIInv, NEW e \in Ends, NEW r \in Roles, NEW g, NEW fails \in Nat,
         ReportedAt(e, r, g, fails), wire' = TornAfter(e, r, g, VerdictAt(e, r, g, fails)),
         opener' \in [Roles -> {"open", "opening", "run", "stopped"}],
         accept' \in [Roles -> Readers], cut' \in [Ends -> [Roles -> SUBSET Gens]],
         \A q \in Roles : q # r => /\ accept'[q] = accept[q] /\ opener'[q] = opener[q]
                                   /\ \A f \in Ends : cut'[f][q] = cut[f][q],
         \/ accept'[r].at = accept[r].at /\ accept'[r].gen = accept[r].gen
         \/ accept'[r].at # "read" /\ accept[r].at = "read",
         ~Bidirectional(r) => KnowsAsBefore(r) \/ OpenerKnows(r)'
  PROVE  LaneIInv'
<1>1. LaneTypes
  BY Zenon DEF LaneIInv
<1>2. PICK v : v = VerdictAt(e, r, g, fails)
  BY Zenon
<1>3. /\ slot' \in [Ends -> [Roles -> Slots]]
      /\ phase' \in [Ends -> {"awaiting", "unauthorized", "authorized", "ended"}]
      /\ due' \in [Roles -> [gen : Nat, owes : BOOLEAN]]
      /\ \A f \in Ends : \A q \in Roles :
            /\ slot'[f][q].highest = slot[f][q].highest
            /\ ~(f = e /\ q = r) => slot'[f][q] = slot[f][q]
      /\ \A f \in Ends : phase'[f] \in {phase[f], "ended"}
      /\ \A q \in Roles : due'[q] \in {due[q], None}
  BY ZenonT(60), <1>1, ReportKeeps
<1>4. /\ wire' \in [Roles -> [Gens -> Streams]]
      /\ \A q \in Roles : \A h \in Gens : wire'[q][h].got = wire[q][h].got
  <2>1. wire \in [Roles -> [Gens -> Streams]]
    BY Zenon, <1>1 DEF LaneTypes
  <2>2. /\ TornAfter(e, r, g, v) \in [Roles -> [Gens -> Streams]]
        /\ \A q \in Roles : \A h \in Gens : TornAfter(e, r, g, v)[q][h].got = wire[q][h].got
    BY SMTT(30), <2>1, FailureKeeps
  <2> QED
    BY Zenon, <1>2, <2>2
<1>5. LaneTypes'
  BY Zenon, <1>1, <1>3, <1>4 DEF LaneTypes
<1>6. ReadsAsBefore(r)
  BY Zenon, <1>3, <1>4, TwoEnds DEF ReadsAsBefore
<1>7. \A q \in Roles : q # r =>
          /\ \A h \in Gens : wire'[q][h].got = wire[q][h].got
          /\ accept'[q] = accept[q] /\ opener'[q] = opener[q] /\ due'[q] \in {due[q], None}
          /\ \A f \in Ends : cut'[f][q] = cut[f][q]
  BY Zenon, <1>3, <1>4
<1>8. \A f \in Ends : \A q \in Roles : ~(f = e /\ q = r) => slot'[f][q] = slot[f][q]
  BY Zenon, <1>3
<1>9. \A f \in Ends : phase'[f] \in {phase[f], "ended"}
  BY Zenon, <1>3
<1> QED
  BY ZenonT(60), <1>5, <1>6, <1>7, <1>8, <1>9, RoleStep

\* What an opener knows when its attachment has ended: no lane of the other end is cut.
LEMMA EndedKnows ==
  ASSUME LaneIInv, NEW r \in Roles, ~Bidirectional(r), phase'[Opener(r)] = "ended",
         cut'[Acceptor(r)][r] = {}
  PROVE  OpenerKnows(r)'
  BY Zenon DEF OpenerKnows

\* A report leaves an ended attachment ended.
LEMMA EndedStays ==
  ASSUME LaneIInv, NEW e \in Ends, NEW r \in Roles, NEW g, NEW fails \in Nat,
         ReportedAt(e, r, g, fails), NEW f \in Ends, phase[f] = "ended"
  PROVE  phase'[f] = "ended"
<1>1. LaneTypes
  BY Zenon DEF LaneIInv
<1>2. phase'[f] \in {phase[f], "ended"}
  BY Zenon, <1>1, ReportKeeps
<1> QED
  BY Zenon, <1>2

\* The stream cannot be opened in time.
LEMMA OpenTimesOutKeeps ==
  ASSUME LaneIInv, NEW r \in Roles, OpenTimesOut(r)
  PROVE  LaneIInv'
<1>1. PICK e \in Ends : e = Opener(r)
  BY Zenon, TwoEnds
<1>2. LaneTypes
  BY Zenon DEF LaneIInv
<1>3. PICK fails \in Nat : fails = slot[e][r].fails
  <2>1. slot[e][r] \in Slots
    BY <1>2 DEF LaneTypes
  <2> QED
    BY Zenon, <2>1 DEF Slots
<1>4. PICK g : g = Current(r)
  BY Zenon
<1>5. /\ UNCHANGED <<accept, cut>> /\ opener[r] = "opening"
      /\ ReportedAt(e, r, g, fails)
      /\ opener' = [opener EXCEPT ![r] = AfterVerdict(VerdictAt(e, r, g, fails))]
      /\ wire' = TornAfter(e, r, g, VerdictAt(e, r, g, fails))
  BY Zenon, <1>1, <1>3, <1>4 DEF OpenTimesOut, Verdict, Reported
<1>6. /\ opener' \in [Roles -> {"open", "opening", "run", "stopped"}]
      /\ opener'[r] = AfterVerdict(VerdictAt(e, r, g, fails))
      /\ \A q \in Roles : q # r => opener'[q] = opener[q]
  <2>1. PICK v : v = VerdictAt(e, r, g, fails)
    BY Zenon
  <2>2. AfterVerdict(v) \in {"open", "opening", "run", "stopped"}
    BY DEF AfterVerdict
  <2> QED
    BY Zenon, <1>2, <1>5, <2>1, <2>2 DEF LaneTypes
<1>7. ASSUME ~Bidirectional(r)  PROVE OpenerKnows(r)'
  <2>1. OpenerKnows(r)
    BY Zenon, <1>7 DEF LaneIInv
  <2>2. cut'[Acceptor(r)][r] = {}
    BY Zenon, <1>5, <2>1 DEF OpenerKnows
  <2>3. CASE phase[e] = "ended"
    <3>1. phase'[e] = "ended"
      BY Zenon, <1>5, <2>3, EndedStays
    <3> QED
      BY Zenon, <1>1, <1>7, <2>2, <3>1, EndedKnows
  <2>4. CASE phase[e] # "ended"
    <3>1. opener[r] # "run" /\ opener[r] \in {"opening", "run"}
      BY Zenon, <1>5
    <3>2. cut'[e][r] = {}
      BY Zenon, <1>1, <1>5, <2>1, <2>4, <3>1 DEF OpenerKnows
    <3>3. \A f \in Ends : cut'[f][r] = {}
      BY Zenon, <1>1, <2>2, <3>2, TwoEnds
    <3> QED
      BY ZenonT(60), <1>1, <1>4, <1>5, <1>6, <1>7, <3>1, <3>3, AfterReport
  <2> QED
    BY Zenon, <2>3, <2>4
<1>8. accept' \in [Roles -> Readers] /\ cut' \in [Ends -> [Roles -> SUBSET Gens]]
  BY Zenon, <1>2, <1>5 DEF LaneTypes
<1>9. \A q \in Roles : q # r => /\ accept'[q] = accept[q] /\ opener'[q] = opener[q]
                                /\ \A f \in Ends : cut'[f][q] = cut[f][q]
  BY Zenon, <1>5, <1>6
<1> QED
  BY ZenonT(60), <1>5, <1>6, <1>7, <1>8, <1>9, ReportStep

\* A record is written.
LEMMA WriteFrameKeeps ==
  ASSUME LaneIInv, NEW r \in Roles, WriteFrame(r)
  PROVE  LaneIInv'
<1>1. PICK e \in Ends : e = Opener(r)
  BY Zenon, TwoEnds
<1>2. LaneTypes
  BY Zenon DEF LaneIInv
<1>3. PICK g : g = Current(r)
  BY Zenon
<1>4. /\ UNCHANGED <<phase, opener, accept, due, cut>> /\ Healthy(e, r, g)
  BY Zenon, <1>1, <1>3 DEF WriteFrame
<1>5. /\ slot' \in [Ends -> [Roles -> Slots]]
      /\ \A f \in Ends : \A q \in Roles :
            /\ slot'[f][q].highest = slot[f][q].highest /\ slot'[f][q].state = slot[f][q].state
            /\ ~(f = e /\ q = r) => slot'[f][q] = slot[f][q]
  BY Zenon, <1>2, <1>4, HealthyKeeps
<1>6. /\ wire' \in [Roles -> [Gens -> Streams]]
      /\ \A q \in Roles : \A h \in Gens : wire'[q][h].got = wire[q][h].got
  BY Zenon, <1>2, WriteFrameWire
<1>7. LaneTypes'
  BY Zenon, <1>2, <1>4, <1>5, <1>6 DEF LaneTypes
<1>8. ASSUME NEW q \in Roles  PROVE ReadsAsBefore(q) /\ KnowsAsBefore(q)
  <2>1. /\ slot'[Acceptor(q)][q].highest = slot[Acceptor(q)][q].highest
        /\ slot'[Opener(q)][q].highest = slot[Opener(q)][q].highest
        /\ slot'[Opener(q)][q].state = slot[Opener(q)][q].state
    BY Zenon, <1>5, TwoEnds
  <2>2. ReadsAsBefore(q)
    BY Zenon, <1>4, <1>6, <2>1 DEF ReadsAsBefore
  <2>3. KnowsAsBefore(q)
    BY Zenon, <1>4, <2>1 DEF KnowsAsBefore
  <2> QED
    BY Zenon, <2>2, <2>3
<1> QED
  BY Zenon, <1>7, <1>8, LaneStep

\* A writer finds the stream stopped, and cancels the lane.
LEMMA WriterStoppedKeeps ==
  ASSUME LaneIInv, NEW e \in Ends, NEW r \in Roles, NEW g \in Gens, WriterStopped(e, r, g)
  PROVE  LaneIInv'
<1>1. LaneTypes
  BY Zenon DEF LaneIInv
<1>2. /\ UNCHANGED <<phase, slot, opener, due>> /\ Writing(e, r, g)
      /\ cut' = [cut EXCEPT ![e][r] = @ \cup {g}]
      /\ accept' = IF e = Acceptor(r) THEN [accept EXCEPT ![r].code = "failed"] ELSE accept
  BY Zenon DEF WriterStopped
<1>3. /\ cut' \in [Ends -> [Roles -> SUBSET Gens]] /\ cut'[e][r] = cut[e][r] \cup {g}
      /\ \A f \in Ends : \A q \in Roles : ~(f = e /\ q = r) => cut'[f][q] = cut[f][q]
  BY Zenon, <1>1, <1>2 DEF LaneTypes
<1>4. /\ wire' \in [Roles -> [Gens -> Streams]]
      /\ \A q \in Roles : \A h \in Gens : wire'[q][h].got = wire[q][h].got
  BY Zenon, <1>1, WriterStoppedWire
<1>5. /\ accept' \in [Roles -> Readers]
      /\ \A q \in Roles : accept'[q].at = accept[q].at /\ accept'[q].gen = accept[q].gen
      /\ \A q \in Roles : q # r => accept'[q] = accept[q]
  <2>1. accept \in [Roles -> Readers]
    BY Zenon, <1>1 DEF LaneTypes
  <2>2. CASE accept' = accept
    BY Zenon, <2>1, <2>2
  <2>3. CASE accept' = [accept EXCEPT ![r].code = "failed"]
    <3>1. PICK s \in Readers : s = accept[r]
      BY Zenon, <2>1
    <3>2. PICK t : t = [s EXCEPT !.code = "failed"]
      BY Zenon
    <3>3. t \in Readers /\ t.at = s.at /\ t.gen = s.gen
      <4>1. "failed" \in {"none", "failed", "superseded"}
        OBVIOUS
      <4> QED
        BY Zenon, <3>2, <4>1 DEF Readers
    <3>4. accept' = [accept EXCEPT ![r] = t]
      BY Zenon, <2>3, <3>1, <3>2
    <3> QED
      BY Zenon, <2>1, <3>1, <3>3, <3>4
  <2> QED
    BY Zenon, <1>2, <2>2, <2>3
<1>6. LaneTypes'
  BY Zenon, <1>1, <1>2, <1>3, <1>4, <1>5 DEF LaneTypes
<1>7. ReadsAsBefore(r)
  BY Zenon, <1>2, <1>4, <1>5 DEF ReadsAsBefore
<1>8. ASSUME ~Bidirectional(r)  PROVE OpenerKnows(r)'
  <2>1. OpenerKnows(r)
    BY Zenon, <1>8 DEF LaneIInv
  <2>2. e = Opener(r) /\ opener[r] = "run" /\ g = Current(r)
    BY Zenon, <1>2, <1>8 DEF Writing
  <2>3. cut'[Acceptor(r)][r] = {}
    BY Zenon, <1>3, <2>1, <2>2, TwoEnds DEF OpenerKnows
  <2>4. \A h \in cut'[e][r] : h \in cut[e][r] \/ h = g
    BY Zenon, <1>3
  <2>5. opener'[r] # "open" /\ opener'[r] # "stopped" /\ opener'[r] = "run"
    BY Zenon, <1>2, <2>2
  <2>6. Current(r)' = Current(r)
    BY Zenon, <1>2 DEF Current
  <2>7. phase'[e] # "ended" => slot'[e][r].state = "open" /\ \A h \in cut'[e][r] : h = Current(r)'
    BY Zenon, <1>2, <2>1, <2>2, <2>4, <2>6 DEF OpenerKnows
  <2> QED
    BY Zenon, <2>2, <2>3, <2>5, <2>7 DEF OpenerKnows
<1>9. \A q \in Roles : q # r =>
          /\ \A h \in Gens : wire'[q][h].got = wire[q][h].got
          /\ accept'[q] = accept[q] /\ opener'[q] = opener[q] /\ due'[q] \in {due[q], None}
          /\ \A f \in Ends : cut'[f][q] = cut[f][q]
  BY Zenon, <1>2, <1>3, <1>4, <1>5
<1>10. \A f \in Ends : \A q \in Roles : ~(f = e /\ q = r) => slot'[f][q] = slot[f][q]
  BY Zenon, <1>2
<1>11. \A f \in Ends : phase'[f] \in {phase[f], "ended"}
  BY Zenon, <1>2
<1> QED
  BY ZenonT(60), <1>6, <1>7, <1>8, <1>9, <1>10, <1>11, RoleStep

\* A writer reports the lane it cancelled.
LEMMA WriterReportsKeeps ==
  ASSUME LaneIInv, NEW e \in Ends, NEW r \in Roles, NEW g \in Gens, WriterReports(e, r, g)
  PROVE  LaneIInv'
<1>1. LaneTypes
  BY Zenon DEF LaneIInv
<1>2. PICK fails \in Nat : fails = slot[e][r].fails
  <2>1. slot[e][r] \in Slots
    BY <1>1 DEF LaneTypes
  <2> QED
    BY Zenon, <2>1 DEF Slots
<1>3. PICK v : v = VerdictAt(e, r, g, fails)
  BY Zenon
<1>4. /\ UNCHANGED accept /\ g \in cut[e][r] /\ ReportedAt(e, r, g, fails)
      /\ cut' = [cut EXCEPT ![e][r] = @ \ {g}]
      /\ wire' = TornAfter(e, r, g, VerdictAt(e, r, g, fails))
      /\ opener' = IF Bidirectional(r) THEN opener ELSE [opener EXCEPT ![r] = AfterVerdict(v)]
  BY Zenon, <1>2, <1>3 DEF WriterReports, Verdict, Reported
<1>5. /\ cut' \in [Ends -> [Roles -> SUBSET Gens]] /\ cut'[e][r] = cut[e][r] \ {g}
      /\ \A f \in Ends : \A q \in Roles : ~(f = e /\ q = r) => cut'[f][q] = cut[f][q]
  BY Zenon, <1>1, <1>4 DEF LaneTypes
<1>6. /\ opener' \in [Roles -> {"open", "opening", "run", "stopped"}]
      /\ ~Bidirectional(r) => opener'[r] = AfterVerdict(v)
      /\ \A q \in Roles : q # r => opener'[q] = opener[q]
  <2>1. PICK o \in {"open", "opening", "run", "stopped"} : o = AfterVerdict(v)
    BY DEF AfterVerdict
  <2>2. opener \in [Roles -> {"open", "opening", "run", "stopped"}]
    BY Zenon, <1>1 DEF LaneTypes
  <2>3. CASE Bidirectional(r)
    BY Zenon, <1>4, <2>2, <2>3
  <2>4. CASE ~Bidirectional(r)
    <3>1. opener' = [opener EXCEPT ![r] = o]
      BY Zenon, <1>4, <2>1, <2>4
    <3> QED
      BY Zenon, <2>1, <2>2, <3>1
  <2> QED
    BY Zenon, <2>3, <2>4
<1>7. ASSUME ~Bidirectional(r)  PROVE OpenerKnows(r)'
  <2>1. OpenerKnows(r)
    BY Zenon, <1>7 DEF LaneIInv
  <2>2. e = Opener(r)
    BY Zenon, <1>4, <2>1, TwoEnds DEF OpenerKnows
  <2>3. cut'[Acceptor(r)][r] = {}
    BY Zenon, <1>5, <2>1, <2>2, TwoEnds DEF OpenerKnows
  <2>4. CASE phase[e] = "ended"
    <3>1. phase'[e] = "ended"
      BY Zenon, <1>4, <2>4, EndedStays
    <3> QED
      BY Zenon, <1>7, <2>2, <2>3, <3>1, EndedKnows
  <2>5. CASE phase[e] # "ended"
    <3>1. \A h \in cut[e][r] : opener[r] = "run" /\ h = Current(r)
      BY Zenon, <2>1, <2>2, <2>5 DEF OpenerKnows
    <3>2. opener[r] \in {"opening", "run"} /\ g = Current(r)
      BY ZenonT(60), <1>4, <3>1
    <3>3. cut'[e][r] = {}
      BY Zenon, <1>5, <3>1, <3>2
    <3>4. \A f \in Ends : cut'[f][r] = {}
      BY Zenon, <2>2, <2>3, <3>3, TwoEnds
    <3>5. ReportedAt(Opener(r), r, Current(r), fails)
      BY Zenon, <1>4, <2>2, <3>2
    <3>6. opener'[r] = AfterVerdict(VerdictAt(Opener(r), r, Current(r), fails))
      BY Zenon, <1>3, <1>6, <1>7, <2>2, <3>2
    <3> QED
      BY Zenon, <1>7, <3>2, <3>4, <3>5, <3>6, AfterReport
  <2> QED
    BY Zenon, <2>4, <2>5
<1>8. accept' \in [Roles -> Readers]
  BY Zenon, <1>1, <1>4 DEF LaneTypes
<1>9. \A q \in Roles : q # r => /\ accept'[q] = accept[q] /\ opener'[q] = opener[q]
                                /\ \A f \in Ends : cut'[f][q] = cut[f][q]
  BY Zenon, <1>4, <1>5, <1>6
<1>10. accept'[r].at = accept[r].at /\ accept'[r].gen = accept[r].gen
  BY Zenon, <1>4
<1> QED
  BY ZenonT(60), <1>4, <1>5, <1>6, <1>7, <1>8, <1>9, <1>10, ReportStep

\* The opener's reader fails, on a lane that both ends write.
LEMMA OpenerReaderFailsKeeps ==
  ASSUME LaneIInv, NEW r \in Roles, OpenerReaderFails(r)
  PROVE  LaneIInv'
<1>1. LaneTypes
  BY Zenon DEF LaneIInv
<1>2. PICK e \in Ends : e = Opener(r)
  BY Zenon, TwoEnds
<1>3. PICK g : g = Current(r)
  BY Zenon
<1>4. PICK fails \in {0, slot[e][r].fails} :
         /\ ReportedAt(e, r, g, fails)
         /\ opener' = [opener EXCEPT ![r] = AfterVerdict(VerdictAt(e, r, g, fails))]
         /\ wire' = TornAfter(e, r, g, VerdictAt(e, r, g, fails))
  BY Zenon, <1>2, <1>3 DEF OpenerReaderFails
<1>5. UNCHANGED <<accept, cut>> /\ Bidirectional(r)
  BY Zenon DEF OpenerReaderFails
<1>6. fails \in Nat
  <2>1. slot[e][r] \in Slots
    BY <1>1 DEF LaneTypes
  <2>2. slot[e][r].fails \in Nat
    BY Zenon, <2>1 DEF Slots
  <2>3. 0 \in Nat
    BY SMT
  <2>4. fails = 0 \/ fails = slot[e][r].fails
    BY Zenon
  <2> QED
    BY Zenon, <2>2, <2>3, <2>4
<1>7. /\ opener' \in [Roles -> {"open", "opening", "run", "stopped"}]
      /\ \A q \in Roles : q # r => opener'[q] = opener[q]
  <2>1. PICK v : v = VerdictAt(e, r, g, fails)
    BY Zenon
  <2>2. AfterVerdict(v) \in {"open", "opening", "run", "stopped"}
    BY DEF AfterVerdict
  <2> QED
    BY Zenon, <1>1, <1>4, <2>1, <2>2 DEF LaneTypes
<1>8. accept' \in [Roles -> Readers] /\ cut' \in [Ends -> [Roles -> SUBSET Gens]]
  BY Zenon, <1>1, <1>5 DEF LaneTypes
<1>9. \A q \in Roles : q # r => /\ accept'[q] = accept[q] /\ opener'[q] = opener[q]
                                /\ \A f \in Ends : cut'[f][q] = cut[f][q]
  BY Zenon, <1>5, <1>7
<1>10. accept'[r].at = accept[r].at /\ accept'[r].gen = accept[r].gen
  BY Zenon, <1>5
<1> QED
  BY ZenonT(60), <1>4, <1>5, <1>6, <1>7, <1>8, <1>9, <1>10, ReportStep

\* The opener finds its lane cancelled.
LEMMA OpenerCancelledKeeps ==
  ASSUME LaneIInv, NEW r \in Roles, OpenerCancelled(r)
  PROVE  LaneIInv'
<1>1. LaneTypes
  BY Zenon DEF LaneIInv
<1>2. /\ UNCHANGED <<phase, slot, wire, accept, due, cut>>
      /\ Bidirectional(r) \/ phase[Opener(r)] = "ended"
      /\ opener' = [opener EXCEPT ![r] = IF phase[Opener(r)] = "ended" THEN "stopped" ELSE "open"]
  BY Zenon DEF OpenerCancelled
<1>3. /\ opener' \in [Roles -> {"open", "opening", "run", "stopped"}]
      /\ \A q \in Roles : q # r => opener'[q] = opener[q]
  BY Zenon, <1>1, <1>2 DEF LaneTypes
<1>4. LaneTypes'
  BY Zenon, <1>1, <1>2, <1>3 DEF LaneTypes
<1>5. ASSUME NEW q \in Roles  PROVE ReadsAsBefore(q)
  BY Zenon, <1>2 DEF ReadsAsBefore
<1>6. ASSUME NEW q \in Roles, q # r  PROVE KnowsAsBefore(q)
  BY Zenon, <1>2, <1>3, <1>6 DEF KnowsAsBefore
<1>7. ASSUME ~Bidirectional(r)  PROVE OpenerKnows(r)'
  <2>1. cut'[Acceptor(r)][r] = {}
    BY Zenon, <1>2, <1>7 DEF LaneIInv, OpenerKnows
  <2> QED
    BY Zenon, <1>2, <1>7, <2>1, EndedKnows
<1>8. \A q \in Roles : ~Bidirectional(q) => KnowsAsBefore(q) \/ OpenerKnows(q)'
  BY Zenon, <1>6, <1>7
<1> QED
  BY Zenon, <1>4, <1>5, <1>8, LaneStep

\* A preface arrives: the lane is held, admitted or refused, and an admitted lane is
\* newer than any that was read.
LEMMA AdmitKeeps ==
  ASSUME LaneIInv, NEW r \in Roles, NEW g \in Gens, Admit(r, g)
  PROVE  LaneIInv'
<1>1. LaneTypes /\ g \in Nat
  BY Zenon, GensAreNumbers DEF LaneIInv
<1>2. PICK e \in Ends : e = Acceptor(r)
  BY Zenon, TwoEnds
<1>3. UNCHANGED <<phase, opener, cut>>
  BY Zenon DEF Admit
<1>4. /\ wire' \in [Roles -> [Gens -> Streams]]
      /\ \A q \in Roles : \A h \in Gens : wire'[q][h].got = wire[q][h].got
  BY Zenon, <1>1, AdmitWire
<1>5. CASE Hold(r, g)
  <2>1. /\ phase["deck"] = "unauthorized" /\ Acceptor(r) = "deck"
        /\ due' = [due EXCEPT ![r] = [gen |-> g, owes |-> due[r] # None /\ HasSteps(r)]]
        /\ UNCHANGED <<slot, accept>>
    BY Zenon, <1>5 DEF Hold
  <2>2. /\ due' \in [Roles -> [gen : Nat, owes : BOOLEAN]] /\ due'[r].gen = g
        /\ \A q \in Roles : q # r => due'[q] = due[q]
    <3>1. PICK o \in BOOLEAN : o = (due[r] # None /\ HasSteps(r))
      BY Zenon
    <3>2. due' = [due EXCEPT ![r] = [gen |-> g, owes |-> o]]
      BY Zenon, <2>1, <3>1
    <3> QED
      BY Zenon, <1>1, <3>2 DEF LaneTypes
  <2>3. LaneTypes'
    BY Zenon, <1>1, <1>3, <1>4, <2>1, <2>2 DEF LaneTypes
  <2>4. ReadsNewest(r)'
    <3>1. /\ accept[r].at = "wait" /\ ReadUpTo(r, 0) /\ ReadUpTo(r, slot[e][r].highest)
          /\ e # "pier" /\ phase[e] # "authorized"
      <4>1. Unauthorized(e) /\ e = "deck" /\ phase[e] = "unauthorized"
        BY Zenon, <1>2, <2>1 DEF Unauthorized
      <4>2. e # "pier" /\ phase[e] # "authorized"
        BY <4>1
      <4> QED
        BY Zenon, <1>2, <4>1, <4>2 DEF LaneIInv, ReadsNewest
    <3>2. \A h \in Gens : ~(wire'[r][h].got > 0)
      <4>1. \A h \in Gens : ~(h <= 0)
        BY SMTT(30), GensAreNumbers
      <4> QED
        BY Zenon, <1>4, <3>1, <4>1 DEF ReadUpTo
    <3>3. accept'[r].at = "wait" /\ accept'[r].at # "read"
      BY Zenon, <2>1, <3>1
    <3> QED
      BY Zenon, <1>2, <1>3, <2>1, <2>2, <3>1, <3>2, <3>3 DEF ReadsNewest, ReadUpTo
  <2>5. KnowsAsBefore(r)
    BY Zenon, <1>3, <2>1 DEF KnowsAsBefore
  <2>6. \A q \in Roles : q # r =>
          /\ \A h \in Gens : wire'[q][h].got = wire[q][h].got
          /\ accept'[q] = accept[q] /\ opener'[q] = opener[q] /\ due'[q] \in {due[q], None}
          /\ \A f \in Ends : cut'[f][q] = cut[f][q]
    BY Zenon, <1>3, <1>4, <2>1, <2>2
  <2>7. /\ \A f \in Ends : \A q \in Roles : ~(f = e /\ q = r) => slot'[f][q] = slot[f][q]
        /\ \A f \in Ends : phase'[f] \in {phase[f], "ended"}
    BY Zenon, <1>3, <2>1
  <2> QED
    BY ZenonT(60), <2>3, <2>4, <2>5, <2>6, <2>7, RoleStep
<1>6. CASE Install(r, g)
  <2>1. PICK s \in Slots : s = slot[e][r]
    BY <1>1 DEF LaneTypes
  <2>2. PICK t : t = [s EXCEPT !.state = "open", !.highest = g]
    BY Zenon
  <2>3. t \in Slots /\ t.highest = g
    <3>1. "open" \in {"absent", "open", "recovering", "disabled"}
      OBVIOUS
    <3> QED
      BY Zenon, <1>1, <2>2, <3>1 DEF Slots
  <2>4. /\ phase[e] = "authorized" /\ g > s.highest
        /\ slot' = [slot EXCEPT ![e][r].state = "open", ![e][r].highest = g]
        /\ due' = [due EXCEPT ![r] = [gen |-> g, owes |-> HasSteps(r) /\ (due[r].owes \/ Supersedes(r))]]
        /\ accept' = accept \/ accept' = [accept EXCEPT ![r].code = "superseded"]
    BY Zenon, <1>2, <1>6, <2>1 DEF Install, Admissible
  <2>5. /\ slot' \in [Ends -> [Roles -> Slots]] /\ slot'[e][r].highest = g
        /\ \A f \in Ends : \A q \in Roles : ~(f = e /\ q = r) => slot'[f][q] = slot[f][q]
    <3>1. slot \in [Ends -> [Roles -> Slots]]
      BY Zenon, <1>1 DEF LaneTypes
    <3>2. slot' = [slot EXCEPT ![e][r] = t]
      BY Zenon, <2>1, <2>2, <2>4, <3>1 DEF Slots
    <3>3. slot' \in [Ends -> [Roles -> Slots]] /\ slot'[e][r] = t
      BY Zenon, <2>3, <3>1, <3>2
    <3>4. \A f \in Ends : \A q \in Roles : ~(f = e /\ q = r) => slot'[f][q] = slot[f][q]
      BY Zenon, <3>1, <3>2
    <3> QED
      BY Zenon, <2>3, <3>3, <3>4
  <2>6. /\ due' \in [Roles -> [gen : Nat, owes : BOOLEAN]] /\ due'[r].gen = g
        /\ \A q \in Roles : q # r => due'[q] = due[q]
    <3>1. PICK o \in BOOLEAN : o = (HasSteps(r) /\ (due[r].owes \/ Supersedes(r)))
      BY Zenon
    <3>2. due' = [due EXCEPT ![r] = [gen |-> g, owes |-> o]]
      BY Zenon, <2>4, <3>1
    <3> QED
      BY Zenon, <1>1, <3>2 DEF LaneTypes
  <2>7. /\ accept' \in [Roles -> Readers]
        /\ \A q \in Roles : accept'[q].at = accept[q].at /\ accept'[q].gen = accept[q].gen
        /\ \A q \in Roles : q # r => accept'[q] = accept[q]
    <3>1. accept \in [Roles -> Readers]
      BY Zenon, <1>1 DEF LaneTypes
    <3>2. CASE accept' = accept
      BY Zenon, <3>1, <3>2
    <3>3. CASE accept' = [accept EXCEPT ![r].code = "superseded"]
      <4>1. PICK a \in Readers : a = accept[r]
        BY Zenon, <3>1
      <4>2. PICK b : b = [a EXCEPT !.code = "superseded"]
        BY Zenon
      <4>3. b \in Readers /\ b.at = a.at /\ b.gen = a.gen
        <5>1. "superseded" \in {"none", "failed", "superseded"}
          OBVIOUS
        <5> QED
          BY Zenon, <4>2, <5>1 DEF Readers
      <4>4. accept' = [accept EXCEPT ![r] = b]
        BY Zenon, <3>3, <4>1, <4>2
      <4> QED
        BY Zenon, <3>1, <4>1, <4>3, <4>4
    <3> QED
      BY Zenon, <2>4, <3>2, <3>3
  <2>8. LaneTypes'
    BY Zenon, <1>1, <1>3, <1>4, <2>5, <2>6, <2>7 DEF LaneTypes
  <2>9. ReadsNewest(r)'
    <3>1. /\ ReadUpTo(r, s.highest)
          /\ accept[r].at = "read" => accept[r].gen \in Gens /\ ReadUpTo(r, accept[r].gen)
                                      /\ accept[r].gen <= s.highest
      BY Zenon, <1>2, <2>1 DEF LaneIInv, ReadsNewest
    <3>2. s.highest \in Nat
      BY Zenon, <2>1 DEF Slots
    <3>3. \A h \in Gens : h <= s.highest => h <= g
      BY SMTT(30), <1>1, <2>4, <3>2, GensAreNumbers
    <3>4. \A h \in Gens : wire'[r][h].got > 0 => h <= g
      BY Zenon, <1>4, <3>1, <3>3 DEF ReadUpTo
    <3>5. g <= g /\ ~(Unauthorized(e)')
      BY SMTT(30), <1>1, <1>3, <2>4 DEF Unauthorized
    <3>6. ASSUME accept'[r].at = "read"
          PROVE  accept'[r].gen \in Gens /\ accept'[r].gen <= g
                 /\ \A h \in Gens : wire'[r][h].got > 0 => h <= accept'[r].gen
      <4>1. accept[r].at = "read" /\ accept'[r].gen = accept[r].gen
        BY Zenon, <2>7, <3>6
      <4> QED
        BY Zenon, <1>4, <3>1, <3>3, <4>1 DEF ReadUpTo
    <3> QED
      BY Zenon, <1>2, <2>5, <2>6, <3>4, <3>5, <3>6 DEF ReadsNewest, ReadUpTo
  <2>10. KnowsAsBefore(r)
    <3>1. slot'[Opener(r)][r] = slot[Opener(r)][r]
      BY ZenonT(60), <1>2, <2>5, TwoEnds
    <3> QED
      BY Zenon, <1>3, <3>1 DEF KnowsAsBefore
  <2>11. \A q \in Roles : q # r =>
          /\ \A h \in Gens : wire'[q][h].got = wire[q][h].got
          /\ accept'[q] = accept[q] /\ opener'[q] = opener[q] /\ due'[q] \in {due[q], None}
          /\ \A f \in Ends : cut'[f][q] = cut[f][q]
    BY Zenon, <1>3, <1>4, <2>6, <2>7
  <2>12. /\ \A f \in Ends : \A q \in Roles : ~(f = e /\ q = r) => slot'[f][q] = slot[f][q]
         /\ \A f \in Ends : phase'[f] \in {phase[f], "ended"}
    BY Zenon, <1>3, <2>5
  <2> QED
    BY ZenonT(60), <2>8, <2>9, <2>10, <2>11, <2>12, RoleStep
<1>7. CASE Refuse(r, g)
  <2>1. UNCHANGED <<slot, accept, due>>
    BY Zenon, <1>7 DEF Refuse
  <2>2. LaneTypes'
    BY Zenon, <1>1, <1>3, <1>4, <2>1 DEF LaneTypes
  <2>3. ASSUME NEW q \in Roles  PROVE ReadsAsBefore(q)
    BY Zenon, <1>3, <1>4, <2>1 DEF ReadsAsBefore
  <2>4. ASSUME NEW q \in Roles  PROVE KnowsAsBefore(q)
    BY Zenon, <1>3, <2>1 DEF KnowsAsBefore
  <2> QED
    BY Zenon, <2>2, <2>3, <2>4, LaneStep
<1> QED
  BY Zenon, <1>5, <1>6, <1>7 DEF Admit

\* A reset overtakes the preface.
LEMMA PrefaceLostKeeps ==
  ASSUME LaneIInv, NEW r \in Roles, NEW g \in Gens, PrefaceLost(r, g)
  PROVE  LaneIInv'
<1>1. LaneTypes
  BY Zenon DEF LaneIInv
<1>2. UNCHANGED <<phase, slot, opener, accept, due, cut>>
  BY Zenon DEF PrefaceLost
<1>3. /\ wire' \in [Roles -> [Gens -> Streams]]
      /\ \A q \in Roles : \A h \in Gens : wire'[q][h].got = wire[q][h].got
  BY Zenon, <1>1, AdmitWire
<1>4. LaneTypes'
  BY Zenon, <1>1, <1>2, <1>3 DEF LaneTypes
<1>5. ASSUME NEW q \in Roles  PROVE ReadsAsBefore(q)
  BY Zenon, <1>2, <1>3 DEF ReadsAsBefore
<1>6. ASSUME NEW q \in Roles  PROVE KnowsAsBefore(q)
  BY Zenon, <1>2 DEF KnowsAsBefore
<1> QED
  BY Zenon, <1>4, <1>5, <1>6, LaneStep

\* The owner takes the newest lane admitted.
LEMMA TakeLaneKeeps ==
  ASSUME LaneIInv, NEW r \in Roles, TakeLane(r)
  PROVE  LaneIInv'
<1>1. LaneTypes
  BY Zenon DEF LaneIInv
<1>2. PICK e \in Ends : e = Acceptor(r)
  BY Zenon, TwoEnds
<1>3. PICK c : c = IF due[r].owes THEN 0 ELSE accept[r].chain
  BY Zenon
<1>4. PICK n \in Nat : n = due[r].gen
  BY Zenon, <1>1 DEF LaneTypes
<1>5. PICK a : a = [at |-> "read", gen |-> n, code |-> "none", chain |-> c]
  BY Zenon
<1>6. /\ UNCHANGED <<phase, slot, wire, opener, cut>> /\ due[r] # None /\ phase[e] = "authorized"
      /\ accept' = [accept EXCEPT ![r] = a] /\ due' = [due EXCEPT ![r] = None]
  BY Zenon, <1>2, <1>3, <1>4, <1>5 DEF TakeLane
<1>7. a \in Readers /\ a.gen = n
  <2>1. c \in Nat
    BY Zenon, <1>1, <1>3 DEF LaneTypes, Readers
  <2> QED
    BY Zenon, <1>5, <2>1 DEF Readers
<1>8. /\ accept' \in [Roles -> Readers] /\ accept'[r] = a
      /\ \A q \in Roles : q # r => accept'[q] = accept[q]
  BY Zenon, <1>1, <1>6, <1>7 DEF LaneTypes
<1>9. /\ due' \in [Roles -> [gen : Nat, owes : BOOLEAN]] /\ due'[r] = None
      /\ \A q \in Roles : q # r => due'[q] = due[q]
  <2>1. None \in [gen : Nat, owes : BOOLEAN]
    BY DEF None
  <2> QED
    BY Zenon, <1>1, <1>6, <2>1 DEF LaneTypes
<1>10. LaneTypes'
  BY Zenon, <1>1, <1>6, <1>8, <1>9 DEF LaneTypes
<1>11. ReadsNewest(r)'
  <2>1. n \in Gens /\ ReadUpTo(r, n) /\ n <= slot[e][r].highest /\ ReadUpTo(r, slot[e][r].highest)
    BY Zenon, <1>2, <1>4, <1>6 DEF LaneIInv, ReadsNewest
  <2>2. ~(Unauthorized(e)')
    BY <1>6 DEF Unauthorized
  <2>3. \A x : ReadUpTo(r, x) => ReadUpTo(r, x)'
    BY Zenon, <1>6 DEF ReadUpTo
  <2>4. slot'[e][r].highest = slot[e][r].highest /\ accept'[r].gen = n
    BY Zenon, <1>6, <1>7, <1>8
  <2>5. \A h \in Gens : wire'[r][h].got > 0 => h <= n /\ h <= slot'[e][r].highest
    BY Zenon, <1>6, <2>1 DEF ReadUpTo
  <2> QED
    BY Zenon, <1>2, <1>9, <2>1, <2>2, <2>4, <2>5 DEF ReadsNewest, ReadUpTo
<1>12. KnowsAsBefore(r)
  BY Zenon, <1>6 DEF KnowsAsBefore
<1>13. \A q \in Roles : q # r =>
          /\ \A h \in Gens : wire'[q][h].got = wire[q][h].got
          /\ accept'[q] = accept[q] /\ opener'[q] = opener[q] /\ due'[q] \in {due[q], None}
          /\ \A f \in Ends : cut'[f][q] = cut[f][q]
  BY Zenon, <1>6, <1>8, <1>9
<1>14. /\ \A f \in Ends : \A q \in Roles : ~(f = e /\ q = r) => slot'[f][q] = slot[f][q]
       /\ \A f \in Ends : phase'[f] \in {phase[f], "ended"}
  BY Zenon, <1>6
<1> QED
  BY ZenonT(60), <1>10, <1>11, <1>12, <1>13, <1>14, RoleStep

\* A frame is read: no lane newer than the one it came on had delivered any.
LEMMA ReadFrameKeeps ==
  ASSUME LaneIInv, NEW r \in Roles, ReadFrame(r)
  PROVE  LaneIInv' /\ NoStepBack
<1>1. LaneTypes
  BY Zenon DEF LaneIInv
<1>2. PICK e \in Ends : e = Acceptor(r)
  BY Zenon, TwoEnds
<1>3. PICK g : g = accept[r].gen
  BY Zenon
<1>4. PICK c : c = IF HasSteps(r) THEN g ELSE 0
  BY Zenon
<1>5. /\ UNCHANGED <<phase, opener, due, cut>> /\ accept[r].at = "read" /\ Healthy(e, r, g)
      /\ wire' = [wire EXCEPT ![r][g].got = @ + 1]
      /\ accept' = [accept EXCEPT ![r].chain = c]
  BY Zenon, <1>2, <1>3, <1>4 DEF ReadFrame
<1>6. /\ g \in Gens /\ g \in Nat /\ ReadUpTo(r, g) /\ g <= slot[e][r].highest
      /\ due[r] # None => g <= due[r].gen /\ due[r].gen \in Gens /\ ReadUpTo(r, due[r].gen)
      /\ phase[e] = "authorized" /\ due[r] # None => due[r].gen <= slot[e][r].highest
      /\ ReadUpTo(r, slot[e][r].highest) /\ ~Unauthorized(e)
  <2>1. g \in Gens
    BY Zenon, <1>2, <1>3, <1>5 DEF LaneIInv, ReadsNewest
  <2>2. accept[r].at # "wait"
    BY Zenon, <1>5
  <2> QED
    BY Zenon, <1>2, <1>3, <1>5, <2>1, <2>2, GensAreNumbers DEF LaneIInv, ReadsNewest
<1>7. /\ slot' \in [Ends -> [Roles -> Slots]]
      /\ \A f \in Ends : \A q \in Roles :
            /\ slot'[f][q].highest = slot[f][q].highest /\ slot'[f][q].state = slot[f][q].state
            /\ ~(f = e /\ q = r) => slot'[f][q] = slot[f][q]
  BY Zenon, <1>1, <1>5, HealthyKeeps
<1>8. /\ accept' \in [Roles -> Readers] /\ accept'[r].at = accept[r].at /\ accept'[r].gen = g
      /\ \A q \in Roles : q # r => accept'[q] = accept[q]
  <2>1. accept \in [Roles -> Readers] /\ c \in Nat
    BY Zenon, <1>1, <1>4, <1>6 DEF LaneTypes
  <2>2. PICK a \in Readers : a = accept[r]
    BY Zenon, <2>1
  <2>3. PICK b : b = [a EXCEPT !.chain = c]
    BY Zenon
  <2>4. b \in Readers /\ b.at = a.at /\ b.gen = a.gen
    BY Zenon, <2>1, <2>3 DEF Readers
  <2>5. accept' = [accept EXCEPT ![r] = b]
    BY Zenon, <1>5, <2>2, <2>3
  <2> QED
    BY Zenon, <1>3, <2>1, <2>2, <2>4, <2>5
<1>9. /\ wire' \in [Roles -> [Gens -> Streams]]
      /\ \A q \in Roles : \A h \in Gens : ~(q = r /\ h = g) => wire'[q][h] = wire[q][h]
  <2>1. wire \in [Roles -> [Gens -> Streams]]
    BY Zenon, <1>1 DEF LaneTypes
  <2>2. PICK s \in Streams : s = wire[r][g]
    BY <1>6, <2>1
  <2>3. PICK n \in Nat : n = s.got + 1
    BY DEF Streams
  <2>4. PICK t : t = [s EXCEPT !.got = n]
    BY Zenon
  <2>5. t \in Streams
    BY Zenon, <2>4 DEF Streams
  <2>6. wire' = [wire EXCEPT ![r][g] = t]
    BY Zenon, <1>5, <2>2, <2>3, <2>4
  <2> QED
    BY Zenon, <2>1, <2>5, <2>6
<1>10. LaneTypes'
  BY Zenon, <1>1, <1>5, <1>7, <1>8, <1>9 DEF LaneTypes
<1>11. ReadsNewest(r)'
  <2>1. ASSUME NEW x, g <= x, ReadUpTo(r, x)
        PROVE  \A h \in Gens : wire'[r][h].got > 0 => h <= x
    BY Zenon, <1>9, <2>1 DEF ReadUpTo
  <2>2. g <= g /\ ~(Unauthorized(e)') /\ slot'[e][r].highest = slot[e][r].highest
    BY SMTT(30), <1>5, <1>6, <1>7 DEF Unauthorized
  <2>3. /\ \A h \in Gens : wire'[r][h].got > 0 => h <= g
        /\ \A h \in Gens : wire'[r][h].got > 0 => h <= slot[e][r].highest
        /\ due[r] # None => \A h \in Gens : wire'[r][h].got > 0 => h <= due[r].gen
    BY Zenon, <1>6, <2>1, <2>2
  <2> QED
    BY Zenon, <1>2, <1>5, <1>6, <1>8, <2>2, <2>3 DEF ReadsNewest, ReadUpTo
<1>12. KnowsAsBefore(r)
  BY Zenon, <1>5, <1>7, TwoEnds DEF KnowsAsBefore
<1>13. \A q \in Roles : q # r =>
          /\ \A h \in Gens : wire'[q][h].got = wire[q][h].got
          /\ accept'[q] = accept[q] /\ opener'[q] = opener[q] /\ due'[q] \in {due[q], None}
          /\ \A f \in Ends : cut'[f][q] = cut[f][q]
  BY Zenon, <1>5, <1>8, <1>9
<1>14. /\ \A f \in Ends : \A q \in Roles : ~(f = e /\ q = r) => slot'[f][q] = slot[f][q]
       /\ \A f \in Ends : phase'[f] \in {phase[f], "ended"}
  BY Zenon, <1>5, <1>7
<1>15. LaneIInv'
  BY ZenonT(60), <1>10, <1>11, <1>12, <1>13, <1>14, RoleStep
<1>16. NoStepBack
  <2>1. ASSUME NEW q \in Roles, NEW k \in Gens, wire'[q][k].got > wire[q][k].got,
               NEW h \in Gens, h > k
        PROVE  wire[q][h].got = 0
    <3>1. wire[q][k].got \in Nat /\ wire[q][h].got \in Nat
      BY SMTT(30), <1>1 DEF LaneTypes, Streams
    <3>2. q = r /\ k = g
      BY SMTT(30), <1>9, <2>1, <3>1
    <3>3. ~(wire[q][h].got > 0)
      BY SMTT(30), <1>6, <2>1, <3>2, GensAreNumbers DEF ReadUpTo
    <3> QED
      BY SMTT(30), <3>1, <3>3
  <2> QED
    BY Zenon, <2>1 DEF NoStepBack
<1> QED
  BY Zenon, <1>15, <1>16

\* Reading fails.
LEMMA ReaderFailsKeeps ==
  ASSUME LaneIInv, NEW r \in Roles, ReaderFails(r)
  PROVE  LaneIInv'
<1>1. LaneTypes
  BY Zenon DEF LaneIInv
<1>2. PICK e \in Ends : e = Acceptor(r)
  BY Zenon, TwoEnds
<1>3. PICK g : g = accept[r].gen
  BY Zenon
<1>4. PICK fails \in {0, slot[e][r].fails} :
         /\ ReportedAt(e, r, g, fails)
         /\ accept' = [accept EXCEPT ![r] = AfterReaderFailed(r, VerdictAt(e, r, g, fails))]
         /\ wire' = TornAfter(e, r, g, VerdictAt(e, r, g, fails))
  BY Zenon, <1>2, <1>3 DEF ReaderFails
<1>5. UNCHANGED <<opener, cut>> /\ accept[r].at = "read"
  BY Zenon DEF ReaderFails
<1>6. fails \in Nat
  <2>1. slot[e][r] \in Slots
    BY <1>1 DEF LaneTypes
  <2>2. slot[e][r].fails \in Nat
    BY Zenon, <2>1 DEF Slots
  <2> QED
    BY SMTT(30), <1>4, <2>2
<1>7. /\ accept' \in [Roles -> Readers] /\ accept'[r].at # "read"
      /\ \A q \in Roles : q # r => accept'[q] = accept[q]
  <2>1. PICK v : v = VerdictAt(e, r, g, fails)
    BY Zenon
  <2>2. PICK a : a = AfterReaderFailed(r, v)
    BY Zenon
  <2>3. a \in Readers /\ a.at # "read"
    BY Zenon, <2>2 DEF AfterReaderFailed, Waiting, StoppedAt, Readers
  <2>4. accept' = [accept EXCEPT ![r] = a]
    BY Zenon, <1>4, <2>1, <2>2
  <2> QED
    BY Zenon, <1>1, <2>3, <2>4 DEF LaneTypes
<1>8. opener' \in [Roles -> {"open", "opening", "run", "stopped"}] /\ cut' \in [Ends -> [Roles -> SUBSET Gens]]
  BY Zenon, <1>1, <1>5 DEF LaneTypes
<1>9. \A q \in Roles : q # r => /\ accept'[q] = accept[q] /\ opener'[q] = opener[q]
                                /\ \A f \in Ends : cut'[f][q] = cut[f][q]
  BY Zenon, <1>5, <1>7
<1>10. KnowsAsBefore(r)
  <2>1. /\ \A f \in Ends : \A q \in Roles : ~(f = e /\ q = r) => slot'[f][q] = slot[f][q]
        /\ \A f \in Ends : phase'[f] \in {phase[f], "ended"}
    <3>1. ReportedAt(e, r, g, fails)
      BY Zenon, <1>4
    <3>2. /\ \A f \in Ends : \A q \in Roles :
                /\ slot'[f][q].highest = slot[f][q].highest
                /\ ~(f = e /\ q = r) => slot'[f][q] = slot[f][q]
          /\ \A f \in Ends : phase'[f] \in {phase[f], "ended"}
      BY ZenonT(60), <1>1, <1>6, <3>1, ReportKeeps
    <3> QED
      BY Zenon, <3>2
  <2>2. slot'[Opener(r)][r] = slot[Opener(r)][r]
    BY ZenonT(60), <1>2, <2>1, TwoEnds
  <2>3. phase'[Opener(r)] = "ended" \/ phase[Opener(r)] # "ended"
    BY Zenon, <2>1, TwoEnds
  <2> QED
    BY Zenon, <1>5, <2>2, <2>3 DEF KnowsAsBefore
<1> QED
  BY ZenonT(60), <1>4, <1>5, <1>6, <1>7, <1>8, <1>9, <1>10, ReportStep

\* The reader leaves a cancelled lane, or stops waiting.
LEMMA ReaderLeavesKeeps ==
  ASSUME LaneIInv, NEW r \in Roles, ReaderCancelled(r) \/ WaitEnds(r)
  PROVE  LaneIInv'
<1>1. LaneTypes
  BY Zenon DEF LaneIInv
<1>2. UNCHANGED <<phase, slot, wire, opener, due, cut>>
  BY Zenon DEF ReaderCancelled, WaitEnds
<1>3. PICK a : /\ accept' = [accept EXCEPT ![r] = a]
               /\ a = StoppedAt(r) \/ a = Waiting(r, 0) \/ a = Waiting(r, accept[r].chain)
               /\ accept[r].at = "read" \/ phase[Acceptor(r)] = "ended"
  <2>1. CASE WaitEnds(r)
    BY Zenon, <2>1 DEF WaitEnds
  <2>2. CASE ReaderCancelled(r)
    BY Zenon, <2>2 DEF ReaderCancelled
  <2> QED
    BY Zenon, <2>1, <2>2
<1>4. a \in Readers /\ a.at # "read"
  <2>1. PICK c \in Nat : c = accept[r].chain
    BY Zenon, <1>1 DEF LaneTypes, Readers
  <2> QED
    BY SMTT(30), <1>3, <2>1 DEF Waiting, StoppedAt, Readers
<1>5. /\ accept' \in [Roles -> Readers] /\ accept'[r] = a
      /\ \A q \in Roles : q # r => accept'[q] = accept[q]
  BY Zenon, <1>1, <1>3, <1>4 DEF LaneTypes
<1>6. LaneTypes'
  BY Zenon, <1>1, <1>2, <1>5 DEF LaneTypes
<1>7. ASSUME NEW q \in Roles  PROVE ReadsAsBefore(q)
  BY Zenon, <1>2, <1>3, <1>4, <1>5 DEF ReadsAsBefore
<1>8. ASSUME NEW q \in Roles  PROVE KnowsAsBefore(q)
  BY Zenon, <1>2 DEF KnowsAsBefore
<1> QED
  BY Zenon, <1>6, <1>7, <1>8, LaneStep

-----------------------------------------------------------------------------
(* The lanes' theorems. *)

\* No lane is open, read or reported in the initial state.
LEMMA LaneStarts == LaneInit => LaneIInv
<1> SUFFICES ASSUME LaneInit PROVE LaneIInv
  BY Zenon
<1>1. LaneTypes
  BY Zenon DEF LaneInit, LaneTypes, Slots, Streams, Readers, None
<1>2. ASSUME NEW r \in Roles  PROVE OpenerKnows(r)
  <2>1. Opener(r) \in Ends /\ Acceptor(r) \in Ends
    BY Zenon, TwoEnds
  <2> QED
    BY Zenon, <2>1 DEF LaneInit, OpenerKnows
<1>3. ASSUME NEW r \in Roles  PROVE ReadsNewest(r)
  <2>1. \A h \in Gens : ~(wire[r][h].got > 0)
    BY SMTT(30) DEF LaneInit
  <2>2. /\ accept[r].at = "wait" /\ due[r] = None /\ accept[r].at # "read"
    BY DEF LaneInit
  <2> QED
    BY Zenon, <2>1, <2>2 DEF ReadsNewest, ReadUpTo
<1> QED
  BY Zenon, <1>1, <1>2, <1>3 DEF LaneIInv

\* Every step keeps the lanes' invariant.
LEMMA LaneInvStep == LaneIInv /\ [LaneNext]_laneVars => LaneIInv'
<1> SUFFICES ASSUME LaneIInv, [LaneNext]_laneVars PROVE LaneIInv'
  OBVIOUS
<1>1. CASE UNCHANGED laneVars
  <2>1. UNCHANGED <<phase, slot, wire, opener, accept, due, cut>>
    BY Zenon, <1>1 DEF laneVars
  <2>2. LaneTypes'
    BY Zenon, <2>1 DEF LaneIInv, LaneTypes
  <2>3. ASSUME NEW q \in Roles  PROVE ReadsAsBefore(q)
    BY Zenon, <2>1 DEF ReadsAsBefore
  <2>4. ASSUME NEW q \in Roles  PROVE KnowsAsBefore(q)
    BY Zenon, <2>1 DEF KnowsAsBefore
  <2> QED
    BY Zenon, <2>2, <2>3, <2>4, LaneStep
<1>2. CASE Connection
  BY Zenon, <1>2, ControlKeeps, GrantKeeps, AcceptKeeps, EndKeeps DEF Connection
<1>3. ASSUME NEW r \in Roles, Role(r)  PROVE LaneIInv'
  <2>1. CASE OpenLocal(r) \/ OpenStream(r) \/ WriteFrame(r) \/ OpenerCancelled(r)
    BY Zenon, <2>1, OpenLocalKeeps, OpenStreamKeeps, WriteFrameKeeps, OpenerCancelledKeeps
  <2>2. CASE TakeLane(r) \/ ReadFrame(r) \/ ReaderCancelled(r) \/ WaitEnds(r)
    <3>1. CASE TakeLane(r)
      BY Zenon, <3>1, TakeLaneKeeps
    <3>2. CASE ReadFrame(r)
      BY Zenon, <3>2, ReadFrameKeeps
    <3>3. CASE ReaderCancelled(r) \/ WaitEnds(r)
      BY Zenon, <3>3, ReaderLeavesKeeps
    <3> QED
      BY Zenon, <2>2, <3>1, <3>2, <3>3
  <2>3. CASE OpenTimesOut(r) \/ OpenerReaderFails(r) \/ ReaderFails(r)
    BY Zenon, <2>3, OpenTimesOutKeeps, OpenerReaderFailsKeeps, ReaderFailsKeeps
  <2>4. ASSUME NEW g \in Gens, Admit(r, g) \/ PrefaceLost(r, g)  PROVE LaneIInv'
    BY Zenon, <2>4, AdmitKeeps, PrefaceLostKeeps
  <2>5. ASSUME NEW g \in Gens, NEW e \in Ends, WriterStopped(e, r, g) \/ WriterReports(e, r, g)
        PROVE  LaneIInv'
    BY Zenon, <2>5, WriterStoppedKeeps, WriterReportsKeeps
  <2> QED
    BY Zenon, <1>3, <2>1, <2>2, <2>3, <2>4, <2>5 DEF Role
<1> QED
  BY Zenon, <1>1, <1>2, <1>3 DEF LaneNext

\* Only a read frame raises what a stream delivered.
LEMMA OnlyReadsDeliver == LaneIInv /\ [LaneNext]_laneVars => NoStepBack
<1> SUFFICES ASSUME LaneIInv, [LaneNext]_laneVars PROVE NoStepBack
  OBVIOUS
<1>1. LaneTypes
  BY Zenon DEF LaneIInv
<1>2. wire \in [Roles -> [Gens -> Streams]]
  BY Zenon, <1>1 DEF LaneTypes
<1>3. ASSUME \A q \in Roles : \A h \in Gens : wire'[q][h].got = wire[q][h].got  PROVE NoStepBack
  <2>1. \A q \in Roles : \A h \in Gens : wire[q][h].got \in Nat
    BY Zenon, <1>2 DEF Streams
  <2>2. \A q \in Roles : \A h \in Gens : ~(wire'[q][h].got > wire[q][h].got)
    BY <1>3, <2>1
  <2> QED
    BY Zenon, <2>2 DEF NoStepBack
<1>4. CASE UNCHANGED wire
  BY Zenon, <1>3, <1>4
<1>5. ASSUME NEW e \in Ends, EndAttachment(e)  PROVE NoStepBack
  <2>1. wire' = [r \in Roles |-> TornBy(e, r, HeldBy(e, r))]
    BY Zenon, <1>5 DEF EndAttachment
  <2>2. \A q \in Roles : \A h \in Gens : TornBy(e, q, HeldBy(e, q))[h].got = wire[q][h].got
    BY Zenon, <1>2, TornKeeps
  <2> QED
    BY Zenon, <1>3, <2>1, <2>2
<1>6. ASSUME NEW e \in Ends, NEW r \in Roles, NEW g, NEW v, wire' = TornAfter(e, r, g, v)
      PROVE  NoStepBack
  <2>1. \A q \in Roles : \A h \in Gens : TornAfter(e, r, g, v)[q][h].got = wire[q][h].got
    BY SMTT(30), <1>2, FailureKeeps
  <2> QED
    BY Zenon, <1>3, <1>6, <2>1
<1>7. ASSUME NEW r \in Roles, Role(r)  PROVE NoStepBack
  <2>1. CASE OpenLocal(r) \/ OpenerCancelled(r) \/ TakeLane(r) \/ ReaderCancelled(r) \/ WaitEnds(r)
    <3>1. UNCHANGED wire
      BY Zenon, <2>1 DEF OpenLocal, OpenerCancelled, TakeLane, ReaderCancelled, WaitEnds
    <3> QED
      BY Zenon, <1>4, <3>1
  <2>2. CASE OpenStream(r) \/ WriteFrame(r)
    BY Zenon, <1>1, <1>3, <2>2, OpenStreamWire, WriteFrameWire
  <2>3. CASE ReadFrame(r)
    BY Zenon, <2>3, ReadFrameKeeps
  <2>4. CASE OpenTimesOut(r) \/ OpenerReaderFails(r) \/ ReaderFails(r)
    <3>1. \E e \in Ends : \E g, v : wire' = TornAfter(e, r, g, v)
      BY Zenon, <2>4, TwoEnds DEF OpenTimesOut, OpenerReaderFails, ReaderFails
    <3> QED
      BY Zenon, <1>6, <3>1
  <2>5. ASSUME NEW g \in Gens, Admit(r, g) \/ PrefaceLost(r, g)  PROVE NoStepBack
    BY Zenon, <1>1, <1>3, <2>5, AdmitWire
  <2>6. ASSUME NEW g \in Gens, NEW e \in Ends, WriterStopped(e, r, g)  PROVE NoStepBack
    BY Zenon, <1>1, <1>3, <2>6, WriterStoppedWire
  <2>7. ASSUME NEW g \in Gens, NEW e \in Ends, WriterReports(e, r, g)  PROVE NoStepBack
    <3>1. \E v : wire' = TornAfter(e, r, g, v)
      BY Zenon, <2>7 DEF WriterReports
    <3> QED
      BY Zenon, <1>6, <3>1
  <2> QED
    BY Zenon, <1>7, <2>1, <2>2, <2>3, <2>4, <2>5, <2>6, <2>7 DEF Role
<1>8. CASE Connection
  <2>1. CASE DeckOpensControl \/ PierAdmitsControl \/ GrantAttachment \/ AcceptAttachment
    <3>1. UNCHANGED wire
      BY Zenon, <2>1 DEF DeckOpensControl, PierAdmitsControl, GrantAttachment, AcceptAttachment
    <3> QED
      BY Zenon, <1>4, <3>1
  <2> QED
    BY Zenon, <1>5, <1>8, <2>1 DEF Connection
<1>9. CASE UNCHANGED laneVars
  BY Zenon, <1>4, <1>9 DEF laneVars
<1> QED
  BY Zenon, <1>7, <1>8, <1>9 DEF LaneNext

\* The opening worker of a role that only it writes gives the role up only when the
\* registry has disabled the role or the attachment has ended at an end.
THEOREM StopsCorrect == LaneSpec => []StopsOnlyWhenExhausted
<1>1. LaneIInv => StopsOnlyWhenExhausted
  <2> SUFFICES ASSUME LaneIInv, NEW r \in Roles \ {"input", "bulk"}, opener[r] = "stopped"
               PROVE  \/ slot[Opener(r)][r].state = "disabled"
                      \/ \E e \in Ends : phase[e] = "ended"
    BY Zenon DEF StopsOnlyWhenExhausted
  <2>1. ~Bidirectional(r)
    BY DEF Bidirectional
  <2>2. OpenerKnows(r)
    BY Zenon, <2>1 DEF LaneIInv
  <2> QED
    BY Zenon, <2>2, TwoEnds DEF OpenerKnows
<1> QED
  BY <1>1, LaneStarts, LaneInvStep, PTL DEF LaneSpec

\* Once a newer lane of a role has delivered a frame, no older one delivers any,
\* in whatever order streams, prefaces and resets arrive.
THEOREM FramesCorrect == LaneSpec => FramesNeverGoBack
<1>1. LaneIInv /\ [LaneNext]_laneVars => [NoStepBack]_laneVars
  BY Zenon, OnlyReadsDeliver
<1> QED
  BY <1>1, LaneStarts, LaneInvStep, PTL DEF LaneSpec, FramesNeverGoBack
=============================================================================
