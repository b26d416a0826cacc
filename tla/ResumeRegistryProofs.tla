------------------------ MODULE ResumeRegistryProofs ------------------------
(***************************************************************************)
(* Proofs about ResumeRegistry for every set of sessions, holders and owners *)
(* and every bound of the counters.                                          *)
(***************************************************************************)
EXTENDS ResumeRegistry, TLAPS

\* Nonces are serial numbers: nothing carries one that was not issued yet.
NoncesAreSerial ==
    /\ \A g \in grants : g.nonce <= issued
    /\ \A n \in Nonces : used[n] > 0 => n <= issued

\* The inductive invariant.  SlotHoldsNewest and NoncesAreSerial are what make
\* the nonce a rotation installs one that no grant carried and no resume used.
IInv == TypeOK /\ DrainingIsRevoked /\ SlotHoldsNewest /\ GrantsAreOneTime /\ NoncesAreSerial

\* How a step of the registry can change it: it signs a grant for a first
\* entry or for the rotated current one (refresh or accepted resume), marks
\* the entry, revokes it, removes it, or records a superseded holder.
SignsFirst ==
    \E s \in Sessions, h \in Holders, o \in Owners : FreshHolder(h) /\ IssueInitial(s, h, o)
Rotates(state) ==
    /\ Active /\ ~Exhausted(entry) /\ issued < MaxNonce
    /\ Sign(Rotated(entry, issued + 1, state))
    /\ UNCHANGED superseded
Refreshes == Rotates("Attached") /\ UNCHANGED used
Accepts == Rotates("Resuming") /\ used' = [used EXCEPT ![entry.nonce] = @ + 1]
Marks ==
    /\ entry # NoEntry /\ entry.state # "Draining"
    /\ \E state \in {"Attached", "Detached"} : entry' = [entry EXCEPT !.state = state]
    /\ UNCHANGED <<superseded, grants, issued, used>>
Revokes ==
    /\ entry # NoEntry /\ entry' = Revoked(entry)
    /\ UNCHANGED <<superseded, grants, issued, used>>
Removes ==
    /\ entry # NoEntry /\ entry' = NoEntry
    /\ UNCHANGED <<superseded, grants, issued, used>>
Records ==
    /\ superseded' \in Holders \union {Nobody}
    /\ UNCHANGED <<entry, grants, issued, used>>

\* Every step of the registry is one of these or changes nothing.
LEMMA StepShapes ==
    IInv /\ Next => \/ SignsFirst \/ Refreshes \/ Accepts \/ Marks
                    \/ Revokes \/ Removes \/ Records \/ UNCHANGED registryVars
<1> SUFFICES ASSUME IInv, Next
             PROVE  \/ SignsFirst \/ Refreshes \/ Accepts \/ Marks
                    \/ Revokes \/ Removes \/ Records \/ UNCHANGED registryVars
    OBVIOUS
<1>1. CASE Issue
  BY <1>1 DEF Issue, SignsFirst
<1>2. ASSUME NEW s \in Sessions, MarkDetached(s) \/ MarkAttached(s)
      PROVE  Marks \/ UNCHANGED registryVars
  BY <1>2 DEF MarkDetached, MarkAttached, Mark, MayMark, Owned, Marks, registryVars
<1>3. ASSUME NEW s \in Sessions, NEW fault \in Faults, RefreshGrant(s, fault)
      PROVE  Refreshes \/ Revokes
  BY <1>3 DEF RefreshGrant, MayRefresh, Owned, Refreshes, Rotates, Revokes, IInv,
              DrainingIsRevoked, Active, TypeOK, Entries
<1>4. ASSUME NEW s \in Sessions, BeginDrain(s) \/ CompleteDrain(s)
      PROVE  Revokes \/ Removes \/ UNCHANGED registryVars
  BY <1>4 DEF BeginDrain, CompleteDrain, Owned, Revokes, Removes, registryVars
<1>5. ASSUME NEW s \in Sessions, RecordSuperseded(s)
      PROVE  Records
  BY <1>5 DEF RecordSuperseded, Owned, Records, IInv, TypeOK, Entries
<1>6. CASE Shutdown \/ CompleteShutdown
  BY <1>6 DEF Shutdown, CompleteShutdown, Revokes, Removes, registryVars
<1>7. ASSUME NEW g \in grants, PrepareResume(g)
      PROVE  Accepts \/ Revokes \/ UNCHANGED registryVars
  <2>1. PICK same \in BOOLEAN, expired \in BOOLEAN, fault \in Faults :
            ApplyVerdict(g, Verdict(g, same, expired, fault))
    BY <1>7 DEF PrepareResume
  <2>2. DEFINE verdict == Verdict(g, same, expired, fault)
  <2>3. /\ verdict = "permit" => Active /\ ~Exhausted(entry) /\ g.nonce = entry.nonce
        /\ verdict \in {"drained", "exhausted"} => entry # NoEntry
    BY DEF Verdict, Current, Active
  <2>4. ApplyVerdict(g, verdict)
    BY <2>1
  <2> HIDE DEF verdict
  <2> QED
    BY <2>3, <2>4 DEF ApplyVerdict, Accepts, Rotates, Revokes
<1> QED
  BY <1>1, <1>2, <1>3, <1>4, <1>5, <1>6, <1>7
     DEF Next, Detached, Attached, Refresh, Drain, Complete, Supersede, Present

\* An empty registry satisfies the invariant (new, resume.rs).
LEMMA InitIInv == Init => IInv
  BY NonceAssumption DEF Init, IInv, TypeOK, DrainingIsRevoked, SlotHoldsNewest,
     GrantsAreOneTime, NoncesAreSerial, Active

\* Every operation of the registry keeps the invariant, by the shape of its step.
LEMMA NextIInv == IInv /\ [Next]_registryVars => IInv'
<1> SUFFICES ASSUME IInv, [Next]_registryVars PROVE IInv'
    OBVIOUS
<1> USE GrantGenAssumption, NonceAssumption, NoEntryAssumption
<1>1. CASE SignsFirst
  <2>1. PICK s \in Sessions, h \in Holders, o \in Owners : FreshHolder(h) /\ IssueInitial(s, h, o)
    BY <1>1 DEF SignsFirst
  <2> DEFINE e == [session |-> s, holder |-> h, owner |-> o, generation |-> 1,
                   nonce |-> issued + 1, slot |-> "active", state |-> "Attached"]
  <2>2. /\ entry' = e /\ grants' = grants \union {GrantOf(e)} /\ issued' = issued + 1
        /\ superseded' = superseded /\ used' = used /\ issued < MaxNonce
    BY <2>1 DEF IssueInitial, Sign, MayIssue
  <2>3. e \in Entries /\ GrantOf(e) \in Grants
    BY <2>2 DEF IInv, TypeOK, Entries, Grants, GrantOf, GrantGens, Nonces, EntryStates
  <2>4. TypeOK'
    BY <2>2, <2>3 DEF IInv, TypeOK
  <2>5. SlotHoldsNewest'
    BY <2>1, <2>2 DEF IInv, TypeOK, SlotHoldsNewest, FreshHolder, GrantOf, Active, Grants, GrantGens
  <2>6. DrainingIsRevoked' /\ GrantsAreOneTime' /\ NoncesAreSerial'
    BY <2>2, <2>3 DEF IInv, TypeOK, DrainingIsRevoked, GrantsAreOneTime, NoncesAreSerial,
       Active, GrantOf, Nonces, Grants
  <2> QED BY <2>4, <2>5, <2>6 DEF IInv
<1>2. ASSUME NEW state \in {"Attached", "Resuming"}, Rotates(state),
             \/ used' = used
             \/ used' = [used EXCEPT ![entry.nonce] = @ + 1]
      PROVE  IInv'
  <2> DEFINE e == Rotated(entry, issued + 1, state)
  <2>1. /\ entry' = e /\ grants' = grants \union {GrantOf(e)} /\ issued' = issued + 1
        /\ superseded' = superseded /\ issued < MaxNonce /\ Active /\ entry \in Entries
    BY <1>2 DEF Rotates, Sign, IInv, TypeOK, Active
  <2>2. e \in Entries /\ GrantOf(e) \in Grants
    BY <2>1, <1>2 DEF IInv, TypeOK, Entries, Grants, GrantOf, GrantGens, Nonces, EntryStates,
       Rotates, Rotated, Exhausted
  <2>3. /\ e.slot = "active" /\ e.state # "Draining" /\ e.holder = entry.holder
        /\ e.generation = entry.generation + 1 /\ e.nonce = issued + 1
    BY <2>1, <1>2 DEF Rotated, Active
  <2>4. TypeOK'
    BY SMTT(60), <1>2, <2>1, <2>2 DEF IInv, TypeOK, Nonces, Entries
  <2>5. SlotHoldsNewest'
    BY <2>1, <2>2, <2>3 DEF IInv, TypeOK, SlotHoldsNewest, GrantOf, Active, Grants, GrantGens,
       Entries
  <2>6. entry.nonce \in Nonces /\ entry.nonce <= issued /\ used[entry.nonce] = 0
    BY <2>1 DEF IInv, TypeOK, SlotHoldsNewest, GrantsAreOneTime, NoncesAreSerial, GrantOf, Grants
  <2>7. GrantsAreOneTime' /\ NoncesAreSerial'
    BY SMTT(60), <1>2, <2>1, <2>2, <2>3, <2>6 DEF IInv, TypeOK, GrantsAreOneTime, NoncesAreSerial,
       Active, GrantOf, Nonces, Grants
  <2>8. DrainingIsRevoked'
    BY <2>1, <2>2, <2>3 DEF DrainingIsRevoked
  <2> QED BY <2>4, <2>5, <2>7, <2>8 DEF IInv
<1>3. CASE Marks
  <2>1. PICK state \in {"Attached", "Detached"} : entry' = [entry EXCEPT !.state = state]
    BY <1>3 DEF Marks
  <2>2. entry \in Entries /\ entry.state # "Draining"
    BY <1>3 DEF Marks, IInv, TypeOK
  <2>3. entry' = [session |-> entry.session, holder |-> entry.holder, owner |-> entry.owner,
                  generation |-> entry.generation, nonce |-> entry.nonce,
                  slot |-> entry.slot, state |-> state]
    BY <2>1, <2>2 DEF Entries
  <2>4. entry' \in Entries
    BY <2>2, <2>3 DEF Entries, EntryStates
  <2> QED
    BY <1>3, <2>2, <2>3, <2>4 DEF Marks, IInv, TypeOK, DrainingIsRevoked, SlotHoldsNewest,
       GrantsAreOneTime, NoncesAreSerial, Active, GrantOf
<1>4. CASE Revokes
  <2>1. entry \in Entries /\ entry' = Revoked(entry)
    BY <1>4 DEF Revokes, IInv, TypeOK
  <2>2. entry' \in Entries /\ entry'.slot = "revoked" /\ entry'.state = "Draining"
    BY <2>1 DEF Revoked, Entries, EntryStates
  <2> QED
    BY <1>4, <2>2 DEF Revokes, IInv, TypeOK, DrainingIsRevoked, SlotHoldsNewest,
       GrantsAreOneTime, NoncesAreSerial, Active
<1>5. CASE Removes
  BY <1>5 DEF Removes, IInv, TypeOK, DrainingIsRevoked, SlotHoldsNewest,
     GrantsAreOneTime, NoncesAreSerial, Active
<1>6. CASE Records \/ UNCHANGED registryVars
  BY <1>6 DEF Records, registryVars, IInv, TypeOK, DrainingIsRevoked, SlotHoldsNewest,
     GrantsAreOneTime, NoncesAreSerial, Active, GrantOf
<1> QED
  BY <1>1, <1>2, <1>3, <1>4, <1>5, <1>6, StepShapes DEF Refreshes, Accepts

\* The registry keeps its inductive invariant whatever its callers do.
THEOREM RegistryInvariant == Spec => []IInv
  BY InitIInv, NextIInv, PTL DEF Spec

\* Type correctness: the generation counter in particular never leaves its type.
THEOREM TypeCorrect == Spec => []TypeOK
  BY RegistryInvariant, PTL DEF IInv

\* No grant resumes a session twice (GrantsAreOneTime).
THEOREM OneTimeCorrect == Spec => []GrantsAreOneTime
  BY RegistryInvariant, PTL DEF IInv

\* A slot drains exactly when its grant is revoked (DrainingIsRevoked).
THEOREM DrainingCorrect == Spec => []DrainingIsRevoked
  BY RegistryInvariant, PTL DEF IInv

\* Generations are never reused and the slot holds the newest (SlotHoldsNewest).
THEOREM NewestCorrect == Spec => []SlotHoldsNewest
  BY RegistryInvariant, PTL DEF IInv

\* A draining slot never comes back (DrainIsFinal).
THEOREM DrainFinalCorrect == Spec => DrainIsFinal
<1>1. IInv /\ [Next]_registryVars =>
        [entry # NoEntry /\ entry.state = "Draining" =>
            entry' = NoEntry \/ entry'.state = "Draining"]_registryVars
  <2> SUFFICES ASSUME IInv, Next, entry # NoEntry, entry.state = "Draining"
               PROVE  entry' = NoEntry \/ entry'.state = "Draining"
      BY DEF registryVars
  <2>1. ~Active
    BY DEF IInv, DrainingIsRevoked, Active
  <2>2. ~SignsFirst /\ ~Refreshes /\ ~Accepts /\ ~Marks
    BY Zenon, <2>1 DEF SignsFirst, IssueInitial, MayIssue, Refreshes, Accepts, Rotates, Marks
  <2>3. Revokes => entry'.state = "Draining"
    BY DEF Revokes, Revoked
  <2> QED
    BY <2>2, <2>3, StepShapes DEF Removes, Records, registryVars
<1> QED
  BY <1>1, RegistryInvariant, PTL DEF Spec, DrainIsFinal

\* Presented grants other than the newest two of the session leave it alone
\* (OnlyNewestTwoEndSession).
THEOREM StaleGrantsHarmless == Spec => []OnlyNewestTwoEndSession
<1>1. IInv => OnlyNewestTwoEndSession
  <2> SUFFICES ASSUME IInv, NEW g \in grants, NEW same \in BOOLEAN, NEW expired \in BOOLEAN,
                      NEW fault \in Faults,
                      Verdict(g, same, expired, fault) \in {"drained", "exhausted"}
               PROVE  /\ entry.state = "Detached" /\ g.session = entry.session
                      /\ \A h, i \in grants :
                            h.holder = g.holder /\ i.holder = g.holder
                            /\ h.generation > g.generation /\ i.generation > g.generation
                            => h = i
      BY DEF OnlyNewestTwoEndSession
  <2>1. /\ entry.state = "Detached" /\ g.session = entry.session /\ g.holder = entry.holder
        /\ Active /\ (Predecessor(g) \/ Current(g))
    BY DEF Verdict
  <2>2. g.generation = entry.generation \/ g.generation + 1 = entry.generation
    BY <2>1 DEF Predecessor, Current
  <2> QED
    BY <2>1, <2>2, GrantGenAssumption DEF IInv, TypeOK, SlotHoldsNewest, Grants, GrantGens,
       Entries, Active
<1> QED
  BY <1>1, RegistryInvariant, PTL

-----------------------------------------------------------------------------
(* Refinement: the registry implements ResumeAuthority. *)

\* An empty registry is an authority that issued nothing.
LEMMA InitRefines == Init => Authority!Init
  BY DEF Init, Authority!Init, LiveNonces, IssuedNonces, Active

\* What the slot holds after it signed the grant of a first or a rotated entry.
LEMMA Signed ==
    ASSUME IInv, SignsFirst \/ \E state \in {"Attached", "Resuming"} : Rotates(state)
    PROVE  /\ issued < MaxNonce /\ entry' # NoEntry /\ Active'
           /\ entry'.nonce = issued + 1 /\ grants' = grants \union {GrantOf(entry')}
<1> USE GrantGenAssumption, NonceAssumption, NoEntryAssumption
<1>1. CASE SignsFirst
  <2>1. PICK s \in Sessions, h \in Holders, o \in Owners : IssueInitial(s, h, o)
    BY <1>1 DEF SignsFirst
  <2>2. entry' = [session |-> s, holder |-> h, owner |-> o, generation |-> 1,
                  nonce |-> issued + 1, slot |-> "active", state |-> "Attached"]
        /\ issued < MaxNonce /\ grants' = grants \union {GrantOf(entry')}
    BY <2>1 DEF IssueInitial, MayIssue, Sign
  <2>3. entry' \in Entries
    BY <2>2 DEF IInv, TypeOK, Entries, GrantGens, EntryStates
  <2> QED BY <2>2, <2>3 DEF Active
<1>2. CASE \E state \in {"Attached", "Resuming"} : Rotates(state)
  <2>1. PICK state \in {"Attached", "Resuming"} : Rotates(state)
    BY <1>2
  <2>2. entry' = Rotated(entry, issued + 1, state) /\ Active /\ ~Exhausted(entry)
        /\ issued < MaxNonce /\ grants' = grants \union {GrantOf(entry')}
    BY <2>1 DEF Rotates, Sign
  <2>3. entry \in Entries /\ entry.slot = "active"
    BY <2>2 DEF IInv, TypeOK, Active
  <2>4. entry' \in Entries
    BY <2>2, <2>3 DEF IInv, TypeOK, Entries, GrantGens, EntryStates, Rotated, Exhausted
  <2>5. entry'.slot = "active" /\ entry'.nonce = issued + 1
    BY <2>2, <2>3 DEF Rotated
  <2> QED BY <2>2, <2>4, <2>5 DEF Active
<1> QED BY <1>1, <1>2

\* Every operation of the registry is a step of the authority or leaves it alone.
LEMMA StepRefines == IInv /\ [Next]_registryVars => [Authority!Next]_(Authority!vars)
<1> SUFFICES ASSUME IInv, [Next]_registryVars PROVE [Authority!Next]_(Authority!vars)
    OBVIOUS
<1> DEFINE live == LiveNonces
           issuedN == IssuedNonces
           accepted == {n \in Nonces : used[n] > 0}
           next == issued + 1
<1>0. /\ live \subseteq issuedN
      /\ \A n \in issuedN : n \in Nonces /\ n <= issued
      /\ Active => live = {entry.nonce} /\ entry.nonce \in Nonces
      /\ ~Active => live = {}
  BY DEF IInv, TypeOK, SlotHoldsNewest, NoncesAreSerial, LiveNonces, IssuedNonces, GrantOf,
     Grants, Active
<1>1. ASSUME SignsFirst \/ \E state \in {"Attached", "Resuming"} : Rotates(state)
      PROVE  /\ live' = {next} /\ issuedN' = issuedN \union {next}
             /\ next \in Nonces /\ next \notin issuedN
  <2>1. /\ issued < MaxNonce /\ entry'.nonce = next /\ Active'
        /\ grants' = grants \union {GrantOf(entry')}
    BY <1>1, Signed
  <2>2. GrantOf(entry').nonce = next
    BY <2>1 DEF GrantOf
  <2>3. issuedN' = issuedN \union {next}
    BY <2>1, <2>2 DEF IssuedNonces
  <2>4. next \in Nonces /\ next \notin issuedN
    BY <2>1, <1>0, NonceAssumption DEF Nonces, IInv, TypeOK
  <2>5. live' = {next}
    BY <2>1 DEF LiveNonces
  <2> QED BY <2>3, <2>4, <2>5
<1>2. CASE SignsFirst
  <2>1. ~Active /\ used' = used
    BY <1>2 DEF SignsFirst, IssueInitial, MayIssue, Active
  <2>2. Authority!Issue(next) /\ next \in Nonces
    BY <2>1, <1>0, <1>1, <1>2 DEF Authority!Issue, Authority!Unissued
  <2> QED BY <2>2 DEF Authority!Next
<1>3. ASSUME NEW state \in {"Attached", "Resuming"}, Rotates(state)
      PROVE  Authority!Replace(next) /\ next \in Nonces
  <2>1. Active
    BY <1>3 DEF Rotates
  <2>2. /\ live' = {next} /\ issuedN' = issuedN \union {next}
        /\ next \in Nonces /\ next \notin issuedN
    BY <1>1, <1>3
  <2> QED
    BY <2>1, <2>2, <1>0 DEF Authority!Replace, Authority!Unissued
<1>4. CASE Refreshes
  <2>1. Authority!Refresh(next) /\ next \in Nonces
    BY <1>3, <1>4 DEF Refreshes, Authority!Refresh
  <2> HIDE DEF next
  <2> QED BY <2>1 DEF Authority!Next
<1>5. CASE Accepts
  <2>1. accepted' = accepted \union live
    BY <1>5, <1>0 DEF Accepts, Rotates, IInv, TypeOK
  <2>2. Authority!Accept(next) /\ next \in Nonces
    BY <1>3, <1>5, <2>1 DEF Accepts, Authority!Accept
  <2> HIDE DEF next, accepted
  <2>3. \E t \in Nonces : Authority!Accept(t)
    BY <2>2 DEF Authority!Accept
  <2>4. Authority!Next
    BY <2>3, Zenon DEF Authority!Next
  <2> QED BY <2>4
<1>6. ASSUME ~Active', grants' = grants, used' = used
      PROVE  Authority!Revoke \/ UNCHANGED Authority!vars
  BY <1>6, <1>0 DEF Authority!Revoke, Authority!vars, LiveNonces, IssuedNonces
<1>7. CASE Marks
  <2>1. entry \in Entries /\ grants' = grants /\ used' = used
    BY <1>7 DEF Marks, IInv, TypeOK
  <2>2. PICK state \in {"Attached", "Detached"} : entry' = [entry EXCEPT !.state = state]
    BY <1>7 DEF Marks
  <2>3. entry' \in Entries /\ entry'.slot = entry.slot /\ entry'.nonce = entry.nonce
    BY <2>1, <2>2 DEF Entries, EntryStates
  <2>4. entry # NoEntry /\ entry' # NoEntry
    BY <2>1, <2>3, NoEntryAssumption
  <2> QED BY <2>1, <2>3, <2>4 DEF Authority!vars, LiveNonces, IssuedNonces, Active
<1>8. CASE Revokes \/ Removes
  <2>1. ~Active' /\ grants' = grants /\ used' = used
    BY <1>8 DEF Revokes, Removes, Revoked, Active
  <2> QED BY <2>1, <1>6 DEF Authority!Next
<1>9. CASE Records \/ UNCHANGED registryVars
  BY <1>9 DEF Records, registryVars, Active, Authority!vars, LiveNonces, IssuedNonces
<1> QED
  BY <1>2, <1>4, <1>5, <1>7, <1>8, <1>9, StepShapes

\* The registry implements the abstract authority (ImplementsAuthority): at most
\* one live grant, and a spent grant stays spent.
THEOREM Refinement == Spec => ImplementsAuthority
  BY InitRefines, StepRefines, RegistryInvariant, PTL DEF Spec, ImplementsAuthority, Authority!Spec
=============================================================================
