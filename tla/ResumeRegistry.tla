--------------------------- MODULE ResumeRegistry ---------------------------
(***************************************************************************)
(* The Linux Pier's process-local resume authority                          *)
(* (hosts/linux/src/session/resume.rs): one mutex-protected slot holding the *)
(* current grant of the one resumable session, rotated by every refresh and  *)
(* every accepted resume.                                                    *)
(*                                                                         *)
(* Each action is one operation under the registry mutex; the callers are    *)
(* left arbitrary here (any operation, any time, any grant ever issued) and  *)
(* are modelled in PierSession.  Grants are unforgeable, so a presented grant *)
(* is one of those issued; a nonce is the serial number of the grant that    *)
(* carries it.  Faults of the clock, of randomness and of signing are inputs. *)
(***************************************************************************)
EXTENDS Naturals

CONSTANTS Sessions,      \* ids of native sessions (ActiveHostSessionId)
          Holders,       \* Deck holder nonces; a Deck draws one per sign-in
          Owners,        \* owner tasks, by the channel the registry sends to
          MaxGrantGen,   \* last value of the grant generation (u64)
          MaxNonce,      \* how many grants are issued (bounds the model)
          NoEntry, Nobody

Nonces == 1 .. MaxNonce
GrantGens == 1 .. MaxGrantGen
EntryStates == {"Attached", "Detached", "Resuming", "Draining"}
Entries == [session : Sessions, holder : Holders, owner : Owners, generation : GrantGens,
            nonce : 0 .. MaxNonce, slot : {"active", "revoked"}, state : EntryStates]
Grants == [session : Sessions, holder : Holders, generation : GrantGens, nonce : Nonces]
Faults == {"none", "early", "sign"}

ASSUME GrantGenAssumption == MaxGrantGen \in Nat \ {0}
ASSUME NonceAssumption == MaxNonce \in Nat
ASSUME NoEntryAssumption == NoEntry \notin Entries
ASSUME NobodyAssumption == Nobody \notin Holders

VARIABLES entry,       \* Mutex<Option<RegistryEntry>>
          superseded,  \* holder of the last grant a hand-over invalidated
          grants,      \* every grant signed so far
          issued,      \* number of grants signed so far
          used         \* how often each grant was accepted for a resume

registryVars == <<entry, superseded, grants, issued, used>>

-----------------------------------------------------------------------------
(* The slot (shared/session/src/direct_reconnect.rs, DirectResumeSlot). *)

Active == entry # NoEntry /\ entry.slot = "active"
Owned(s) == entry # NoEntry /\ entry.session = s

RotatedSameNonce(e, n, state) == [e EXCEPT !.generation = @ + 1, !.state = state]

Revoked(e) ==
    [session |-> e.session, holder |-> e.holder, owner |-> e.owner,
     generation |-> e.generation, nonce |-> 0, slot |-> "revoked", state |-> "Draining"]

Rotated(e, n, state) ==
    [session |-> e.session, holder |-> e.holder, owner |-> e.owner,
     generation |-> e.generation + 1, nonce |-> n, slot |-> e.slot, state |-> state]

Exhausted(e) == e.generation = MaxGrantGen

GrantOf(e) == [session |-> e.session, holder |-> e.holder,
               generation |-> e.generation, nonce |-> e.nonce]

\* A grant is signed for the entry it becomes current in.
Sign(e) ==
    /\ entry' = e
    /\ grants' = grants \union {GrantOf(e)}
    /\ issued' = issued + 1

-----------------------------------------------------------------------------
(* Operations. *)

Init ==
    /\ entry = NoEntry
    /\ superseded = Nobody
    /\ grants = {}
    /\ issued = 0
    /\ used = [n \in Nonces |-> 0]

\* A holder nonce is 32 random bytes drawn by the Deck for this sign-in.
FreshHolder(h) == \A g \in grants : g.holder # h

MayIssue == entry = NoEntry /\ issued < MaxNonce

IssueInitial(s, h, o) ==
    /\ MayIssue
    /\ Sign([session |-> s, holder |-> h, owner |-> o, generation |-> 1,
             nonce |-> issued + 1, slot |-> "active", state |-> "Attached"])
    /\ UNCHANGED <<superseded, used>>

\* Both marks fail on a slot that is gone, another session's or draining.
MayMark(s) == Owned(s) /\ entry.state # "Draining"
Mark(s, state) ==
    /\ entry' = IF MayMark(s) THEN [entry EXCEPT !.state = state] ELSE entry
    /\ UNCHANGED <<superseded, grants, issued, used>>
MarkDetached(s) == Mark(s, "Detached")
MarkAttached(s) == Mark(s, "Attached")

\* The refresh rotates an attached slot; a failure past that check revokes it.
MayRefresh(s) == Owned(s) /\ entry.state = "Attached"
RefreshGrant(s, fault) ==
    \/ /\ MayRefresh(s) /\ fault = "none" /\ ~Exhausted(entry)
       /\ issued < MaxNonce
       /\ Sign(Rotated(entry, issued + 1, "Attached"))
       /\ UNCHANGED <<superseded, used>>
    \/ /\ MayRefresh(s) /\ (fault # "none" \/ Exhausted(entry))
       /\ entry' = Revoked(entry)
       /\ UNCHANGED <<superseded, grants, issued, used>>

BeginDrain(s) ==
    /\ entry' = IF Owned(s) THEN Revoked(entry) ELSE entry
    /\ UNCHANGED <<superseded, grants, issued, used>>

CompleteDrain(s) ==
    /\ entry' = IF Owned(s) THEN NoEntry ELSE entry
    /\ UNCHANGED <<superseded, grants, issued, used>>

\* retire_for_successor takes two locks: it records the holder, then drains.
RecordSuperseded(s) ==
    /\ superseded' = IF Owned(s) THEN entry.holder ELSE superseded
    /\ UNCHANGED <<entry, grants, issued, used>>

Shutdown ==
    /\ entry' = IF entry # NoEntry THEN Revoked(entry) ELSE entry
    /\ UNCHANGED <<superseded, grants, issued, used>>

CompleteShutdown ==
    /\ entry' = IF entry # NoEntry /\ entry.state = "Draining" THEN NoEntry ELSE entry
    /\ UNCHANGED <<superseded, grants, issued, used>>

-----------------------------------------------------------------------------
(* prepare_resume: validation, compare-and-rotate, and the terminal cases. *)

\* Mutant: every older grant counts as the predecessor.
PredecessorOrOlder(g) == g.generation < entry.generation

Predecessor(g) == g.generation + 1 = entry.generation
Current(g) == g.generation = entry.generation /\ g.nonce = entry.nonce

\* What the registry answers to grant g, presented with the session's host
\* identity and topology unchanged (same) or not, expired or not.
Verdict(g, same, expired, fault) ==
    IF superseded = g.holder \/ entry = NoEntry THEN "gone"
    ELSE IF ~Active \/ g.holder # entry.holder THEN "rejected"
    ELSE IF expired \/ g.session # entry.session THEN "rejected"
    ELSE IF ~Predecessor(g) /\ ~Current(g) THEN "rejected"
    ELSE IF entry.state # "Detached" THEN "rejected"
    ELSE IF Predecessor(g) THEN (IF same THEN "drained" ELSE "rejected")
    ELSE IF ~same THEN "drained"
    ELSE IF fault = "early" THEN "rejected"
    ELSE IF Exhausted(entry) THEN "exhausted"
    ELSE IF fault = "sign" THEN "drained"
    ELSE "permit"

\* A permit consumes the grant and signs its successor; "drained" also sends
\* the owner a Terminal command, "exhausted" does not.
ApplyVerdict(g, verdict) ==
    \/ /\ verdict = "permit" /\ issued < MaxNonce
       /\ Sign(Rotated(entry, issued + 1, "Resuming"))
       /\ used' = [used EXCEPT ![g.nonce] = @ + 1]
       /\ UNCHANGED superseded
    \/ /\ verdict \in {"drained", "exhausted"}
       /\ entry' = Revoked(entry)
       /\ UNCHANGED <<superseded, grants, issued, used>>
    \/ /\ verdict \in {"gone", "rejected"}
       /\ UNCHANGED registryVars

PrepareResume(g) ==
    \E same, expired \in BOOLEAN, fault \in Faults :
        ApplyVerdict(g, Verdict(g, same, expired, fault))

Issue == \E s \in Sessions, h \in Holders, o \in Owners : FreshHolder(h) /\ IssueInitial(s, h, o)
Detached == \E s \in Sessions : MarkDetached(s)
Attached == \E s \in Sessions : MarkAttached(s)
Refresh == \E s \in Sessions, fault \in Faults : RefreshGrant(s, fault)
Drain == \E s \in Sessions : BeginDrain(s)
Complete == \E s \in Sessions : CompleteDrain(s)
Supersede == \E s \in Sessions : RecordSuperseded(s)
Present == \E g \in grants : PrepareResume(g)

Next == Issue \/ Detached \/ Attached \/ Refresh \/ Drain \/ Complete \/ Supersede
        \/ Shutdown \/ CompleteShutdown \/ Present

Spec == Init /\ [][Next]_registryVars

-----------------------------------------------------------------------------
(* Properties. *)

TypeOK ==
    /\ entry \in Entries \union {NoEntry}
    /\ superseded \in Holders \union {Nobody}
    /\ grants \in SUBSET Grants
    /\ issued \in 0 .. MaxNonce
    /\ used \in [Nonces -> Nat]

\* A slot is draining exactly when its grant is revoked: no error path of
\* refresh_grant, prepare_resume, begin_drain or shutdown leaves a usable
\* grant behind, and none revokes the grant of a session that lives on.
DrainingIsRevoked == entry # NoEntry => (entry.state = "Draining" <=> entry.slot = "revoked")

\* compare_and_rotate gives every grant of a holder a generation of its own,
\* and the slot holds the newest one, also where the u64 counter ends.
SlotHoldsNewest ==
    /\ Active => GrantOf(entry) \in grants
    /\ Active => \A g \in grants : g.holder = entry.holder => g.generation <= entry.generation
    /\ \A g, h \in grants : g.holder = h.holder /\ g.generation = h.generation => g = h

\* No grant resumes a session twice, and the grant in the slot has not resumed
\* one, whatever is presented again, late, concurrently or to a later session.
GrantsAreOneTime ==
    \A n \in Nonces : used[n] <= 1 /\ (Active /\ entry.nonce = n => used[n] = 0)

\* Of all grants ever issued only the two newest of the slot's own session can
\* end it when presented, and only while it is detached: the current one with
\* a changed topology or a signing fault, and its exact predecessor.
OnlyNewestTwoEndSession ==
    \A g \in grants, same, expired \in BOOLEAN, fault \in Faults :
        Verdict(g, same, expired, fault) \in {"drained", "exhausted"} =>
            /\ entry.state = "Detached" /\ g.session = entry.session
            /\ \A h, i \in grants :
                  h.holder = g.holder /\ i.holder = g.holder
                  /\ h.generation > g.generation /\ i.generation > g.generation => h = i

\* A draining slot never comes back: no late mark, refresh or resume revives
\* it, it only disappears when its owner completes the drain.
DrainIsFinal ==
    [][entry # NoEntry /\ entry.state = "Draining" =>
          entry' = NoEntry \/ entry'.state = "Draining"]_registryVars

IssuedNonces == {g.nonce : g \in grants}
LiveNonces == IF Active THEN {entry.nonce} ELSE {}
Authority == INSTANCE ResumeAuthority WITH
    Tokens <- Nonces,
    live <- LiveNonces,
    spent <- IssuedNonces \ LiveNonces,
    accepted <- {n \in Nonces : used[n] > 0}

\* The slot with its generations, marks and error paths implements the
\* abstract authority: at most one live grant, spent grants stay spent.
ImplementsAuthority == Authority!Spec
=============================================================================
