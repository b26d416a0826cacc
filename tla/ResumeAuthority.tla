--------------------------- MODULE ResumeAuthority ---------------------------
(***************************************************************************)
(* What a Pier's resume authority promises, without slots, generations or    *)
(* sessions: at any time at most one resume grant is live, a grant is        *)
(* accepted only while it is live, and a grant that was accepted, refreshed  *)
(* or revoked is spent for ever.  ResumeRegistry implements it.              *)
(***************************************************************************)
CONSTANT Tokens

VARIABLES live,      \* the grant a Deck could resume with now, if any
          spent,     \* grants that are no longer live
          accepted   \* grants that resumed a session

vars == <<live, spent, accepted>>

Init == live = {} /\ spent = {} /\ accepted = {}

Unissued == Tokens \ (live \union spent)

\* A fresh sign-in receives the first grant of its session.
Issue(t) ==
    /\ live = {}
    /\ t \in Unissued
    /\ live' = {t}
    /\ UNCHANGED <<spent, accepted>>

\* The live grant is replaced: by a refresh, or by the resume that uses it.
Replace(t) ==
    /\ live # {}
    /\ t \in Unissued
    /\ live' = {t}
    /\ spent' = spent \union live

Refresh(t) == Replace(t) /\ UNCHANGED accepted
Accept(t) == Replace(t) /\ accepted' = accepted \union live

Revoke ==
    /\ live # {}
    /\ live' = {}
    /\ spent' = spent \union live
    /\ UNCHANGED accepted

Next == Revoke \/ \E t \in Tokens : Issue(t) \/ Refresh(t) \/ Accept(t)

Spec == Init /\ [][Next]_vars
=============================================================================
