------------------------------ MODULE CertStore ------------------------------
(***************************************************************************)
(* What certificate provisioning promises (shared/transport/src/             *)
(* cert_transaction.rs and cert_provisioning.rs): the certificate, its key,  *)
(* the two pin files and the ownership marker are one value.  It changes as  *)
(* a whole, to a set that matches, and to another key only on request.       *)
(***************************************************************************)
EXTENDS Naturals

CONSTANTS Absent,          \* no file
          MaxIssued        \* certificates and keys ever issued

VARIABLES material,        \* the managed files
          request          \* what the operator asked for

Files == {"key", "crt", "pin", "spki", "marker"}

\* The set published for certificate g over key k.
Whole(g, k) ==
    [f \in Files |-> IF f \in {"key", "spki"} THEN k ELSE <<g, k>>]

\* Nothing, what an older release or an operator installed, or our own.
Initial ==
    {[f \in Files |-> IF f \in present THEN Whole(0, 0)[f] ELSE Absent] :
        present \in {{}, {"key", "crt"}, {"key", "crt", "pin", "spki"}, Files}}

Init == material \in Initial /\ request = "Ensure"

Ask == request' \in {"Ensure", "Renew", "Rekey", "AdoptLegacy"} /\ UNCHANGED material

Publish ==
    /\ \E g \in 1 .. MaxIssued, k \in 0 .. MaxIssued :
          /\ material' = Whole(g, k)
          /\ k = material["key"] \/ material["key"] = Absent \/ request = "Rekey"
    /\ UNCHANGED request

Next == Ask \/ Publish

Spec == Init /\ [][Next]_<<material, request>>
=============================================================================
