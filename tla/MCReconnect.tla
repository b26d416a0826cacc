----------------------------- MODULE MCReconnect -----------------------------
(***************************************************************************)
(* The two reconnect state machines: the one the hosts share, with the host  *)
(* that carries its directives out (DirectReconnect), and the Deck's          *)
(* controller with its user-interface thread and session task               *)
(* (DeckReconnect).  The properties are stated in those modules.             *)
(*                                                                         *)
(* Each is explored against an arbitrary other end, so they share no state: a *)
(* behaviour is one of the part it starts with.                              *)
(***************************************************************************)
EXTENDS DirectReconnect, DeckReconnect

VARIABLE part

bothVars == <<part, vars, deckVars>>

BothInit == part \in {"host", "deck"} /\ Init /\ DeckInit

BothNext ==
    /\ UNCHANGED part
    /\ \/ part = "host" /\ Next /\ UNCHANGED deckVars
       \/ part = "deck" /\ DeckNext /\ UNCHANGED vars

\* Time passes and the armed timer eventually calls back (tokio's sleep).
HostFairness == WF_vars(part = "host" /\ Tick) /\ WF_vars(part = "host" /\ TimerCallback)

\* The user-interface thread keeps drawing frames and time passes; the task, the
\* host and the user owe nothing.
DeckFairness ==
    /\ WF_deckVars(part = "deck" /\ SyncMediaState)
    /\ WF_deckVars(part = "deck" /\ DriveReconnect)
    /\ WF_deckVars(part = "deck" /\ ClockTicks)

BothSpec == BothInit /\ [][BothNext]_bothVars /\ HostFairness /\ DeckFairness

=============================================================================
