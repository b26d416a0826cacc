------------------------------- MODULE MCInput -------------------------------
(***************************************************************************)
(* The path of the Deck's input into a Linux desktop: the outbox and the lane *)
(* that carry it to the uinput injector (InputLane), and the injector of a     *)
(* Wayland session with the input service behind it (WaylandInput).          *)
(*                                                                         *)
(* A session has one injector or the other, so the two never meet.  A         *)
(* behaviour is one of the part it starts with; the other stays as it began.  *)
(***************************************************************************)
EXTENDS WaylandInput, InputLane

CONSTANTS k, m, button, s1, s2

VARIABLE part

\* The outbox as extended carries pointer, button and reset records over a lane
\* that may fail; here it carries the pen.
Pen == INSTANCE InputLane WITH
    Kinds <- {"ink", "hover", "key"}, KeyCodes <- {k}, Buttons <- {}, Strokes <- {s1, s2},
    MaxDelta <- 2, Cap <- 1, LaneCap <- 1, MaxRecords <- 4, MaxFails <- 0

\* The service as extended has two attachments, the second connecting while the
\* first ends, events enough to fill the queue and one break.  Here the compositor
\* fails, a press and a release later, or two releases ...
Failing == INSTANCE WaylandInput WITH
    Keys <- {k, m}, Mods <- {m}, Injectors <- {1, 2}, QueueCap <- 2, MaxAttempts <- 2,
    MaxEvents <- 2, MaxBreaks <- 1, MaxReconfigs <- 0, MaxFaults <- 2, MaxConns <- 3

\* ... here the outputs change under two attachments, and nothing breaks ...
Reconfigured == INSTANCE WaylandInput WITH
    Keys <- {k, m}, Mods <- {m}, Injectors <- {1, 2}, QueueCap <- 2, MaxAttempts <- 2,
    MaxEvents <- 2, MaxBreaks <- 0, MaxReconfigs <- 1, MaxFaults <- 1, MaxConns <- 2

\* ... and here one attachment breaks often enough to heal and break again, or to
\* use up its attempts.  A connection follows a break or is the first, so MaxConns
\* never stops an attempt.
Retried == INSTANCE WaylandInput WITH
    Keys <- {k, m}, Mods <- {m}, Injectors <- {1}, QueueCap <- 2, MaxAttempts <- 2,
    MaxEvents <- 2, MaxBreaks <- 3, MaxReconfigs <- 0, MaxFaults <- 0, MaxConns <- 4

inputVars == <<part, outboxVars, vars>>

InputInit ==
    /\ part \in {"pointer", "pen", "service", "failing", "reconfigured", "retried"}
    /\ OutboxInit /\ Init

InputNext ==
    /\ UNCHANGED part
    /\ \/ part = "pointer" /\ OutboxNext /\ UNCHANGED vars
       \/ part = "pen" /\ Pen!OutboxNext /\ UNCHANGED vars
       \/ part = "service" /\ Next /\ UNCHANGED outboxVars
       \/ part = "failing" /\ Failing!Next /\ UNCHANGED outboxVars
       \/ part = "reconfigured" /\ Reconfigured!Next /\ UNCHANGED outboxVars
       \/ part = "retried" /\ Retried!Next /\ UNCHANGED outboxVars

\* The delivery tasks and the input service go on; nothing is owed by the user, by
\* a reply that fails or by an attachment's end.  Where the outputs change nothing
\* breaks, so nothing has to heal.
InputSpec ==
    /\ InputInit /\ [][InputNext]_inputVars
    /\ \A i \in {1, 2} :
         /\ WF_vars(part = "service" /\ DeliverGoesOn(i))
         /\ WF_vars(part = "service" /\ PushAt(i))
         /\ WF_vars(part = "failing" /\ Failing!DeliverGoesOn(i))
         /\ WF_vars(part = "failing" /\ Failing!PushAt(i))
    /\ WF_vars(part = "retried" /\ Retried!DeliverGoesOn(1))
    /\ WF_vars(part = "retried" /\ Retried!PushAt(1))
    /\ WF_vars(part = "service" /\ Service)
    /\ WF_vars(part = "failing" /\ Failing!Service)
    /\ WF_vars(part = "retried" /\ Retried!Service)

-----------------------------------------------------------------------------
(* The properties are those of InputLane, for both kinds of input, and of     *)
(* WaylandInput, in each of its parts.                                        *)
=============================================================================
