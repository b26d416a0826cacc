------------------------------- MODULE MCLanes -------------------------------
(***************************************************************************)
(* The lanes of an attachment (SessionLanes), and the USB tablet the Pier     *)
(* borrows from the Deck over the bulk lane (UsbBridge), both extended here.   *)
(*                                                                         *)
(* To the bridge a lane is two queues, which a reset may cut and a disabled   *)
(* role may close: it has those as steps of its own, so a behaviour here is   *)
(* one of the part it starts with, and the other stays as it began.          *)
(***************************************************************************)
EXTENDS UsbBridge, SessionLanes

CONSTANTS c1, i1

VARIABLE part

\* The bridge is here over a lane that loses nothing, and over one that is reset
\* and disabled.
CutUsb == INSTANCE UsbBridge WITH
    Control <- {c1}, Interrupt <- {i1}, Limit <- 2, MaxIds <- 2, MaxResets <- 1, MaxStops <- 1

allVars == <<part, laneVars, vars>>

LanesInit == part \in {"two-way lane", "failing lane", "usb", "cut usb"} /\ LaneInit /\ Init

\* A role the Deck opens and both ends write, with two faults and three
\* generations; one the Pier opens and writes, failing until it is given up; the
\* bridge.
LanesNext ==
    /\ UNCHANGED part
    /\ \/ /\ part = "two-way lane" /\ (Connection \/ Role("input")) /\ UNCHANGED vars
          /\ faults' <= 2 /\ slot'["deck"]["input"].highest <= 3
       \/ part = "failing lane" /\ (Connection \/ Role("video")) /\ UNCHANGED vars
       \/ part = "usb" /\ Next /\ UNCHANGED laneVars
       \/ part = "cut usb" /\ CutUsb!Next /\ UNCHANGED laneVars

\* The tasks of a running Tokio runtime, and a QUIC connection that delivers.  A
\* role's sender keeps writing; faults and the accepting end's writer owe nothing.
LaneFairness ==
    /\ WF_laneVars(part = "two-way lane" /\ DeckOpensControl)
    /\ WF_laneVars(part = "two-way lane" /\ PierAdmitsControl)
    /\ WF_laneVars(part = "two-way lane" /\ GrantAttachment)
    /\ WF_laneVars(part = "two-way lane" /\ AcceptAttachment)
    /\ \A e \in {"deck", "pier"} :
         WF_laneVars(part = "two-way lane" /\ phase[Other(e)] = "ended" /\ EndAttachment(e))
    /\ WF_laneVars(part = "two-way lane" /\ OpenLocal("input"))
    /\ WF_laneVars(part = "two-way lane" /\ OpenStream("input"))
    /\ WF_laneVars(part = "two-way lane" /\ OpenerCancelled("input"))
    /\ WF_laneVars(part = "two-way lane" /\ TakeLane("input"))
    /\ WF_laneVars(part = "two-way lane" /\ ReaderCancelled("input"))
    /\ WF_laneVars(part = "two-way lane" /\ WaitEnds("input"))
    /\ WF_laneVars(part = "two-way lane" /\ Echo("input"))
    /\ \A g \in Gens :
         /\ WF_laneVars(part = "two-way lane" /\ Admit("input", g))
         /\ \A e \in {"deck", "pier"} :
              WF_laneVars(part = "two-way lane" /\ WriterReports(e, "input", g))

\* The helpers, both dispatchers and the lane between them go on, and a worker's
\* transfer ends or times out; a report of the tablet owes nothing.
UsbFairness ==
    /\ WF_vars(part = "usb" /\ HelperCompletion)
    /\ \A h \in {c1, i1} : /\ WF_vars(part = "usb" /\ HelperCancel(h))
                           /\ WF_vars(part = "usb" /\ HelperSubmit(h))
    /\ WF_vars(part = "usb" /\ PierForward)
    /\ WF_vars(part = "usb" /\ PierSeesHelperEnd)
    /\ WF_vars(part = "usb" /\ PierCompletion)
    /\ WF_vars(part = "usb" /\ DeckFrame)
    /\ WF_vars(part = "usb" /\ \E w \in workers : Expire(w))
    /\ WF_vars(part = "usb" /\ Pump)

LanesSpec == LanesInit /\ [][LanesNext]_allVars /\ LaneFairness /\ UsbFairness

-----------------------------------------------------------------------------
(* The properties; each is stated, with the code it is about, in its module.  *)
(* OwedOnce is that of UsbBridge, StopsOnlyWhenExhausted and                 *)
(* FramesNeverGoBack are those of SessionLanes.                              *)

\* SessionLanes: after a failure the role serves again or has been given up.
RoleRecovers == []<>(part = "two-way lane" => Serving("input") \/ Given("input"))
\* UsbBridge: a control request, and any URB wanted back, is given back.
UrbsReturnUncut == part = "usb" => UrbsReturn
=============================================================================
