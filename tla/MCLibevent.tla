----------------------------- MODULE MCLibevent -----------------------------
(***************************************************************************)
(* One run for the two models of libevent programs, BevProxy and           *)
(* EventEcho, which have no state in common: a behaviour is one of either, *)
(* and leaves the other's variables at an initial value, at which the      *)
(* other's properties say nothing.                                         *)
(***************************************************************************)
EXTENDS BevProxy, EventEcho

VARIABLE chosen

libeventVars == <<vars, echoVars, chosen>>

Proxying == chosen = "proxy"
Echoing == chosen = "echo"

LibeventInit ==
    \/ Proxying /\ Init /\ EchoInit /\ client = "block"
    \/ Echoing /\ EchoInit /\ Init

LibeventNext ==
    \/ Proxying /\ Next /\ UNCHANGED <<echoVars, chosen>>
    \/ Echoing /\ EchoNext /\ UNCHANGED <<vars, chosen>>

(* The fairness of FairSpec and of EchoSpec, each where it is chosen.      *)
LibeventSpec ==
    /\ LibeventInit /\ [][LibeventNext]_libeventVars
    /\ WF_vars(Proxying /\ (Accept \/ AcceptFails))
    /\ WF_vars(Proxying /\ (Connects \/ Breaks("out")))
    /\ \A s \in Sides : WF_vars(Proxying /\ Callback(s))
    /\ \A s \in Sides : WF_vars(Proxying /\ (Reads(s) \/ SeesEnd(s)))
    /\ \A s \in Sides :
           WF_vars(Proxying /\ (Writes(s) \/ WritesInVain(s) \/ WriteFails(s)))
    /\ WF_echoVars(Echoing /\ Server) /\ WF_echoVars(Echoing /\ Receives)
=============================================================================
