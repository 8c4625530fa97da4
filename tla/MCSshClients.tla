---------------------------- MODULE MCSshClients ----------------------------
(***************************************************************************)
(* One run for the two models of libssh clients, RemoteCommands and        *)
(* SshChain, which have no state in common: a behaviour is one of either,  *)
(* and leaves the other's variables at an initial value.                   *)
(***************************************************************************)
EXTENDS RemoteCommands, SshChain

AllPrograms == Programs

VARIABLE chosen

clientVars == <<vars, sessionVars, chosen>>

Commands == chosen = "commands"
Chain == chosen = "chain"

ClientsInit ==
    \/ Commands /\ Init /\ ChainInit /\ route = "echo"
    \/ /\ Chain /\ ChainInit /\ Init /\ prog = Client55
       /\ cmds = <<[input |-> FALSE, noise |-> FALSE, ends |-> TRUE]>>

(* A program that is done, or waits for ever as Stuck says, is no          *)
(* deadlock.                                                               *)
Rests == (at = "done" \/ Stuck) /\ UNCHANGED vars

ClientsNext ==
    \/ Commands /\ (Next \/ Rests) /\ UNCHANGED <<sessionVars, chosen>>
    \/ Chain /\ ChainNext /\ UNCHANGED <<vars, chosen>>

(* The fairness of Spec and of FairSpec, each where it is chosen.          *)
ClientsSpec ==
    /\ ClientsInit /\ [][ClientsNext]_clientVars
    /\ WF_vars(Commands /\ ProgramStep) /\ WF_vars(Commands /\ Remote)
    /\ WF_vars(Commands /\ User)
    /\ WF_sessionVars(Chain /\ Client) /\ WF_sessionVars(Chain /\ ClientLeaves)
    /\ WF_sessionVars(Chain /\ Server)
    /\ RemoteAnswers => WF_sessionVars(Chain /\ Echo)

(* EndsUnlessStuck of the commands and the shells.                         *)
CommandsEnd == Commands => EndsUnlessStuck

(* BothEnd of the chain.                                                   *)
ChainEnds == Chain => BothEnd
=============================================================================
