------------------------------ MODULE MCAccess ------------------------------
(***************************************************************************)
(* Who reaches the controller, and what they hold open there, for TLC: the  *)
(* credentials of devices, live logs and terminals.  They share no state;   *)
(* `part' says which of them a behaviour is about.                         *)
(***************************************************************************)
EXTENDS Identity, LogStreams, ConsoleRelay

VARIABLE part

\* One device enrols with a code, the other announces itself.
MCWayOf == [d1 |-> "code", d2 |-> "announce"]
MCDevices == DOMAIN MCWayOf

\* Two tabs compete for one channel, or each has its own.
MCVisits ==
    {[channels |-> 1, tickets |-> 2, keys |-> 1, outputs |-> 1, lapses |-> 1],
     [channels |-> 2, tickets |-> 2, keys |-> 0, outputs |-> 0, lapses |-> 1]}

\* Two streams of one record each, or one stream of two.
MCWatches == {[streams |-> 2, records |-> 1], [streams |-> 1, records |-> 2]}

accessVars == <<identityVars, logVars, consoleVars, part>>

MCInit ==
    /\ part \in {"identity", "logs", "console"}
    /\ IdentityInit /\ LogInit /\ ConsoleInit
    /\ part # "logs" => watch = CHOOSE w \in MCWatches : TRUE
    /\ part # "console" => visit = CHOOSE v \in MCVisits : TRUE

MCNext ==
    \/ part = "identity" /\ IdentityNext /\ UNCHANGED <<logVars, consoleVars, part>>
    \/ part = "logs" /\ LogNext /\ UNCHANGED <<identityVars, consoleVars, part>>
    \/ part = "console" /\ ConsoleNext /\ UNCHANGED <<identityVars, logVars, part>>

\* LogFairness and ConsoleFairness, each for its own behaviours.
MCFairness ==
    /\ WF_logVars(part = "logs" /\ Poll) /\ WF_logVars(part = "logs" /\ CollectorReturns)
    /\ \A i \in Ids : WF_logVars(part = "logs" /\ Connect(i)) /\ WF_logVars(part = "logs" /\ EndSession(i))
    /\ \A n \in 1..MaxChannels :
           /\ WF_consoleVars(part = "console" /\ MustEnd(n) /\ PeerReturns(n))
           /\ WF_consoleVars(part = "console" /\ PeerRemoved(n))
           /\ WF_consoleVars(part = "console" /\ ReadUp(n))
    /\ \A t \in Tabs :
           /\ WF_consoleVars(part = "console" /\ Unwind(t))
           /\ WF_consoleVars(part = "console" /\ locals[t].conn = "closed" /\ ShellEnds(t))
    /\ WF_consoleVars(part = "console" /\ LinkReads)
    /\ WF_consoleVars(part = "console" /\ MustLose /\ LinkLost)
    /\ WF_consoleVars(part = "console" /\ LinkReturns)

MCSpec == MCInit /\ [][MCNext]_accessVars /\ MCFairness
=============================================================================
