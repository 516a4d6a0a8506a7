----------------------------- MODULE ConsoleRelay -----------------------------
(***************************************************************************)
(* The agent console: a browser tab, the controller that relays it         *)
(* (server/agent_console.go), the agent's link (agentconsole/client.go,     *)
(* agent/runtime/console.go) and the shell at the machine                   *)
(* (agentconsole/session_linux.go).                                        *)
(*                                                                         *)
(* One machine.  The agent dials a channel and, when it has ended, the next *)
(* one; the owner's page shows a channel, gets a ticket for it and connects *)
(* a tab with it.  A session id is the tab it was made for.  Frames are a   *)
(* type, a session and a number; sizes, rates and texts are left out, and   *)
(* so are pings: a silent peer is a connection that may end at any time.    *)
(***************************************************************************)
EXTENDS Naturals, Sequences

CONSTANTS
    Tabs,           \* browser connections, 1..n in the order they are admitted
    OutRoom,        \* frames of agentConsoleRelay.out
    MaxChannels,    \* bound: channels the agent dials
    Visits          \* bounds of a behaviour, one record each: channels dialled,
                    \* tickets, inputs of a tab, outputs of a shell, and lapses
                    \* (connections broken, shells exited, tickets run out,
                    \* authority withdrawn, the controller stopped)

ASSUME ConsoleConstants ==
    /\ Tabs \subseteq Nat \ {0} /\ OutRoom \in Nat /\ MaxChannels \in Nat
    /\ \A v \in Visits : v.channels \in 0..MaxChannels /\ v.tickets \in Nat /\ v.keys \in Nat /\ v.outputs \in Nat

VARIABLES
    visit,          \* the bounds of this behaviour
    closing,        \* agentConsoleState.closing
    entitled,       \* consoleOwnerCurrent and agentConsoleUsable
    peer,           \* agentConsoleState.peers of the machine: a channel, 0 none
    channels,       \* agentConsolePeer and its connection, per channel
    tickets,        \* agentConsoleState.tickets in time: number, channel
    issued,         \* tickets given out so far
    tabs,           \* agentConsoleBrowser, per tab
    link,           \* RunLink: its channel, 0 none
    locals,         \* the link's Local and ServeLocal, per session
    lapses

consoleVars == <<visit, closing, entitled, peer, channels, tickets, issued, tabs, link, locals, lapses>>

Lapse == lapses < visit.lapses /\ lapses' = lapses + 1

NoTab == 0
NoChannel == [st |-> "none", relay |-> NoTab, cancelled |-> FALSE, here |-> FALSE, there |-> FALSE,
              down |-> <<>>, up |-> <<>>]
NewTab == [st |-> "idle", ch |-> 0, ticket |-> 0, cancelled |-> FALSE, out |-> <<>>, ready |-> FALSE,
           reading |-> FALSE, last |-> 0, shown |-> <<>>]
NoLink == [ch |-> 0, st |-> "none", opened |-> FALSE, active |-> NoTab, last |-> 0]
NoLocal == [conn |-> "none", pump |-> FALSE, ch |-> 0, inbox |-> <<>>, outbox |-> <<>>, shell |-> "none",
            got |-> <<>>, outputs |-> 0]

Frame(type, t, n) == [type |-> type, session |-> t, seq |-> n]

-----------------------------------------------------------------------------
(* The agent's channel at the controller. *)

\* consoleLoop, Dial and handleAgentConsoleChannel up to the handler: a second
\* channel of the machine is refused, and the agent tries again later.
Dial ==
    \E n \in 1..visit.channels :
        /\ channels[n].st = "none" /\ \A c \in 1..(n - 1) : channels[c].st # "none"
        /\ link.ch = 0
        /\ entitled /\ ~closing /\ peer = 0
        /\ peer' = n
        /\ channels' = [channels EXCEPT ![n] = [NoChannel EXCEPT !.st = "dialled", !.here = TRUE, !.there = TRUE]]
        /\ link' = [NoLink EXCEPT !.ch = n, !.st = "up"]
        /\ UNCHANGED <<visit, closing, entitled, tickets, issued, tabs, locals, lapses>>

\* "controller" and "hello" are exchanged.
Hello(n) ==
    /\ channels[n].st = "dialled" /\ channels[n].here /\ channels[n].there
    /\ channels' = [channels EXCEPT ![n].st = "ready"]
    /\ UNCHANGED <<visit, closing, entitled, peer, tickets, issued, tabs, link, locals, lapses>>

\* The pulse: the agent is not the current live one any more.
Pulse(n) ==
    /\ channels[n].st = "ready" /\ ~channels[n].cancelled /\ ~entitled
    /\ channels' = [channels EXCEPT ![n].cancelled = TRUE]
    /\ UNCHANGED <<visit, closing, entitled, peer, tickets, issued, tabs, link, locals, lapses>>

\* Mutant: a frame goes to the relay there is now, whosever it is.
RelayOfAny(n, m) == channels[n].relay

\* handleAgentConsoleChannel: late output is not routed into a new terminal.
RelayOf(n, m) == IF channels[n].relay = m.session THEN m.session ELSE NoTab

\* handleAgentConsoleChannel, one turn of the read loop: a relay that is full
\* is cancelled and the channel ends.
ReadUp(n) ==
    LET m == Head(channels[n].up)
        t == RelayOf(n, m)
        read == [channels[n] EXCEPT !.up = Tail(channels[n].up)]
    IN  /\ channels[n].st = "ready" /\ channels[n].here /\ channels[n].up # <<>>
        /\ \/ /\ t = NoTab
              /\ channels' = [channels EXCEPT ![n] = read] /\ UNCHANGED tabs
           \/ /\ t # NoTab /\ Len(tabs[t].out) < OutRoom
              /\ channels' = [channels EXCEPT ![n] = read]
              /\ tabs' = [tabs EXCEPT ![t].out = Append(@, m)]
           \/ /\ t # NoTab /\ Len(tabs[t].out) >= OutRoom
              /\ channels' = [channels EXCEPT ![n] = [read EXCEPT !.cancelled = TRUE, !.here = FALSE]]
              /\ tabs' = [tabs EXCEPT ![t].cancelled = TRUE]
        /\ UNCHANGED <<visit, closing, entitled, peer, tickets, issued, link, locals, lapses>>

\* handleAgentConsoleChannel: the channel must end, or a frame was bad or late.
MustEnd(n) == channels[n].cancelled \/ (~channels[n].there /\ channels[n].up = <<>>)

PeerReturns(n) ==
    /\ channels[n].st \in {"dialled", "ready"} /\ channels[n].here
    /\ (MustEnd(n) /\ UNCHANGED lapses) \/ (~MustEnd(n) /\ Lapse)
    /\ channels' = [channels EXCEPT ![n] = [channels[n] EXCEPT !.cancelled = TRUE, !.here = FALSE]]
    /\ UNCHANGED <<visit, closing, entitled, peer, tickets, issued, tabs, link, locals>>

\* handleAgentConsoleChannel, deferred: the peer is removed, its relay cancelled.
PeerRemoved(n) ==
    LET t == channels[n].relay
    IN  /\ channels[n].st \in {"dialled", "ready"} /\ ~channels[n].here
        /\ channels' = [channels EXCEPT ![n] = [channels[n] EXCEPT !.st = "gone", !.relay = NoTab, !.up = <<>>]]
        /\ peer' = IF peer = n THEN 0 ELSE peer
        /\ tabs' = IF t = NoTab THEN tabs ELSE [tabs EXCEPT ![t].cancelled = TRUE]
        /\ UNCHANGED <<visit, closing, entitled, tickets, issued, link, locals, lapses>>

-----------------------------------------------------------------------------
(* The owner's page and tickets. *)

Ready == peer # 0 /\ channels[peer].st = "ready"

\* handleAgentConsoleTicket: for the channel the owner's page shows, which is
\* refused when it is not the current one.
Ticket ==
    /\ entitled /\ ~closing /\ Ready
    /\ channels[peer].relay = NoTab
    /\ issued < visit.tickets /\ issued' = issued + 1
    /\ tickets' = tickets \cup {[no |-> issued + 1, ch |-> peer]}
    /\ UNCHANGED <<visit, closing, entitled, peer, channels, tabs, link, locals, lapses>>

\* Thirty seconds pass: the ticket admits no more.
TicketExpires ==
    \E k \in tickets :
        /\ Lapse
        /\ tickets' = tickets \ {k}
        /\ UNCHANGED <<visit, closing, entitled, peer, channels, issued, tabs, link, locals>>

-----------------------------------------------------------------------------
(* A tab at the controller. *)

\* Mutant: the ticket stays after it was used.
TicketsAfterKept(k) == tickets

\* agentConsoleBrowser: delete(c.tickets, key).
TicketsAfter(k) == tickets \ {k}

\* agentConsoleBrowser: the ticket is good for this channel, which is free.
Admits(k) ==
    /\ ~closing
    /\ Ready /\ k.ch = peer /\ channels[peer].relay = NoTab

\* handleAgentConsoleSocket, agentConsoleBrowser: the tab connects, its ticket
\* is taken and the channel's relay set; a tab that is refused changes nothing.
Admit(t) ==
    \E k \in tickets :
        /\ tabs[t].st = "idle" /\ (\A u \in Tabs : u < t => tabs[u].st # "idle") /\ entitled /\ Admits(k)
        /\ tickets' = TicketsAfter(k)
        /\ channels' = [channels EXCEPT ![peer].relay = t]
        /\ tabs' = [tabs EXCEPT ![t] = [tabs[t] EXCEPT !.st = "relayed", !.ch = peer, !.ticket = k.no]]
        /\ UNCHANGED <<visit, closing, entitled, peer, issued, link, locals, lapses>>

\* agentConsoleBrowser: the audit record is written and the authority asked for
\* again; a record that could not be written ends the tab as Leave does.
Audited(t) ==
    /\ tabs[t].st = "relayed"
    /\ \/ entitled /\ ~tabs[t].cancelled /\ tabs' = [tabs EXCEPT ![t].st = "cleared"]
       \/ /\ ~entitled \/ tabs[t].cancelled
          /\ tabs' = [tabs EXCEPT ![t].st = "ending"]
    /\ UNCHANGED <<visit, closing, entitled, peer, channels, tickets, issued, link, locals, lapses>>

\* agentConsoleBrowser: "open" is sent down the channel, if it is still there.
SendOpen(t) ==
    LET n == tabs[t].ch
    IN  /\ tabs[t].st = "cleared"
        /\ \/ /\ channels[n].here
              /\ channels' = [channels EXCEPT ![n].down = Append(@, Frame("open", t, 0))]
              /\ tabs' = [tabs EXCEPT ![t] = [tabs[t] EXCEPT !.st = "running", !.reading = TRUE]]
           \/ /\ ~channels[n].here
              /\ tabs' = [tabs EXCEPT ![t].st = "ending"] /\ UNCHANGED channels
        /\ UNCHANGED <<visit, closing, entitled, peer, tickets, issued, link, locals, lapses>>

\* agentConsoleBrowser, the read goroutine, which lives until the socket is
\* closed: the next input is passed on, or it returns.
Type(t) ==
    LET n == tabs[t].ch
        k == tabs[t].last + 1
    IN  /\ tabs[t].reading /\ tabs[t].ready /\ k <= visit.keys
        /\ IF entitled /\ channels[n].here
           THEN /\ channels' = [channels EXCEPT ![n].down = Append(@, Frame("input", t, k))]
                /\ tabs' = [tabs EXCEPT ![t].last = k]
           ELSE tabs' = [tabs EXCEPT ![t] = [tabs[t] EXCEPT !.cancelled = TRUE, !.reading = FALSE]] /\ UNCHANGED channels
        /\ UNCHANGED <<visit, closing, entitled, peer, tickets, issued, link, locals, lapses>>

\* agentConsoleBrowser, case m := <-rel.out.
TakeOut(t) ==
    LET m == Head(tabs[t].out)
        took == [tabs[t] EXCEPT !.out = Tail(tabs[t].out)]
    IN  /\ tabs[t].st = "running" /\ tabs[t].out # <<>>
        /\ \/ /\ m.type = "ready" /\ ~tabs[t].ready
              /\ tabs' = [tabs EXCEPT ![t] = [took EXCEPT !.ready = TRUE]]
           \/ /\ m.type = "output" /\ tabs[t].ready
              /\ tabs' = [tabs EXCEPT ![t] = [took EXCEPT !.shown = Append(tabs[t].shown, m.session)]]
           \/ /\ m.type # (IF tabs[t].ready THEN "output" ELSE "ready")
              /\ tabs' = [tabs EXCEPT ![t] = [took EXCEPT !.st = "ending"]]
        /\ UNCHANGED <<visit, closing, entitled, peer, channels, tickets, issued, link, locals, lapses>>

\* agentConsoleBrowser returns: cancelled, the browser left, idle or too long,
\* no "ready" in time, or no authority.
Leave(t) ==
    /\ tabs[t].st \in {"relayed", "running"}
    /\ tabs' = [tabs EXCEPT ![t].st = "ending"]
    /\ UNCHANGED <<visit, closing, entitled, peer, channels, tickets, issued, link, locals, lapses>>

\* Mutant: the tab ends and the agent's channel goes on.
PeerSpared(t) == channels

\* agentConsoleBrowser, deferred: p.cancel(), no resume on the same channel.
PeerCancelled(t) == [channels EXCEPT ![tabs[t].ch].cancelled = TRUE]

\* agentConsoleBrowser, deferred: the agent's channel is cancelled, then the
\* relay let go, then the tab's socket closed.
Unwind(t) ==
    /\ \/ /\ tabs[t].st = "ending"
          /\ channels' = PeerCancelled(t)
          /\ tabs' = [tabs EXCEPT ![t] = [tabs[t] EXCEPT !.st = "parting", !.cancelled = TRUE]]
       \/ /\ tabs[t].st = "parting"
          /\ channels' = [channels EXCEPT ![tabs[t].ch].relay = IF @ = t THEN NoTab ELSE @]
          /\ tabs' = [tabs EXCEPT ![t].st = "released"]
       \/ /\ tabs[t].st = "released"
          /\ tabs' = [tabs EXCEPT ![t] = [tabs[t] EXCEPT !.st = "gone", !.reading = FALSE, !.out = <<>>]]
          /\ UNCHANGED channels
    /\ UNCHANGED <<visit, closing, entitled, peer, tickets, issued, link, locals, lapses>>

\* closeAll: no more tickets, and every channel and tab is cancelled.
CloseAll ==
    /\ ~closing /\ closing' = TRUE /\ Lapse
    /\ tickets' = {}
    /\ channels' = IF peer = 0 THEN channels ELSE [channels EXCEPT ![peer].cancelled = TRUE]
    /\ tabs' = [t \in Tabs |-> IF tabs[t].st \in {"idle", "gone"} THEN tabs[t] ELSE [tabs[t] EXCEPT !.cancelled = TRUE]]
    /\ UNCHANGED <<visit, entitled, peer, issued, link, locals>>

\* The owner's session ends or changes role, or the machine is archived.
Withdrawn ==
    /\ entitled /\ entitled' = FALSE /\ Lapse
    /\ UNCHANGED <<visit, closing, peer, channels, tickets, issued, tabs, link, locals>>

-----------------------------------------------------------------------------
(* The agent. *)

SendUp(m) == IF channels[link.ch].here THEN [channels EXCEPT ![link.ch].up = Append(@, m)] ELSE channels

\* Mutant: a channel may open a terminal again.
MayOpenAgain == link.active = NoTab

\* RunLink: a terminal permit is single-use per channel.
MayOpen == ~link.opened

\* RunLink, an "open" frame: the local console is dialled, or is not there.
OpenLocal(t) ==
    /\ MayOpen
    /\ \/ /\ link' = [link EXCEPT !.opened = TRUE, !.active = t, !.last = 0]
          /\ locals' = [locals EXCEPT ![t] = [NoLocal EXCEPT !.conn = "open", !.pump = TRUE, !.ch = link.ch, !.inbox = <<Frame("open", t, 0)>>]]
          /\ channels' = [channels EXCEPT ![link.ch].down = Tail(@)]
          /\ UNCHANGED lapses
       \/ /\ Lapse
          /\ link' = [link EXCEPT !.opened = TRUE]
          /\ channels' = [SendUp(Frame("closed", t, 0)) EXCEPT ![link.ch].down = Tail(channels[link.ch].down)]
          /\ UNCHANGED locals

\* RunLink, an input frame: for the active session and the next in number.
PassInput(m) ==
    /\ link.active # NoTab /\ m.session = link.active /\ m.seq = link.last + 1
    /\ locals[m.session].conn = "open"
    /\ link' = [link EXCEPT !.last = m.seq]
    /\ locals' = [locals EXCEPT ![m.session].inbox = Append(@, m)]
    /\ channels' = [channels EXCEPT ![link.ch].down = Tail(@)]

\* RunLink, one turn of its loop; any other frame is fatal to the link.
LinkReads ==
    /\ link.st = "up" /\ channels[link.ch].down # <<>>
    /\ LET m == Head(channels[link.ch].down)
       IN  \/ m.type = "open" /\ OpenLocal(m.session)
           \/ m.type = "input" /\ PassInput(m) /\ UNCHANGED lapses
           \/ /\ IF m.type = "open" THEN ~MayOpen
                 ELSE m.session # link.active \/ m.seq # link.last + 1 \/ locals[m.session].conn # "open"
              /\ link' = [link EXCEPT !.st = "ending"]
              /\ UNCHANGED <<locals, channels, lapses>>
    /\ UNCHANGED <<visit, closing, entitled, peer, tickets, issued, tabs>>

\* RunLink: the connection has ended and everything it brought was read.
MustLose == link.st = "up" /\ ~channels[link.ch].here /\ channels[link.ch].down = <<>>

\* RunLink returns; consoleLoop: the binding changed.
LinkLost ==
    /\ link.st = "up"
    /\ (MustLose /\ UNCHANGED lapses) \/ (~MustLose /\ Lapse)
    /\ link' = [link EXCEPT !.st = "ending"]
    /\ UNCHANGED <<visit, closing, entitled, peer, channels, tickets, issued, tabs, locals>>

\* Mutant: the link returns and leaves its terminal behind.
StoppedLocalsKept == locals

\* RunLink, stop: the active terminal is closed.
StoppedLocals == IF link.active = NoTab THEN locals ELSE [locals EXCEPT ![link.active].conn = "closed"]

\* RunLink, deferred: the socket and the terminal are closed, the goroutines
\* awaited; consoleLoop may dial again.
LinkReturns ==
    /\ link.st = "ending"
    /\ channels' = [channels EXCEPT ![link.ch] = [channels[link.ch] EXCEPT !.there = FALSE, !.down = <<>>]]
    /\ locals' = [t \in Tabs |-> [StoppedLocals[t] EXCEPT !.pump = FALSE, !.outbox = <<>>]]
    /\ link' = NoLink
    /\ UNCHANGED <<visit, closing, entitled, peer, tickets, issued, tabs, lapses>>

\* RunLink, the terminal's goroutine: a frame goes up, or the terminal's end.
Pump(t) ==
    /\ link.st = "up" /\ locals[t].pump
    /\ \/ /\ locals[t].outbox # <<>>
          /\ channels' = SendUp(Head(locals[t].outbox))
          /\ locals' = [locals EXCEPT ![t].outbox = Tail(@)]
          /\ UNCHANGED link
       \/ /\ locals[t].outbox = <<>> /\ locals[t].conn = "closed"
          /\ channels' = SendUp(Frame("closed", t, 0))
          /\ locals' = [locals EXCEPT ![t].pump = FALSE]
          /\ link' = [link EXCEPT !.active = IF @ = t THEN NoTab ELSE @]
    /\ UNCHANGED <<visit, closing, entitled, peer, tickets, issued, tabs, lapses>>

\* ServeLocal: "open" starts a shell; an input reaches it.
ShellReads(t) ==
    /\ locals[t].conn = "open" /\ locals[t].inbox # <<>>
    /\ LET m == Head(locals[t].inbox)
           read == [locals[t] EXCEPT !.inbox = Tail(locals[t].inbox)]
       IN  \/ /\ m.type = "open"
              /\ locals' = [locals EXCEPT ![t] = [read EXCEPT !.shell = "running", !.outbox = Append(locals[t].outbox, Frame("ready", t, 0))]]
           \/ /\ m.type # "open"
              /\ locals' = [locals EXCEPT ![t] = [read EXCEPT !.got = Append(locals[t].got, m)]]
    /\ UNCHANGED <<visit, closing, entitled, peer, channels, tickets, issued, tabs, link, lapses>>

\* ServeLocal: the shell writes.
ShellWrites(t) ==
    /\ locals[t].shell = "running" /\ locals[t].conn = "open" /\ locals[t].outputs < visit.outputs
    /\ locals' = [locals EXCEPT ![t] = [locals[t] EXCEPT !.outputs = locals[t].outputs + 1, !.outbox = Append(locals[t].outbox, Frame("output", t, 0))]]
    /\ UNCHANGED <<visit, closing, entitled, peer, channels, tickets, issued, tabs, link, lapses>>

\* ServeLocal returns: the shell exited, was idle or ran for too long, or its
\* connection was closed; the shell is killed and the connection closed.
ShellEnds(t) ==
    /\ locals[t].conn # "none" /\ locals[t].shell # "over"
    /\ (locals[t].conn = "closed" /\ UNCHANGED lapses) \/ (locals[t].conn = "open" /\ Lapse)
    /\ locals' = [locals EXCEPT ![t] = [locals[t] EXCEPT !.shell = "over", !.conn = "closed", !.inbox = <<>>]]
    /\ UNCHANGED <<visit, closing, entitled, peer, channels, tickets, issued, tabs, link>>

-----------------------------------------------------------------------------
ConsoleInit ==
    /\ visit \in Visits
    /\ closing = FALSE /\ entitled = TRUE
    /\ peer = 0 /\ channels = [n \in 1..MaxChannels |-> NoChannel]
    /\ tickets = {} /\ issued = 0
    /\ tabs = [t \in Tabs |-> NewTab]
    /\ link = NoLink /\ locals = [t \in Tabs |-> NoLocal]
    /\ lapses = 0

ConsoleNext ==
    \/ Dial \/ Ticket \/ TicketExpires \/ CloseAll \/ Withdrawn
    \/ \E n \in 1..MaxChannels : Hello(n) \/ Pulse(n) \/ ReadUp(n) \/ PeerReturns(n) \/ PeerRemoved(n)
    \/ \E t \in Tabs :
           \/ Admit(t) \/ Audited(t) \/ SendOpen(t)
           \/ Type(t) \/ TakeOut(t) \/ Leave(t) \/ Unwind(t)
           \/ Pump(t) \/ ShellReads(t) \/ ShellWrites(t) \/ ShellEnds(t)
    \/ LinkReads \/ LinkLost \/ LinkReturns

ConsoleSpec == ConsoleInit /\ [][ConsoleNext]_consoleVars

\* Goroutines return when they must, and what was sent is read; nobody is
\* obliged to type, to leave or to break a connection.
ConsoleFairness ==
    /\ \A n \in 1..MaxChannels :
           WF_consoleVars(MustEnd(n) /\ PeerReturns(n)) /\ WF_consoleVars(PeerRemoved(n)) /\ WF_consoleVars(ReadUp(n))
    /\ \A t \in Tabs : WF_consoleVars(Unwind(t)) /\ WF_consoleVars(locals[t].conn = "closed" /\ ShellEnds(t))
    /\ WF_consoleVars(LinkReads) /\ WF_consoleVars(MustLose /\ LinkLost) /\ WF_consoleVars(LinkReturns)

-----------------------------------------------------------------------------
\* What a tab shows came from the terminal opened for it, and that terminal
\* gets what was typed in this tab, each input once and in order, though a
\* channel's relay changes hands before the channel is gone
\* (handleAgentConsoleChannel, RunLink, ServeLocal).
OwnTerminal ==
    \A t \in Tabs :
        /\ \A i \in DOMAIN tabs[t].shown : tabs[t].shown[i] = t
        /\ \A i \in DOMAIN locals[t].got : locals[t].got[i] = Frame("input", t, i)

\* The machine has one terminal at a time, a channel opens one in its life,
\* and a ticket opens one (RunLink, consoleLoop, agentConsoleBrowser).
OneTerminal ==
    \A t, u \in Tabs : t # u =>
        /\ ~(locals[t].conn = "open" /\ locals[u].conn = "open")
        /\ locals[t].ch # 0 => locals[t].ch # locals[u].ch
        /\ tabs[t].ticket # 0 => tabs[t].ticket # tabs[u].ticket

\* The shell of a tab that is gone.
LeftBehind == \E t \in Tabs : tabs[t].st = "gone" /\ locals[t].shell = "running"

\* A tab that is gone leaves no shell behind: the controller ends the channel,
\* the agent's link ends with it and closes the terminal
\* (agentConsoleBrowser, RunLink, ServeLocal).
ShellFollowsTab == LeftBehind ~> ~LeftBehind

\* Terminals are kept apart: each tab has its own, and the machine one at a
\* time, though relays change hands before channels are gone.
TerminalsApart == OwnTerminal /\ OneTerminal
=============================================================================
