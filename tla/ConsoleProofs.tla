----------------------------- MODULE ConsoleProofs -----------------------------
(***************************************************************************)
(* The terminals of ConsoleRelay are kept apart, for every number of tabs, *)
(* channels, tickets, frames and failures.                                 *)
(*                                                                         *)
(* Most steps are quiet: they move frames along or end something.  What is *)
(* left is Dial, Ticket and Admit, which hand out channels and tickets     *)
(* once, and the link and the shell, which number the inputs.              *)
(***************************************************************************)
EXTENDS ConsoleRelay, TLAPS

-----------------------------------------------------------------------------

FrameTypes == {"open", "input", "ready", "output", "closed"}
FramesOf(S) == [type : FrameTypes, session : S, seq : Nat]

ChannelRecords ==
    [st : {"none", "dialled", "ready", "gone"}, relay : Tabs \cup {NoTab}, cancelled : BOOLEAN, here : BOOLEAN,
     there : BOOLEAN, down : Seq(FramesOf(Tabs)), up : Seq(FramesOf(Tabs))]

\* What waits for a tab, and what it has shown, is of its own session.
TabRecords(t) ==
    [st : {"idle", "relayed", "cleared", "running", "ending", "parting", "released", "gone"}, ch : 0..MaxChannels,
     ticket : Nat, cancelled : BOOLEAN, out : Seq(FramesOf({t})), ready : BOOLEAN, reading : BOOLEAN, last : Nat,
     shown : Seq({t})]

LinkRecords ==
    [ch : 0..MaxChannels, st : {"none", "up", "ending"}, opened : BOOLEAN, active : Tabs \cup {NoTab}, last : Nat]

LocalRecords ==
    [conn : {"none", "open", "closed"}, pump : BOOLEAN, ch : 0..MaxChannels, inbox : Seq(FramesOf(Tabs)),
     outbox : Seq(FramesOf(Tabs)), shell : {"none", "running", "over"}, got : Seq(FramesOf(Tabs)), outputs : Nat]

\* The variables of ConsoleRelay have these types.
ConsoleTypeOK ==
    /\ visit \in Visits /\ peer \in 0..MaxChannels /\ issued \in Nat
    /\ channels \in [1..MaxChannels -> ChannelRecords]
    /\ tickets \subseteq [no : Nat, ch : 1..MaxChannels]
    /\ tabs = [t \in Tabs |-> tabs[t]]
    /\ \A t \in Tabs : tabs[t] \in TabRecords(t) /\ (tabs[t].ch = 0 => tabs[t].st = "idle" /\ ~tabs[t].reading)
    /\ link \in LinkRecords
    /\ locals \in [Tabs -> LocalRecords]

\* A ticket is with the controller or with one tab.
TicketInv ==
    /\ \A k \in tickets : k.no \in 1..issued
    /\ \A k, l \in tickets : k.no = l.no => k = l
    /\ \A t \in Tabs : tabs[t].ticket <= issued /\ \A k \in tickets : k.no # tabs[t].ticket
    /\ \A t, u \in Tabs : t # u /\ tabs[t].ticket # 0 => tabs[t].ticket # tabs[u].ticket

\* The link's channel has opened no terminal, or the one it is about.
LinkInv ==
    /\ link.ch = 0 => link = NoLink
    /\ link.ch # 0 => link.st # "none" /\ channels[link.ch].st # "none"
    /\ link.active # NoTab => link.opened
    /\ ~link.opened /\ link.ch # 0 => \A t \in Tabs : locals[t].ch # link.ch

\* What a terminal was given and what waits for it are the inputs from 1 on.
InputsInv(t) ==
    \/ /\ locals[t].inbox # <<>> /\ locals[t].inbox[1].type = "open" /\ locals[t].got = <<>>
       /\ link.last + 1 = Len(locals[t].inbox)
       /\ \A i \in 2..Len(locals[t].inbox) : locals[t].inbox[i] = Frame("input", t, i - 1)
    \/ /\ link.last = Len(locals[t].got) + Len(locals[t].inbox)
       /\ \A i \in 1..Len(locals[t].inbox) : locals[t].inbox[i] = Frame("input", t, Len(locals[t].got) + i)

\* An open terminal is the active one of the link, and no other has its channel.
LocalInv(t) ==
    /\ locals[t].conn = "open" => link.active = t /\ InputsInv(t)
    /\ locals[t].ch # 0 => channels[locals[t].ch].st # "none"
    /\ \A u \in Tabs : u # t /\ locals[t].ch # 0 => locals[t].ch # locals[u].ch
    /\ \A i \in 1..Len(locals[t].got) : locals[t].got[i] = Frame("input", t, i)

ConsoleInv == ConsoleTypeOK /\ TicketInv /\ LinkInv /\ \A t \in Tabs : LocalInv(t)

\* A step that leaves the link and the terminals alone, takes tickets at most
\* away, and neither dials a channel nor gives a tab a ticket.
Quiet ==
    /\ ConsoleTypeOK'
    /\ \A n \in 1..MaxChannels : channels'[n].st # "none" <=> channels[n].st # "none"
    /\ \A t \in Tabs : tabs'[t].ticket = tabs[t].ticket
    /\ tickets' \subseteq tickets /\ issued' = issued /\ link' = link /\ locals' = locals

\* A session of the agent is of a channel the controller numbered.
LEMMA LocalChannel ==
  ASSUME ConsoleTypeOK, NEW t \in Tabs, locals[t].ch # 0
  PROVE  locals[t].ch \in 1..MaxChannels
<1>1. locals[t].ch \in 0..MaxChannels BY DEF ConsoleTypeOK, LocalRecords
<1>2. QED BY <1>1, ConsoleConstants

\* What is said of channels, the link and terminals needs only these.
LEMMA TerminalsKeep ==
  ASSUME ConsoleInv, \A n \in 1..MaxChannels : channels'[n].st # "none" <=> channels[n].st # "none",
         link' = link, locals' = locals
  PROVE  LinkInv' /\ \A t \in Tabs : LocalInv(t)'
<1>0. ConsoleTypeOK BY DEF ConsoleInv
<1>2. LinkInv'
  <2>1. link.ch # 0 => link.ch \in 1..MaxChannels BY <1>0, ConsoleConstants DEF ConsoleTypeOK, LinkRecords
  <2>2. QED BY <2>1 DEF ConsoleInv, LinkInv
<1>3. \A t \in Tabs : LocalInv(t)'
  <2> SUFFICES ASSUME NEW t \in Tabs PROVE LocalInv(t)' OBVIOUS
  <2>1. locals[t].ch # 0 => locals[t].ch \in 1..MaxChannels BY <1>0, LocalChannel
  <2>2. LocalInv(t) BY DEF ConsoleInv
  <2>3. InputsInv(t) => InputsInv(t)' BY Zenon DEF InputsInv
  <2>4. QED BY <2>1, <2>2, <2>3 DEF LocalInv
<1>4. QED BY <1>2, <1>3

\* And what is said of tickets only these.
LEMMA TicketsKeep ==
  ASSUME ConsoleInv, \A t \in Tabs : tabs'[t].ticket = tabs[t].ticket, tickets' \subseteq tickets, issued' = issued
  PROVE  TicketInv'
BY DEF ConsoleInv, TicketInv

\* A quiet step keeps the invariant.
LEMMA QuietKeeps == ConsoleInv /\ Quiet => ConsoleInv'
BY TerminalsKeep, TicketsKeep DEF ConsoleInv, Quiet

\* A write to one channel leaves the others alone.
LEMMA ChannelEdit ==
  ASSUME ConsoleTypeOK, NEW n \in 1..MaxChannels, NEW new \in ChannelRecords, channels' = [channels EXCEPT ![n] = new]
  PROVE  /\ channels' \in [1..MaxChannels -> ChannelRecords] /\ channels'[n] = new
         /\ \A c \in 1..MaxChannels : c # n => channels'[c] = channels[c]
BY DEF ConsoleTypeOK

\* A write to one tab leaves the others alone.
LEMMA TabEdit ==
  ASSUME ConsoleTypeOK, NEW t \in Tabs, NEW new \in TabRecords(t), new.ch = 0 => new.st = "idle" /\ ~new.reading,
         tabs' = [tabs EXCEPT ![t] = new]
  PROVE  /\ tabs' = [u \in Tabs |-> tabs'[u]]
         /\ \A u \in Tabs : tabs'[u] \in TabRecords(u) /\ (tabs'[u].ch = 0 => tabs'[u].st = "idle" /\ ~tabs'[u].reading)
         /\ tabs'[t] = new /\ \A u \in Tabs : u # t => tabs'[u] = tabs[u]
<1>1. tabs = [u \in Tabs |-> tabs[u]] BY DEF ConsoleTypeOK
<1>2. tabs' = [u \in Tabs |-> IF u = t THEN new ELSE tabs[u]] BY <1>1
<1>3. tabs'[t] = new /\ \A u \in Tabs : u # t => tabs'[u] = tabs[u] BY <1>2
<1>4. tabs' = [u \in Tabs |-> tabs'[u]] BY Zenon, <1>2
<1>5. QED BY <1>3, <1>4 DEF ConsoleTypeOK

\* Nothing is dialled or open at first.
LEMMA ConsoleInitInv == ConsoleInit => ConsoleInv
<1> SUFFICES ASSUME ConsoleInit PROVE ConsoleInv OBVIOUS
<1> USE ConsoleConstants
<1>0. \A S : <<>> \in Seq(S) OBVIOUS
<1>1. NoChannel \in ChannelRecords BY <1>0 DEF NoChannel, ChannelRecords
<1>2. \A t \in Tabs : NewTab \in TabRecords(t) BY <1>0 DEF NewTab, TabRecords
<1>3. NoLink \in LinkRecords BY DEF NoLink, LinkRecords
<1>4. NoLocal \in LocalRecords BY <1>0 DEF NoLocal, LocalRecords
<1>5. ConsoleTypeOK
  <2>1. NewTab.st = "idle" /\ ~NewTab.reading BY Zenon DEF NewTab
  <2>2. QED BY <1>1, <1>2, <1>3, <1>4, <2>1 DEF ConsoleInit, ConsoleTypeOK
<1>7. TicketInv BY DEF ConsoleInit, TicketInv, NewTab
<1>8. LinkInv BY DEF ConsoleInit, LinkInv, NoLink
<1>9. \A t \in Tabs : LocalInv(t)
  <2>1. NoLocal.conn = "none" /\ NoLocal.ch = 0 /\ Len(NoLocal.got) = 0 BY DEF NoLocal
  <2>2. ASSUME NEW t \in Tabs PROVE LocalInv(t)
    <3>1. locals[t] = NoLocal BY DEF ConsoleInit
    <3>2. 1..0 = {} OBVIOUS
    <3>3. QED BY <2>1, <3>1, <3>2 DEF LocalInv
  <2>3. QED BY Zenon, <2>2
<1>10. QED BY <1>5, <1>7, <1>8, <1>9 DEF ConsoleInv

\* handleAgentConsoleChannel: the steps of a channel at the controller.
LEMMA ChannelQuiet ==
  ASSUME ConsoleInv, NEW n \in 1..MaxChannels, Hello(n) \/ Pulse(n) \/ PeerReturns(n) \/ PeerRemoved(n)
  PROVE  Quiet
<1>0. ConsoleTypeOK /\ channels[n] \in ChannelRecords BY DEF ConsoleInv, ConsoleTypeOK
<1>1. PICK new \in ChannelRecords : channels' = [channels EXCEPT ![n] = new] /\ (new.st # "none" <=> channels[n].st # "none")
  <2>1. CASE Hello(n)
    <3> DEFINE x == [channels[n] EXCEPT !.st = "ready"]
    <3>1. x \in ChannelRecords /\ x.st = "ready" BY Zenon, <1>0 DEF ChannelRecords
    <3>2. channels' = [channels EXCEPT ![n] = x] /\ channels[n].st # "none" BY <2>1 DEF Hello
    <3> HIDE DEF x
    <3>3. QED BY Zenon, <3>1, <3>2
  <2>2. CASE Pulse(n)
    <3> DEFINE x == [channels[n] EXCEPT !.cancelled = TRUE]
    <3>1. x \in ChannelRecords /\ x.st = channels[n].st BY Zenon, <1>0 DEF ChannelRecords
    <3>2. channels' = [channels EXCEPT ![n] = x] BY <2>2 DEF Pulse
    <3> HIDE DEF x
    <3>3. QED BY Zenon, <3>1, <3>2
  <2>3. CASE PeerReturns(n)
    <3> DEFINE x == [channels[n] EXCEPT !.cancelled = TRUE, !.here = FALSE]
    <3>1. x \in ChannelRecords /\ x.st = channels[n].st BY Zenon, <1>0 DEF ChannelRecords
    <3>2. channels' = [channels EXCEPT ![n] = x] BY Zenon, <2>3 DEF PeerReturns
    <3> HIDE DEF x
    <3>3. QED BY <3>1, <3>2
  <2>4. CASE PeerRemoved(n)
    <3> DEFINE x == [channels[n] EXCEPT !.st = "gone", !.relay = NoTab, !.up = <<>>]
    <3>1. x \in ChannelRecords /\ x.st = "gone"
      <4>1. <<>> \in Seq(FramesOf(Tabs)) OBVIOUS
      <4>2. QED BY Zenon, <1>0, <4>1 DEF ChannelRecords
    <3>2. channels' = [channels EXCEPT ![n] = x] /\ channels[n].st # "none" BY <2>4 DEF PeerRemoved
    <3> HIDE DEF x
    <3>3. QED BY Zenon, <3>1, <3>2
  <2>5. QED BY <2>1, <2>2, <2>3, <2>4
<1>2. /\ tabs' = tabs \/ \E t \in Tabs : tabs' = [tabs EXCEPT ![t] = [tabs[t] EXCEPT !.cancelled = TRUE]]
      /\ peer' \in {peer, 0} /\ UNCHANGED <<visit, tickets, issued, link, locals>>
  <2>1. channels[n].relay \in Tabs \cup {NoTab} BY Zenon, <1>0 DEF ChannelRecords
  <2>2. QED BY Zenon, <2>1 DEF Hello, Pulse, PeerReturns, PeerRemoved
<1>3. /\ tabs' = [u \in Tabs |-> tabs'[u]]
      /\ \A u \in Tabs : /\ tabs'[u] \in TabRecords(u) /\ (tabs'[u].ch = 0 => tabs'[u].st = "idle" /\ ~tabs'[u].reading)
                         /\ tabs'[u].ticket = tabs[u].ticket
  <2>1. CASE tabs' = tabs BY <1>0, <2>1 DEF ConsoleTypeOK
  <2>2. ASSUME NEW t \in Tabs, tabs' = [tabs EXCEPT ![t] = [tabs[t] EXCEPT !.cancelled = TRUE]] PROVE <1>3
    <3> DEFINE y == [tabs[t] EXCEPT !.cancelled = TRUE]
    <3>1. /\ y \in TabRecords(t) /\ y.ticket = tabs[t].ticket /\ y.ch = tabs[t].ch /\ y.st = tabs[t].st
          /\ y.reading = tabs[t].reading
      <4>1. tabs[t] \in TabRecords(t) BY <1>0 DEF ConsoleTypeOK
      <4>2. QED BY Zenon, <4>1 DEF TabRecords
    <3>2. y.ch = 0 => y.st = "idle" /\ ~y.reading BY <1>0, <3>1 DEF ConsoleTypeOK
    <3> HIDE DEF y
    <3>3. tabs' = [tabs EXCEPT ![t] = y] BY <2>2 DEF y
    <3>4. QED BY Zenon, <1>0, <3>1, <3>2, <3>3, TabEdit
  <2>3. QED BY Zenon, <1>2, <2>1, <2>2
<1>4. QED BY <1>0, <1>1, <1>2, <1>3, ChannelEdit, ConsoleConstants DEF Quiet, ConsoleTypeOK

\* What one step does to one channel and to one tab is quiet when the channel
\* is as dialled as it was and the tab keeps its ticket.
LEMMA EditsQuiet ==
  ASSUME ConsoleInv,
         NEW n \in 1..MaxChannels, NEW c \in ChannelRecords, channels' = [channels EXCEPT ![n] = c], c.st = channels[n].st,
         NEW t \in Tabs, NEW y \in TabRecords(t), tabs' = [tabs EXCEPT ![t] = y], y.ticket = tabs[t].ticket,
         y.ch = 0 => y.st = "idle" /\ ~y.reading,
         UNCHANGED <<visit, peer, tickets, issued, link, locals>>
  PROVE  Quiet
<1>0. ConsoleTypeOK BY DEF ConsoleInv
<1>1. /\ channels' \in [1..MaxChannels -> ChannelRecords] /\ channels'[n] = c
      /\ \A m \in 1..MaxChannels : m # n => channels'[m] = channels[m]
  BY Zenon, <1>0, ChannelEdit
<1>2. /\ tabs' = [u \in Tabs |-> tabs'[u]]
      /\ \A u \in Tabs : tabs'[u] \in TabRecords(u) /\ (tabs'[u].ch = 0 => tabs'[u].st = "idle" /\ ~tabs'[u].reading)
      /\ tabs'[t] = y /\ \A u \in Tabs : u # t => tabs'[u] = tabs[u]
  BY Zenon, <1>0, TabEdit
<1>3. QED BY <1>0, <1>1, <1>2 DEF Quiet, ConsoleTypeOK

\* The frame read goes to the tab it is for, or nowhere.
LEMMA ReadUpQuiet ==
  ASSUME ConsoleInv, NEW n \in 1..MaxChannels, ReadUp(n)
  PROVE  Quiet
<1>0. ConsoleTypeOK /\ channels[n] \in ChannelRecords BY DEF ConsoleInv, ConsoleTypeOK
<1> DEFINE m == Head(channels[n].up)
<1> DEFINE t == RelayOf(n, m)
<1> DEFINE read == [channels[n] EXCEPT !.up = Tail(channels[n].up)]
<1>1. channels[n].up \in Seq(FramesOf(Tabs)) /\ channels[n].up # <<>> BY Zenon, <1>0 DEF ChannelRecords, ReadUp
<1>2. m \in FramesOf(Tabs) /\ Tail(channels[n].up) \in Seq(FramesOf(Tabs)) BY <1>1
<1>3. read \in ChannelRecords /\ read.st = channels[n].st BY Zenon, <1>0, <1>2 DEF ChannelRecords
<1> DEFINE cut == [read EXCEPT !.cancelled = TRUE, !.here = FALSE]
<1>4. UNCHANGED <<visit, peer, tickets, issued, link, locals>> BY Zenon DEF ReadUp
<1>5. CASE t = NoTab
  <2>0. t = NoTab BY <1>5
  <2>1. channels' = [channels EXCEPT ![n] = read] /\ tabs' = tabs BY Zenon, <2>0 DEF ReadUp
  <2> HIDE DEF read
  <2>2. QED BY <1>0, <1>3, <1>4, <2>1, ChannelEdit DEF Quiet, ConsoleTypeOK
<1>6. CASE t # NoTab
  <2>0. t # NoTab BY Zenon, <1>6
  <2>1. t = m.session /\ m.session \in Tabs /\ m.type \in FrameTypes /\ m.seq \in Nat
    BY Zenon, <1>2, <2>0 DEF RelayOf, FramesOf
  <2>2. m \in FramesOf({t})
    <3>1. m = [type |-> m.type, session |-> m.session, seq |-> m.seq] BY Zenon, <1>2 DEF FramesOf
    <3> HIDE DEF m, t
    <3>2. QED BY <2>1, <3>1 DEF FramesOf
  <2>3. /\ t \in Tabs /\ tabs[t] \in TabRecords(t) /\ tabs[t].out \in Seq(FramesOf({t}))
        /\ (tabs[t].ch = 0 => tabs[t].st = "idle" /\ ~tabs[t].reading)
    <3>1. t \in Tabs BY <2>1
    <3> HIDE DEF t
    <3>2. QED BY Zenon, <1>0, <3>1 DEF ConsoleTypeOK, TabRecords
  <2>4. CASE Len(tabs[t].out) < OutRoom
    <3> DEFINE y == [tabs[t] EXCEPT !.out = Append(tabs[t].out, m)]
    <3>1. channels' = [channels EXCEPT ![n] = read] /\ tabs' = [tabs EXCEPT ![t] = y]
      <4>1. Len(tabs[t].out) < OutRoom BY <2>4
      <4>2. ~(Len(tabs[t].out) >= OutRoom) BY <2>3, <4>1, ConsoleConstants
      <4>3. QED BY Zenon, <2>0, <4>2 DEF ReadUp
    <3> HIDE DEF t, m, read
    <3>2. Append(tabs[t].out, m) \in Seq(FramesOf({t})) BY <2>2, <2>3
    <3>3. /\ y \in TabRecords(t) /\ y.ticket = tabs[t].ticket /\ y.ch = tabs[t].ch /\ y.st = tabs[t].st
          /\ y.reading = tabs[t].reading
      BY Zenon, <2>3, <3>2 DEF TabRecords
    <3> HIDE DEF y
    <3>4. QED BY <1>3, <1>4, <2>3, <3>1, <3>3, EditsQuiet
  <2>5. CASE ~(Len(tabs[t].out) < OutRoom)
    <3> DEFINE y == [tabs[t] EXCEPT !.cancelled = TRUE]
    <3>1. channels' = [channels EXCEPT ![n] = cut] /\ tabs' = [tabs EXCEPT ![t] = y]
      BY Zenon, <2>0, <2>5 DEF ReadUp
    <3> HIDE DEF t, m
    <3>2. cut \in ChannelRecords /\ cut.st = channels[n].st
      <4> HIDE DEF read
      <4>1. QED BY Zenon, <1>3 DEF ChannelRecords
    <3> HIDE DEF cut
    <3>3. /\ y \in TabRecords(t) /\ y.ticket = tabs[t].ticket /\ y.ch = tabs[t].ch /\ y.st = tabs[t].st
          /\ y.reading = tabs[t].reading
      BY Zenon, <2>3 DEF TabRecords
    <3> HIDE DEF y
    <3>4. QED BY <1>4, <2>3, <3>1, <3>2, <3>3, EditsQuiet
  <2>6. QED BY <2>4, <2>5
<1>7. QED BY <1>5, <1>6

\* The same when no channel is written.
LEMMA TabQuiet ==
  ASSUME ConsoleInv, channels' = channels,
         NEW t \in Tabs, NEW y \in TabRecords(t), tabs' = [tabs EXCEPT ![t] = y], y.ticket = tabs[t].ticket,
         y.ch = 0 => y.st = "idle" /\ ~y.reading,
         UNCHANGED <<visit, peer, tickets, issued, link, locals>>
  PROVE  Quiet
<1>0. ConsoleTypeOK BY Zenon DEF ConsoleInv
<1>2. /\ tabs' = [u \in Tabs |-> tabs'[u]]
      /\ \A u \in Tabs : tabs'[u] \in TabRecords(u) /\ (tabs'[u].ch = 0 => tabs'[u].st = "idle" /\ ~tabs'[u].reading)
      /\ tabs'[t] = y /\ \A u \in Tabs : u # t => tabs'[u] = tabs[u]
  BY Zenon, <1>0, TabEdit
<1>3. QED BY Zenon, <1>0, <1>2 DEF Quiet, ConsoleTypeOK

\* agentConsoleBrowser: the audit record, and every way to return.
LEMMA TabMovesQuiet ==
  ASSUME ConsoleInv, NEW t \in Tabs, Audited(t) \/ Leave(t)
  PROVE  Quiet
<1>0. tabs[t] \in TabRecords(t) /\ tabs[t].ch # 0 BY DEF ConsoleInv, ConsoleTypeOK, Audited, Leave
<1>1. PICK s \in {"cleared", "ending"} : tabs' = [tabs EXCEPT ![t] = [tabs[t] EXCEPT !.st = s]] BY Zenon DEF Audited, Leave
<1> DEFINE y == [tabs[t] EXCEPT !.st = s]
<1>2. y \in TabRecords(t) /\ y.ticket = tabs[t].ticket /\ y.ch # 0 BY Zenon, <1>0 DEF TabRecords
<1>3. channels' = channels /\ UNCHANGED <<visit, peer, tickets, issued, link, locals>> BY DEF Audited, Leave
<1>4. tabs' = [tabs EXCEPT ![t] = y] BY Zenon, <1>1
<1> HIDE DEF y
<1>5. QED BY Zenon, <1>2, <1>3, <1>4, TabQuiet

\* agentConsoleBrowser: "open" goes down the channel, if it is there.
LEMMA SendOpenQuiet ==
  ASSUME ConsoleInv, NEW t \in Tabs, SendOpen(t)
  PROVE  Quiet
<1>0. tabs[t] \in TabRecords(t) /\ tabs[t].ch # 0 /\ ConsoleTypeOK BY DEF ConsoleInv, ConsoleTypeOK, SendOpen
<1>a. tabs[t].ch \in 1..MaxChannels
  <2>1. tabs[t].ch \in 0..MaxChannels BY Zenon, <1>0 DEF TabRecords
  <2>2. QED BY <1>0, <2>1, ConsoleConstants
<1> DEFINE n == tabs[t].ch
<1>1. UNCHANGED <<visit, peer, tickets, issued, link, locals>> BY DEF SendOpen
<1>2. CASE channels[n].here
  <2> DEFINE c == [channels[n] EXCEPT !.down = Append(channels[n].down, Frame("open", t, 0))]
  <2> DEFINE y == [tabs[t] EXCEPT !.st = "running", !.reading = TRUE]
  <2>1. channels' = [channels EXCEPT ![n] = c] /\ tabs' = [tabs EXCEPT ![t] = y] BY <1>2 DEF SendOpen
  <2>2. y \in TabRecords(t) /\ y.ticket = tabs[t].ticket /\ y.ch # 0 BY Zenon, <1>0 DEF TabRecords
  <2> HIDE DEF y
  <2>3. Frame("open", t, 0) \in FramesOf(Tabs) BY DEF Frame, FramesOf, FrameTypes
  <2>4. channels[n] \in ChannelRecords /\ channels[n].down \in Seq(FramesOf(Tabs)) BY <1>0, <1>a DEF ConsoleTypeOK, ChannelRecords
  <2>5. Append(channels[n].down, Frame("open", t, 0)) \in Seq(FramesOf(Tabs)) BY <2>3, <2>4
  <2>6. c \in ChannelRecords /\ c.st = channels[n].st BY Zenon, <2>4, <2>5 DEF ChannelRecords
  <2> HIDE DEF c
  <2>7. QED BY Zenon, <1>0, <1>a, <1>1, <2>1, <2>2, <2>6, EditsQuiet
<1>3. CASE ~channels[n].here
  <2> DEFINE y == [tabs[t] EXCEPT !.st = "ending"]
  <2>1. channels' = channels /\ tabs' = [tabs EXCEPT ![t] = y] BY Zenon, <1>3 DEF SendOpen
  <2>2. y \in TabRecords(t) /\ y.ticket = tabs[t].ticket /\ y.ch # 0 BY Zenon, <1>0 DEF TabRecords
  <2> HIDE DEF y
  <2>3. QED BY <1>1, <2>1, <2>2, TabQuiet
<1>4. QED BY Zenon, <1>2, <1>3

\* agentConsoleBrowser, the read goroutine: the next input, or the end.
LEMMA TypeQuiet ==
  ASSUME ConsoleInv, NEW t \in Tabs, Type(t)
  PROVE  Quiet
<1>0. tabs[t] \in TabRecords(t) /\ tabs[t].ch # 0 /\ ConsoleTypeOK BY DEF ConsoleInv, ConsoleTypeOK, Type
<1>a. tabs[t].ch \in 1..MaxChannels
  <2>1. tabs[t].ch \in 0..MaxChannels BY <1>0 DEF TabRecords
  <2>2. QED BY <1>0, <2>1, ConsoleConstants
<1> DEFINE n == tabs[t].ch
<1> DEFINE k == tabs[t].last + 1
<1>1. UNCHANGED <<visit, peer, tickets, issued, link, locals>> BY Zenon DEF Type
<1>2. CASE entitled /\ channels[n].here
  <2> DEFINE c == [channels[n] EXCEPT !.down = Append(channels[n].down, Frame("input", t, k))]
  <2> DEFINE y == [tabs[t] EXCEPT !.last = k]
  <2>1. channels' = [channels EXCEPT ![n] = c] /\ tabs' = [tabs EXCEPT ![t] = y] BY Zenon, <1>2 DEF Type
  <2>2. k \in Nat BY <1>0 DEF TabRecords
  <2> HIDE DEF k
  <2>3. y \in TabRecords(t) /\ y.ticket = tabs[t].ticket /\ y.ch # 0 BY Zenon, <1>0, <2>2 DEF TabRecords
  <2> HIDE DEF y
  <2>4. Frame("input", t, k) \in FramesOf(Tabs) BY <2>2 DEF Frame, FramesOf, FrameTypes
  <2>5. channels[n] \in ChannelRecords /\ channels[n].down \in Seq(FramesOf(Tabs)) BY <1>0, <1>a DEF ConsoleTypeOK, ChannelRecords
  <2>6. Append(channels[n].down, Frame("input", t, k)) \in Seq(FramesOf(Tabs)) BY <2>4, <2>5
  <2>7. c \in ChannelRecords /\ c.st = channels[n].st BY Zenon, <2>5, <2>6 DEF ChannelRecords
  <2> HIDE DEF c
  <2>8. QED BY <1>0, <1>a, <1>1, <2>1, <2>3, <2>7, EditsQuiet
<1>3. CASE ~(entitled /\ channels[n].here)
  <2> DEFINE y == [tabs[t] EXCEPT !.cancelled = TRUE, !.reading = FALSE]
  <2>1. channels' = channels /\ tabs' = [tabs EXCEPT ![t] = y] BY Zenon, <1>3 DEF Type
  <2>2. y \in TabRecords(t) /\ y.ticket = tabs[t].ticket /\ y.ch # 0 BY Zenon, <1>0 DEF TabRecords
  <2> HIDE DEF y
  <2>3. QED BY <1>1, <2>1, <2>2, TabQuiet
<1>4. QED BY Zenon, <1>2, <1>3

\* agentConsoleBrowser: what the tab shows is the session of its frame.
LEMMA TakeOutQuiet ==
  ASSUME ConsoleInv, NEW t \in Tabs, TakeOut(t)
  PROVE  Quiet
<1>0. /\ tabs[t] \in TabRecords(t) /\ tabs[t].ch # 0 /\ ConsoleTypeOK
      /\ tabs[t].out \in Seq(FramesOf({t})) /\ tabs[t].out # <<>> /\ tabs[t].shown \in Seq({t})
  BY Zenon DEF ConsoleInv, ConsoleTypeOK, TabRecords, TakeOut
<1> DEFINE m == Head(tabs[t].out)
<1> DEFINE took == [tabs[t] EXCEPT !.out = Tail(tabs[t].out)]
<1>1. UNCHANGED <<visit, peer, tickets, issued, link, locals>> /\ channels' = channels BY Zenon DEF TakeOut
<1>2. m \in FramesOf({t}) /\ Tail(tabs[t].out) \in Seq(FramesOf({t})) BY <1>0
<1>3. Append(tabs[t].shown, m.session) \in Seq({t}) BY <1>0, <1>2 DEF FramesOf
<1>4. took \in TabRecords(t) /\ took.ticket = tabs[t].ticket /\ took.ch = tabs[t].ch BY Zenon, <1>0, <1>2 DEF TabRecords
<1>5. PICK y : /\ y \in { [took EXCEPT !.ready = TRUE], [took EXCEPT !.shown = Append(tabs[t].shown, m.session)],
                          [took EXCEPT !.st = "ending"] }
               /\ tabs' = [tabs EXCEPT ![t] = y]
  BY Zenon DEF TakeOut
<1> HIDE DEF took, m
<1>6. y \in TabRecords(t) /\ y.ticket = tabs[t].ticket /\ y.ch # 0
  <2>1. CASE y = [took EXCEPT !.ready = TRUE] BY Zenon, <1>0, <1>4, <2>1 DEF TabRecords
  <2>2. CASE y = [took EXCEPT !.shown = Append(tabs[t].shown, m.session)] BY Zenon, <1>0, <1>3, <1>4, <2>2 DEF TabRecords
  <2>3. CASE y = [took EXCEPT !.st = "ending"] BY Zenon, <1>0, <1>4, <2>3 DEF TabRecords
  <2>4. QED BY Zenon, <1>5, <2>1, <2>2, <2>3
<1>7. QED BY Zenon, <1>1, <1>5, <1>6, TabQuiet

\* agentConsoleBrowser, deferred.
LEMMA UnwindQuiet ==
  ASSUME ConsoleInv, NEW t \in Tabs, Unwind(t)
  PROVE  Quiet
<1>0. tabs[t] \in TabRecords(t) /\ tabs[t].ch # 0 /\ ConsoleTypeOK BY Zenon DEF ConsoleInv, ConsoleTypeOK, Unwind
<1>a. tabs[t].ch \in 1..MaxChannels
  <2>1. tabs[t].ch \in 0..MaxChannels BY <1>0 DEF TabRecords
  <2>2. QED BY <1>0, <2>1, ConsoleConstants
<1> DEFINE n == tabs[t].ch
<1>1. UNCHANGED <<visit, peer, tickets, issued, link, locals>> /\ channels[n] \in ChannelRecords
  BY Zenon, <1>0, <1>a DEF Unwind, ConsoleTypeOK
<1>2. CASE tabs[t].st = "ending"
  <2> DEFINE c == [channels[n] EXCEPT !.cancelled = TRUE]
  <2> DEFINE y == [tabs[t] EXCEPT !.st = "parting", !.cancelled = TRUE]
  <2>1. channels' = [channels EXCEPT ![n] = c] /\ tabs' = [tabs EXCEPT ![t] = y] BY <1>2 DEF Unwind, PeerCancelled
  <2>2. c \in ChannelRecords /\ c.st = channels[n].st BY Zenon, <1>1 DEF ChannelRecords
  <2>3. y \in TabRecords(t) /\ y.ticket = tabs[t].ticket /\ y.ch # 0 BY Zenon, <1>0 DEF TabRecords
  <2> HIDE DEF c, y
  <2>4. QED BY Zenon, <1>0, <1>a, <1>1, <2>1, <2>2, <2>3, EditsQuiet
<1>3. CASE tabs[t].st = "parting"
  <2> DEFINE r == IF channels[n].relay = t THEN NoTab ELSE channels[n].relay
  <2> DEFINE c == [channels[n] EXCEPT !.relay = r]
  <2> DEFINE y == [tabs[t] EXCEPT !.st = "released"]
  <2>1. channels' = [channels EXCEPT ![n] = c] /\ tabs' = [tabs EXCEPT ![t] = y] BY Zenon, <1>3 DEF Unwind
  <2>2. r \in Tabs \cup {NoTab} BY Zenon, <1>1 DEF ChannelRecords
  <2> HIDE DEF r
  <2>3. c \in ChannelRecords /\ c.st = channels[n].st BY Zenon, <1>1, <2>2 DEF ChannelRecords
  <2>4. y \in TabRecords(t) /\ y.ticket = tabs[t].ticket /\ y.ch # 0 BY Zenon, <1>0 DEF TabRecords
  <2> HIDE DEF c, y
  <2>5. QED BY <1>0, <1>a, <1>1, <2>1, <2>3, <2>4, EditsQuiet
<1>4. CASE tabs[t].st = "released"
  <2> DEFINE y == [tabs[t] EXCEPT !.st = "gone", !.reading = FALSE, !.out = <<>>]
  <2>1. channels' = channels /\ tabs' = [tabs EXCEPT ![t] = y] BY <1>4 DEF Unwind
  <2>2. <<>> \in Seq(FramesOf({t})) OBVIOUS
  <2>3. y \in TabRecords(t) /\ y.ticket = tabs[t].ticket /\ y.ch # 0 BY Zenon, <1>0, <2>2 DEF TabRecords
  <2> HIDE DEF y
  <2>4. QED BY Zenon, <1>1, <2>1, <2>3, TabQuiet
<1>5. QED BY <1>2, <1>3, <1>4 DEF Unwind

\* Tickets that run out, closeAll and a withdrawn authority.
LEMMA OwnerQuiet ==
  ASSUME ConsoleInv, TicketExpires \/ CloseAll \/ Withdrawn \/ UNCHANGED consoleVars
  PROVE  Quiet
<1>0. ConsoleTypeOK BY DEF ConsoleInv
<1>1. CASE TicketExpires BY <1>0, <1>1 DEF TicketExpires, Quiet, ConsoleTypeOK
<1>2. CASE Withdrawn BY <1>0, <1>2 DEF Withdrawn, Quiet, ConsoleTypeOK
<1>3. CASE UNCHANGED consoleVars BY <1>0, <1>3 DEF consoleVars, Quiet, ConsoleTypeOK
<1>4. CASE CloseAll
  <2>1. UNCHANGED <<visit, peer, issued, link, locals>> /\ tickets' = {} BY <1>4 DEF CloseAll
  <2>2. channels' \in [1..MaxChannels -> ChannelRecords] /\ \A n \in 1..MaxChannels : channels'[n].st = channels[n].st
    <3>1. CASE peer = 0 BY <1>0, <1>4, <3>1 DEF CloseAll, ConsoleTypeOK
    <3>2. CASE peer # 0
      <4> DEFINE c == [channels[peer] EXCEPT !.cancelled = TRUE]
      <4>1. peer \in 1..MaxChannels BY <1>0, <3>2, ConsoleConstants DEF ConsoleTypeOK
      <4>2. channels[peer] \in ChannelRecords BY <1>0, <4>1 DEF ConsoleTypeOK
      <4>3. c \in ChannelRecords /\ c.st = channels[peer].st BY Zenon, <4>2 DEF ChannelRecords
      <4>4. channels' = [channels EXCEPT ![peer] = c] BY <1>4, <3>2 DEF CloseAll
      <4> HIDE DEF c
      <4>5. QED BY Zenon, <1>0, <4>1, <4>3, <4>4, ChannelEdit
    <3>3. QED BY <3>1, <3>2
  <2>3. tabs' = [t \in Tabs |-> IF tabs[t].st \in {"idle", "gone"} THEN tabs[t] ELSE [tabs[t] EXCEPT !.cancelled = TRUE]]
    BY <1>4 DEF CloseAll
  <2>4. /\ tabs' = [u \in Tabs |-> tabs'[u]]
        /\ \A u \in Tabs : /\ tabs'[u] \in TabRecords(u) /\ (tabs'[u].ch = 0 => tabs'[u].st = "idle" /\ ~tabs'[u].reading)
                           /\ tabs'[u].ticket = tabs[u].ticket
    <3>1. tabs' = [u \in Tabs |-> tabs'[u]] BY Zenon, <2>3
    <3>2. ASSUME NEW u \in Tabs
          PROVE  /\ tabs'[u] \in TabRecords(u) /\ (tabs'[u].ch = 0 => tabs'[u].st = "idle" /\ ~tabs'[u].reading)
                 /\ tabs'[u].ticket = tabs[u].ticket
      <4>1. tabs[u] \in TabRecords(u) /\ (tabs[u].ch = 0 => tabs[u].st = "idle" /\ ~tabs[u].reading)
        BY <1>0 DEF ConsoleTypeOK
      <4>2. tabs'[u] = IF tabs[u].st \in {"idle", "gone"} THEN tabs[u] ELSE [tabs[u] EXCEPT !.cancelled = TRUE] BY <2>3
      <4>3. CASE tabs'[u] = tabs[u] BY <4>1, <4>3
      <4>4. CASE tabs'[u] = [tabs[u] EXCEPT !.cancelled = TRUE] BY Zenon, <4>1, <4>4 DEF TabRecords
      <4>5. QED BY <4>2, <4>3, <4>4
    <3>3. QED BY <3>1, <3>2
  <2>5. QED BY <1>0, <2>1, <2>2, <2>4 DEF Quiet, ConsoleTypeOK
<1>5. QED BY <1>1, <1>2, <1>3, <1>4

\* A ticket has a number of its own.
LEMMA TicketKeeps == ConsoleInv /\ Ticket => ConsoleInv'
<1> SUFFICES ASSUME ConsoleInv, Ticket PROVE ConsoleInv' OBVIOUS
<1>0. ConsoleTypeOK /\ TicketInv BY DEF ConsoleInv
<1>1. /\ UNCHANGED <<visit, peer, channels, tabs, link, locals>> /\ issued' = issued + 1 /\ issued \in Nat
      /\ tickets' = tickets \cup {[no |-> issued + 1, ch |-> peer]} /\ peer \in 1..MaxChannels
  BY <1>0, ConsoleConstants DEF Ticket, Ready, ConsoleTypeOK
<1> DEFINE k == [no |-> issued + 1, ch |-> peer]
<1>2. issued + 1 \in Nat BY <1>1
<1>3. k \in [no : Nat, ch : 1..MaxChannels] /\ k.no = issued + 1 BY <1>1, <1>2
<1> HIDE DEF k
<1>4. tickets' = tickets \cup {k} BY Zenon, <1>1 DEF k
<1>5. ConsoleTypeOK' BY Zenon, <1>0, <1>1, <1>2, <1>3, <1>4 DEF ConsoleTypeOK
<1>6. TicketInv'
  <2>1. \A l \in tickets : l.no \in 1..issued BY <1>0 DEF TicketInv
  <2>2. \A t \in Tabs : tabs[t].ticket \in Nat BY Zenon, <1>0 DEF ConsoleTypeOK, TabRecords
  <2>3. \A l \in tickets' : l.no \in 1..issued' BY <1>1, <1>2, <1>3, <1>4, <2>1
  <2>4. \A l, m \in tickets' : l.no = m.no => l = m
    <3>1. \A l, m \in tickets : l.no = m.no => l = m BY <1>0 DEF TicketInv
    <3>2. \A l \in tickets : l.no # k.no BY <1>1, <1>3, <2>1
    <3>3. QED BY Zenon, <1>4, <3>1, <3>2
  <2>5. \A t \in Tabs : tabs[t].ticket <= issued' /\ \A l \in tickets' : l.no # tabs[t].ticket
    <3>1. \A t \in Tabs : tabs[t].ticket <= issued /\ \A l \in tickets : l.no # tabs[t].ticket BY Zenon, <1>0 DEF TicketInv
    <3>2. QED BY <1>1, <1>3, <1>4, <2>2, <3>1
  <2>6. QED BY <1>0, <1>1, <2>3, <2>4, <2>5 DEF TicketInv
<1>7. LinkInv' /\ \A t \in Tabs : LocalInv(t)' BY Zenon, <1>1, TerminalsKeep
<1>8. QED BY <1>5, <1>6, <1>7 DEF ConsoleInv

\* agentConsoleBrowser takes the ticket it admits the tab with.
LEMMA AdmitKeeps == \A t \in Tabs : ConsoleInv /\ Admit(t) => ConsoleInv'
<1> SUFFICES ASSUME NEW t \in Tabs, ConsoleInv, Admit(t) PROVE ConsoleInv' OBVIOUS
<1>0. ConsoleTypeOK /\ TicketInv /\ tabs[t] \in TabRecords(t) BY DEF ConsoleInv, ConsoleTypeOK
<1>1. PICK k \in tickets :
         /\ tickets' = tickets \ {k} /\ peer # 0
         /\ channels' = [channels EXCEPT ![peer] = [channels[peer] EXCEPT !.relay = t]]
         /\ tabs' = [tabs EXCEPT ![t] = [tabs[t] EXCEPT !.st = "relayed", !.ch = peer, !.ticket = k.no]]
         /\ UNCHANGED <<visit, peer, issued, link, locals>>
  BY Zenon DEF Admit, Admits, Ready, TicketsAfter
<1>2. peer \in 1..MaxChannels /\ peer \in 0..MaxChannels BY <1>0, <1>1, ConsoleConstants DEF ConsoleTypeOK
<1>3. k.no \in Nat BY Zenon, <1>0 DEF ConsoleTypeOK
<1> DEFINE c == [channels[peer] EXCEPT !.relay = t]
<1> DEFINE y == [tabs[t] EXCEPT !.st = "relayed", !.ch = peer, !.ticket = k.no]
<1>4. c \in ChannelRecords /\ c.st = channels[peer].st
  <2>1. channels[peer] \in ChannelRecords BY <1>0, <1>2 DEF ConsoleTypeOK
  <2>2. QED BY Zenon, <2>1 DEF ChannelRecords
<1>5. y \in TabRecords(t) /\ y.ticket = k.no /\ y.ch = peer
  <2>1. peer \in 0..MaxChannels BY <1>2
  <2>2. QED BY Zenon, <1>0, <1>3, <2>1 DEF TabRecords
<1>6. channels' = [channels EXCEPT ![peer] = c] /\ tabs' = [tabs EXCEPT ![t] = y] BY <1>1
<1> HIDE DEF c, y
<1>7. /\ channels' \in [1..MaxChannels -> ChannelRecords] /\ channels'[peer] = c
      /\ \A m \in 1..MaxChannels : m # peer => channels'[m] = channels[m]
  BY Zenon, <1>0, <1>2, <1>4, <1>6, ChannelEdit
<1>8. /\ tabs' = [u \in Tabs |-> tabs'[u]]
      /\ \A u \in Tabs : tabs'[u] \in TabRecords(u) /\ (tabs'[u].ch = 0 => tabs'[u].st = "idle" /\ ~tabs'[u].reading)
      /\ tabs'[t] = y /\ \A u \in Tabs : u # t => tabs'[u] = tabs[u]
  BY Zenon, <1>0, <1>1, <1>5, <1>6, TabEdit
<1>9. ConsoleTypeOK' BY Zenon, <1>0, <1>1, <1>7, <1>8 DEF ConsoleTypeOK
<1>10. TicketInv'
  <2>1. tabs'[t].ticket = k.no /\ \A u \in Tabs : u # t => tabs'[u].ticket = tabs[u].ticket BY Zenon, <1>5, <1>8
  <2>2. k.no <= issued BY <1>0 DEF TicketInv, ConsoleTypeOK
  <2>3. \A l \in tickets' : l \in tickets /\ l.no # k.no BY Zenon, <1>0, <1>1 DEF TicketInv
  <2>4. QED BY <1>0, <1>1, <2>1, <2>2, <2>3 DEF TicketInv
<1>11. LinkInv' /\ \A u \in Tabs : LocalInv(u)' BY <1>1, <1>4, <1>7, TerminalsKeep
<1>12. QED BY Zenon, <1>9, <1>10, <1>11 DEF ConsoleInv

\* Dial takes a channel that no terminal has been opened on.
LEMMA DialKeeps == ConsoleInv /\ Dial => ConsoleInv'
<1> SUFFICES ASSUME ConsoleInv, Dial PROVE ConsoleInv' OBVIOUS
<1>0. ConsoleTypeOK /\ LinkInv /\ \A t \in Tabs : LocalInv(t) BY DEF ConsoleInv
<1>1. PICK n \in 1..visit.channels :
         /\ channels[n].st = "none" /\ peer' = n
         /\ channels' = [channels EXCEPT ![n] = [NoChannel EXCEPT !.st = "dialled", !.here = TRUE, !.there = TRUE]]
         /\ link' = [NoLink EXCEPT !.ch = n, !.st = "up"]
         /\ UNCHANGED <<visit, tickets, issued, tabs, locals>>
  BY Zenon DEF Dial
<1> DEFINE c == [NoChannel EXCEPT !.st = "dialled", !.here = TRUE, !.there = TRUE]
<1> DEFINE l == [NoLink EXCEPT !.ch = n, !.st = "up"]
<1>3. /\ channels' = [channels EXCEPT ![n] = c] /\ link' = l /\ peer' = n
      /\ UNCHANGED <<visit, tickets, issued, tabs, locals>>
  BY Zenon, <1>1
<1>4. n \in 1..MaxChannels /\ n \in 0..MaxChannels
  <2>1. visit.channels \in 0..MaxChannels BY Zenon, <1>0, ConsoleConstants DEF ConsoleTypeOK
  <2>2. QED BY <2>1, ConsoleConstants
<1>5. c \in ChannelRecords /\ c.st = "dialled"
  <2>1. <<>> \in Seq(FramesOf(Tabs)) OBVIOUS
  <2>2. QED BY Zenon, <2>1 DEF NoChannel, ChannelRecords
<1>6. l \in LinkRecords /\ l.ch = n /\ l.st = "up" /\ l.active = NoTab /\ ~l.opened
  <2>1. n \in 0..MaxChannels BY <1>4
  <2>2. QED BY Zenon, <2>1 DEF NoLink, LinkRecords
<1> HIDE DEF c, l
<1>7. /\ channels' \in [1..MaxChannels -> ChannelRecords] /\ channels'[n] = c
      /\ \A m \in 1..MaxChannels : m # n => channels'[m] = channels[m]
  BY Zenon, <1>0, <1>3, <1>4, <1>5, ChannelEdit
<1>8. ConsoleTypeOK' BY <1>0, <1>3, <1>4, <1>6, <1>7 DEF ConsoleTypeOK
<1>10. TicketInv' BY Zenon, <1>3, TicketsKeep
<1>12. \A t \in Tabs : locals[t].ch # n BY <1>0, <1>1, <1>4, ConsoleConstants DEF LocalInv
<1>13. LinkInv'
  <2>1. link'.ch # 0 BY <1>3, <1>4, <1>6
  <2>2. QED BY <1>3, <1>5, <1>6, <1>7, <1>12, <2>1 DEF LinkInv
<1>14. ASSUME NEW t \in Tabs PROVE LocalInv(t)'
  <2>1. locals[t].conn # "open"
    <3>1. link.ch = 0 /\ 0 \notin Tabs BY Zenon, ConsoleConstants DEF Dial
    <3>2. link.active = NoTab BY <1>0, <3>1 DEF LinkInv, NoLink
    <3>3. QED BY <1>0, <3>1, <3>2 DEF LocalInv, NoTab
  <2>2. locals[t].ch # 0 => locals[t].ch \in 1..MaxChannels BY Zenon, <1>0, LocalChannel
  <2>3. locals[t].ch # 0 => channels'[locals[t].ch].st # "none" BY Zenon, <1>0, <1>7, <1>12, <2>2 DEF LocalInv
  <2>4. QED BY <1>0, <1>3, <2>1, <2>3 DEF LocalInv
<1>15. QED BY <1>8, <1>10, <1>13, <1>14 DEF ConsoleInv

\* A write to one terminal leaves the others alone.
LEMMA LocalEdit ==
  ASSUME ConsoleTypeOK, NEW t \in Tabs, NEW new \in LocalRecords, locals' = [locals EXCEPT ![t] = new]
  PROVE  /\ locals' \in [Tabs -> LocalRecords] /\ locals'[t] = new
         /\ \A u \in Tabs : u # t => locals'[u] = locals[u]
BY Zenon DEF ConsoleTypeOK

\* A step of the link or of a terminal gives out no ticket and dials nothing.
LEMMA TerminalStep ==
  ASSUME ConsoleInv, channels' \in [1..MaxChannels -> ChannelRecords],
         \A n \in 1..MaxChannels : channels'[n].st = channels[n].st,
         UNCHANGED <<visit, peer, tickets, issued, tabs>>, link' \in LinkRecords, locals' \in [Tabs -> LocalRecords],
         LinkInv', \A t \in Tabs : LocalInv(t)'
  PROVE  ConsoleInv'
<1>1. ConsoleTypeOK' BY Zenon DEF ConsoleInv, ConsoleTypeOK
<1>2. QED BY Zenon, <1>1, TicketsKeep DEF ConsoleInv

\* A link that runs has a channel.
LEMMA LinkUp ==
  ASSUME ConsoleInv, link.st # "none"
  PROVE  /\ link \in LinkRecords /\ link.ch \in 1..MaxChannels /\ channels[link.ch] \in ChannelRecords
         /\ channels[link.ch].st # "none" /\ link.ch # 0
<1>1. link \in LinkRecords BY Zenon DEF ConsoleInv, ConsoleTypeOK
<1>2. link.ch # 0 BY DEF ConsoleInv, LinkInv, NoLink
<1>3. link.ch \in 1..MaxChannels BY <1>1, <1>2, ConsoleConstants DEF LinkRecords
<1>4. QED BY Zenon, <1>1, <1>2, <1>3 DEF ConsoleInv, ConsoleTypeOK, LinkInv

\* The channels after a frame was sent up.
LEMMA SendUpFacts ==
  ASSUME ConsoleInv, link.st # "none", NEW m \in FramesOf(Tabs)
  PROVE  SendUp(m) \in [1..MaxChannels -> ChannelRecords] /\ \A n \in 1..MaxChannels : SendUp(m)[n].st = channels[n].st
<1> DEFINE n == link.ch
<1> DEFINE c == [channels[n] EXCEPT !.up = Append(channels[n].up, m)]
<1>0. n \in 1..MaxChannels /\ channels[n] \in ChannelRecords /\ channels \in [1..MaxChannels -> ChannelRecords]
  BY LinkUp DEF ConsoleInv, ConsoleTypeOK
<1>1. Append(channels[n].up, m) \in Seq(FramesOf(Tabs))
  <2>1. channels[n].up \in Seq(FramesOf(Tabs)) BY Zenon, <1>0 DEF ChannelRecords
  <2>2. QED BY <2>1
<1>2. c \in ChannelRecords /\ c.st = channels[n].st BY Zenon, <1>0, <1>1 DEF ChannelRecords
<1>3. SendUp(m) = channels \/ SendUp(m) = [channels EXCEPT ![n] = c] BY DEF SendUp
<1> HIDE DEF c, n
<1>4. QED BY Zenon, <1>0, <1>2, <1>3

\* RunLink has read one frame.
LEMMA TailFacts ==
  ASSUME ConsoleInv, link.st # "none", channels[link.ch].down # <<>>
  PROVE  /\ Head(channels[link.ch].down) \in FramesOf(Tabs)
         /\ Tail(channels[link.ch].down) \in Seq(FramesOf(Tabs))
<1>1. channels[link.ch].down \in Seq(FramesOf(Tabs)) BY Zenon, LinkUp DEF ChannelRecords
<1>2. QED BY <1>1

\* A link on its way out is as it was otherwise.
LEMMA LinkEndingKeeps ==
  ASSUME ConsoleInv, link.st = "up", link' = [link EXCEPT !.st = "ending"], 
         UNCHANGED <<visit, peer, channels, tickets, issued, tabs, locals>>
  PROVE  ConsoleInv'
<1>0. link \in LinkRecords /\ ConsoleTypeOK BY LinkUp DEF ConsoleInv
<1>1. /\ link' \in LinkRecords /\ link'.ch = link.ch /\ link'.st = "ending" /\ link'.active = link.active
      /\ link'.opened = link.opened /\ link'.last = link.last
  BY Zenon, <1>0 DEF LinkRecords
<1>2. LinkInv' BY Zenon, <1>1, LinkUp DEF ConsoleInv, LinkInv
<1>3. ASSUME NEW t \in Tabs PROVE LocalInv(t)'
  <2>1. InputsInv(t) => InputsInv(t)' BY Zenon, <1>1 DEF InputsInv
  <2>2. QED BY Zenon, <1>1, <2>1 DEF ConsoleInv, LocalInv
<1>4. QED BY Zenon, <1>0, <1>1, <1>2, <1>3, TerminalStep DEF ConsoleTypeOK

\* RunLink opens a terminal only on a channel that has opened none.
LEMMA OpenLocalKeeps ==
  ASSUME ConsoleInv, link.st = "up", channels[link.ch].down # <<>>, NEW t \in Tabs, OpenLocal(t),
         UNCHANGED <<visit, peer, tickets, issued, tabs>>
  PROVE  ConsoleInv'
<1> DEFINE n == link.ch
<1> DEFINE rest == Tail(channels[n].down)
<1>0. /\ ConsoleTypeOK /\ LinkInv /\ ~link.opened /\ link \in LinkRecords /\ channels[n] \in ChannelRecords
      /\ rest \in Seq(FramesOf(Tabs)) /\ channels[n].st # "none" /\ n # 0
  BY LinkUp, TailFacts DEF ConsoleInv, OpenLocal, MayOpen
<1>a. n \in 1..MaxChannels /\ n \in 0..MaxChannels BY LinkUp, ConsoleConstants
<1>1. 0 \notin Tabs /\ \A u \in Tabs : locals[u].conn # "open"
  <2>1. link.active = NoTab BY <1>0 DEF LinkInv
  <2>2. QED BY Zenon, <2>1, ConsoleConstants DEF ConsoleInv, LocalInv, NoTab
<1>2. CASE /\ link' = [link EXCEPT !.opened = TRUE, !.active = t, !.last = 0]
           /\ locals' = [locals EXCEPT ![t] = [NoLocal EXCEPT !.conn = "open", !.pump = TRUE, !.ch = n, !.inbox = <<Frame("open", t, 0)>>]]
           /\ channels' = [channels EXCEPT ![n].down = Tail(@)]
  <2> DEFINE c == [channels[n] EXCEPT !.down = rest]
  <2> DEFINE box == <<Frame("open", t, 0)>>
  <2> DEFINE y == [NoLocal EXCEPT !.conn = "open", !.pump = TRUE, !.ch = n, !.inbox = box]
  <2>1. channels' = [channels EXCEPT ![n] = c] /\ locals' = [locals EXCEPT ![t] = y] BY Zenon, <1>2
  <2> HIDE DEF rest
  <2>2. c \in ChannelRecords /\ c.st = channels[n].st BY Zenon, <1>0 DEF ChannelRecords
  <2> HIDE DEF c
  <2>3. box \in Seq(FramesOf(Tabs)) /\ box # <<>> /\ Len(box) = 1 /\ box[1].type = "open"
    <3>1. Frame("open", t, 0) \in FramesOf(Tabs) /\ Frame("open", t, 0).type = "open" BY DEF Frame, FramesOf, FrameTypes
    <3>2. QED BY <3>1
  <2> HIDE DEF box
  <2>4. /\ y \in LocalRecords /\ y.conn = "open" /\ y.ch = n /\ y.inbox = box /\ y.got = <<>>
    <3>1. <<>> \in Seq(FramesOf(Tabs)) OBVIOUS
    <3>2. n \in 0..MaxChannels BY <1>a
    <3> HIDE DEF n
    <3>3. QED BY Zenon, <2>3, <3>1, <3>2 DEF NoLocal, LocalRecords
  <2> HIDE DEF y, n
  <2>5. /\ link' \in LinkRecords /\ link'.ch = n /\ link'.st = "up" /\ link'.opened /\ link'.active = t /\ link'.last = 0
    BY Zenon, <1>0, <1>2 DEF LinkRecords, n
  <2>6. channels' \in [1..MaxChannels -> ChannelRecords] /\ \A m \in 1..MaxChannels : channels'[m].st = channels[m].st
    BY Zenon, <1>0, <1>a, <2>1, <2>2, ChannelEdit
  <2>7. locals' \in [Tabs -> LocalRecords] /\ locals'[t] = y /\ \A u \in Tabs : u # t => locals'[u] = locals[u]
    BY Zenon, <1>0, <2>1, <2>4, LocalEdit
  <2>8. LinkInv' BY Zenon, <1>0, <1>a, <2>5, <2>6 DEF LinkInv
  <2>9. \A u \in Tabs : locals[u].ch # n BY Zenon, <1>0 DEF LinkInv, n
  <2>10. LocalInv(t)'
    <3>1. InputsInv(t)'
      <4>1. locals'[t].inbox = box /\ locals'[t].got = <<>> /\ link'.last + 1 = Len(locals'[t].inbox)
        BY <2>3, <2>4, <2>5, <2>7
      <4>2. Len(locals'[t].inbox) = 1 BY <2>3, <4>1
      <4>3. 2..1 = {} OBVIOUS
      <4>4. QED BY Zenon, <2>3, <4>1, <4>2, <4>3 DEF InputsInv
    <3>2. \A u \in Tabs : u # t => locals'[u].ch # n BY Zenon, <2>7, <2>9
    <3>3. Len(locals'[t].got) = 0 BY <2>4, <2>7
    <3>4. QED BY <1>0, <1>a, <2>4, <2>5, <2>6, <2>7, <3>1, <3>2, <3>3 DEF LocalInv
  <2>11. ASSUME NEW u \in Tabs, u # t PROVE LocalInv(u)'
    <3>1. LocalInv(u) /\ locals'[u] = locals[u] /\ locals[u].conn # "open" BY Zenon, <1>1, <2>7, <2>11 DEF ConsoleInv
    <3>2. locals[u].ch # 0 => locals[u].ch \in 1..MaxChannels BY Zenon, <1>0, LocalChannel
    <3>3. \A v \in Tabs : v # u /\ locals[u].ch # 0 => locals[u].ch # locals'[v].ch
      BY Zenon, <2>4, <2>7, <2>9, <3>1 DEF LocalInv
    <3>4. QED BY Zenon, <2>6, <3>1, <3>2, <3>3 DEF LocalInv
  <2>12. QED BY Zenon, <2>5, <2>6, <2>7, <2>8, <2>10, <2>11, TerminalStep
<1>3. CASE /\ link' = [link EXCEPT !.opened = TRUE] /\ locals' = locals
           /\ channels' = [SendUp(Frame("closed", t, 0)) EXCEPT ![n].down = rest]
  <2> DEFINE sent == SendUp(Frame("closed", t, 0))
  <2> DEFINE c == [sent[n] EXCEPT !.down = rest]
  <2>1. sent \in [1..MaxChannels -> ChannelRecords] /\ \A m \in 1..MaxChannels : sent[m].st = channels[m].st
    <3>1. Frame("closed", t, 0) \in FramesOf(Tabs) BY Zenon DEF Frame, FramesOf, FrameTypes
    <3>2. QED BY Zenon, <3>1, SendUpFacts
  <2>2. channels' = [sent EXCEPT ![n] = c] BY Zenon, <1>3
  <2> HIDE DEF rest, sent, n
  <2>3. c \in ChannelRecords /\ c.st = sent[n].st
    <3>1. sent[n] \in ChannelRecords BY Zenon, <1>a, <2>1
    <3>2. QED BY Zenon, <1>0, <3>1 DEF ChannelRecords
  <2> HIDE DEF c
  <2>4. channels' \in [1..MaxChannels -> ChannelRecords] /\ \A m \in 1..MaxChannels : channels'[m].st = channels[m].st
    BY <1>a, <2>1, <2>2, <2>3
  <2>5. /\ link' \in LinkRecords /\ link'.ch = n /\ link'.st = link.st /\ link'.opened /\ link'.active = link.active
    BY Zenon, <1>0, <1>3 DEF LinkRecords, n
  <2>6. LinkInv' BY <1>0, <1>a, <2>4, <2>5 DEF LinkInv
  <2>7. ASSUME NEW u \in Tabs PROVE LocalInv(u)'
    <3>1. LocalInv(u) /\ locals'[u] = locals[u] /\ locals[u].conn # "open" BY <1>1, <1>3 DEF ConsoleInv
    <3>2. locals[u].ch # 0 => locals[u].ch \in 1..MaxChannels BY <1>0, LocalChannel
    <3>3. QED BY Zenon, <1>3, <2>4, <3>1, <3>2 DEF LocalInv
  <2>8. QED BY <1>0, <1>3, <2>4, <2>5, <2>6, <2>7, TerminalStep DEF ConsoleTypeOK
<1>4. QED BY Zenon, <1>2, <1>3 DEF OpenLocal

\* RunLink passes on the next input of the active terminal.
LEMMA PassInputKeeps ==
  ASSUME ConsoleInv, link.st = "up", channels[link.ch].down # <<>>, NEW m, m = Head(channels[link.ch].down), m.type = "input",
         PassInput(m), UNCHANGED <<visit, peer, tickets, issued, tabs>>
  PROVE  ConsoleInv'
<1> DEFINE n == link.ch
<1> DEFINE t == m.session
<1> DEFINE rest == Tail(channels[n].down)
<1>0. /\ ConsoleTypeOK /\ LinkInv /\ link \in LinkRecords /\ channels[n] \in ChannelRecords
      /\ rest \in Seq(FramesOf(Tabs)) /\ m \in FramesOf(Tabs)
  BY Zenon, LinkUp, TailFacts DEF ConsoleInv
<1>a. n \in 1..MaxChannels BY LinkUp
<1>1. /\ t \in Tabs /\ t = link.active /\ m.seq = link.last + 1 /\ locals[t].conn = "open" /\ locals[t] \in LocalRecords
      /\ link.last \in Nat /\ LocalInv(t) /\ m.seq \in Nat
  BY Zenon, <1>0 DEF PassInput, FramesOf, ConsoleTypeOK, LinkRecords, ConsoleInv
<1>2. m = Frame("input", t, link.last + 1)
  <2>1. m = [type |-> m.type, session |-> m.session, seq |-> m.seq] BY Zenon, <1>0 DEF FramesOf
  <2>2. QED BY Zenon, <1>1, <2>1 DEF Frame
<1> DEFINE c == [channels[n] EXCEPT !.down = rest]
<1> DEFINE box == Append(locals[t].inbox, m)
<1> DEFINE y == [locals[t] EXCEPT !.inbox = box]
<1>3. channels' = [channels EXCEPT ![n] = c] /\ locals' = [locals EXCEPT ![t] = y] /\ link' = [link EXCEPT !.last = m.seq]
  BY Zenon DEF PassInput
<1> HIDE DEF t, rest
<1>4. c \in ChannelRecords /\ c.st = channels[n].st BY Zenon, <1>0 DEF ChannelRecords
<1> HIDE DEF c
<1>5. /\ locals[t].inbox \in Seq(FramesOf(Tabs)) /\ box \in Seq(FramesOf(Tabs)) /\ Len(box) = Len(locals[t].inbox) + 1
      /\ box[Len(box)] = m /\ \A i \in 1..Len(locals[t].inbox) : box[i] = locals[t].inbox[i]
  <2>1. locals[t].inbox \in Seq(FramesOf(Tabs)) BY Zenon, <1>1 DEF LocalRecords
  <2>2. QED BY <1>0, <2>1
<1> HIDE DEF box
<1>6. y \in LocalRecords /\ y.conn = "open" /\ y.ch = locals[t].ch /\ y.inbox = box /\ y.got = locals[t].got
  BY Zenon, <1>1, <1>5 DEF LocalRecords
<1> HIDE DEF y
<1>7. /\ link' \in LinkRecords /\ link'.ch = n /\ link'.st = link.st /\ link'.opened = link.opened /\ link'.active = t
      /\ link'.last = link.last + 1
  BY <1>0, <1>1, <1>3 DEF LinkRecords
<1> HIDE DEF n
<1>8. channels' \in [1..MaxChannels -> ChannelRecords] /\ \A k \in 1..MaxChannels : channels'[k].st = channels[k].st
  BY Zenon, <1>0, <1>a, <1>3, <1>4, ChannelEdit
<1>9. locals' \in [Tabs -> LocalRecords] /\ locals'[t] = y /\ \A u \in Tabs : u # t => locals'[u] = locals[u]
  BY Zenon, <1>0, <1>1, <1>3, <1>6, LocalEdit
<1>b. \A u \in Tabs : locals'[u].ch = locals[u].ch /\ locals'[u].got = locals[u].got BY Zenon, <1>6, <1>9
<1>10. LinkInv'
  <2>1. n # 0 /\ link.ch = n /\ channels[n].st # "none" BY Zenon, LinkUp DEF n
  <2>2. channels'[n].st # "none" BY Zenon, <1>a, <1>8, <2>1
  <2>3. QED BY Zenon, <1>0, <1>1, <1>7, <1>b, <2>1, <2>2 DEF LinkInv
<1>11. InputsInv(t)'
  <2>1. Len(locals[t].inbox) \in Nat /\ Len(locals[t].got) \in Nat
    <3>1. locals[t].inbox \in Seq(FramesOf(Tabs)) /\ locals[t].got \in Seq(FramesOf(Tabs)) BY Zenon, <1>1 DEF LocalRecords
    <3>2. QED BY <3>1
  <2>a. Len(box) = Len(locals[t].inbox) + 1 /\ link'.last = link.last + 1 /\ link.last \in Nat BY Zenon, <1>1, <1>5, <1>7
  <2>2. InputsInv(t) BY Zenon, <1>1 DEF LocalInv
  <2>3. CASE /\ locals[t].inbox # <<>> /\ locals[t].inbox[1].type = "open" /\ locals[t].got = <<>>
             /\ link.last + 1 = Len(locals[t].inbox)
             /\ \A i \in 2..Len(locals[t].inbox) : locals[t].inbox[i] = Frame("input", t, i - 1)
    <3>0. link.last + 1 = Len(locals[t].inbox) BY Zenon, <2>3
    <3>a. link'.last + 1 = Len(box) /\ 1 \in 1..Len(locals[t].inbox) /\ Len(box) # 0 BY <2>1, <2>a, <3>0
    <3>1. box # <<>> /\ box[1].type = "open" /\ link'.last + 1 = Len(box)
      <4>1. box[1] = locals[t].inbox[1] BY Zenon, <1>5, <3>a
      <4>2. QED BY <2>3, <3>a, <4>1
    <3>2. ASSUME NEW i \in 2..Len(box) PROVE box[i] = Frame("input", t, i - 1)
      <4>1. CASE i = Len(box)
        <5>1. i - 1 = link.last + 1 BY <2>1, <2>a, <3>0, <4>1
        <5>2. QED BY Zenon, <1>2, <1>5, <4>1, <5>1
      <4>2. CASE i # Len(box)
        <5>1. i \in 2..Len(locals[t].inbox) /\ i \in 1..Len(locals[t].inbox) BY <1>5, <2>1, <4>2
        <5>2. QED BY Zenon, <1>5, <2>3, <5>1
      <4>3. QED BY <4>1, <4>2
    <3>3. QED BY Zenon, <1>6, <1>9, <2>3, <3>1, <3>2 DEF InputsInv
  <2>4. CASE /\ link.last = Len(locals[t].got) + Len(locals[t].inbox)
             /\ \A i \in 1..Len(locals[t].inbox) : locals[t].inbox[i] = Frame("input", t, Len(locals[t].got) + i)
    <3>0. link.last = Len(locals[t].got) + Len(locals[t].inbox) BY <2>4
    <3>a. PICK g \in Nat, b \in Nat, l \in Nat : g = Len(locals[t].got) /\ b = Len(locals[t].inbox) /\ l = link.last
      BY Zenon, <2>1, <2>a
    <3>b. Len(box) = b + 1 /\ link'.last = l + 1 /\ l = g + b BY <2>a, <3>0, <3>a
    <3>c. l + 1 = g + (b + 1) BY <3>b
    <3>1. link'.last = Len(locals[t].got) + Len(box) /\ Len(locals[t].got) + Len(box) = link.last + 1
      BY Zenon, <3>a, <3>b, <3>c
    <3>2. ASSUME NEW i \in 1..Len(box) PROVE box[i] = Frame("input", t, Len(locals[t].got) + i)
      <4>1. CASE i = Len(box)
        <5>1. Len(locals[t].got) + i = link.last + 1 BY <3>1, <4>1
        <5>2. QED BY Zenon, <1>2, <1>5, <4>1, <5>1
      <4>2. CASE i # Len(box)
        <5>1. i \in 1..Len(locals[t].inbox) BY <1>5, <2>1, <4>2
        <5>2. QED BY Zenon, <1>5, <2>4, <5>1
      <4>3. QED BY <4>1, <4>2
    <3>3. QED BY Zenon, <1>6, <1>9, <3>1, <3>2 DEF InputsInv
  <2>5. QED BY Zenon, <2>2, <2>3, <2>4 DEF InputsInv
<1>12. ASSUME NEW u \in Tabs PROVE LocalInv(u)'
  <2>1. LocalInv(u) BY DEF ConsoleInv
  <2>2. locals'[u].conn = "open" => link'.active = u /\ InputsInv(u)' BY Zenon, <1>1, <1>7, <1>9, <1>11, <2>1 DEF LocalInv
  <2>3. locals[u].ch # 0 => locals[u].ch \in 1..MaxChannels BY <1>0, LocalChannel
  <2>4. QED BY Zenon, <1>8, <1>b, <2>1, <2>2, <2>3 DEF LocalInv
<1>13. QED BY Zenon, <1>7, <1>8, <1>9, <1>10, <1>12, TerminalStep

\* RunLink, one turn of its loop.
LEMMA LinkReadsKeeps == ConsoleInv /\ LinkReads => ConsoleInv'
<1> SUFFICES ASSUME ConsoleInv, LinkReads PROVE ConsoleInv' OBVIOUS
<1> DEFINE m == Head(channels[link.ch].down)
<1>1. link.st = "up" /\ channels[link.ch].down # <<>> /\ UNCHANGED <<visit, peer, tickets, issued, tabs>> BY Zenon DEF LinkReads
<1>2. m \in FramesOf(Tabs) /\ m.session \in Tabs BY <1>1, TailFacts DEF FramesOf
<1>3. \/ OpenLocal(m.session) \/ (m.type = "input" /\ PassInput(m))
      \/ link' = [link EXCEPT !.st = "ending"] /\ UNCHANGED <<locals, channels>>
  BY Zenon DEF LinkReads
<1>4. CASE OpenLocal(m.session) BY Zenon, <1>1, <1>2, <1>4, OpenLocalKeeps
<1>5. CASE m.type = "input" /\ PassInput(m) BY <1>1, <1>5, PassInputKeeps
<1>6. CASE link' = [link EXCEPT !.st = "ending"] /\ UNCHANGED <<locals, channels>> BY <1>1, <1>6, LinkEndingKeeps
<1>7. QED BY <1>3, <1>4, <1>5, <1>6

\* RunLink, deferred: no terminal outlives the link it was opened by.
LEMMA LinkReturnsKeeps == ConsoleInv /\ LinkReturns => ConsoleInv'
<1> SUFFICES ASSUME ConsoleInv, LinkReturns PROVE ConsoleInv' OBVIOUS
<1> DEFINE n == link.ch
<1> DEFINE c == [channels[n] EXCEPT !.there = FALSE, !.down = <<>>]
<1>0. /\ ConsoleTypeOK /\ link \in LinkRecords /\ channels[n] \in ChannelRecords /\ n \in 1..MaxChannels
      /\ UNCHANGED <<visit, peer, tickets, issued, tabs>> /\ link' = NoLink
      /\ channels' = [channels EXCEPT ![n] = c]
      /\ locals' = [t \in Tabs |-> [StoppedLocals[t] EXCEPT !.pump = FALSE, !.outbox = <<>>]]
  BY Zenon, LinkUp DEF ConsoleInv, LinkReturns
<1>1. <<>> \in Seq(FramesOf(Tabs)) OBVIOUS
<1>2. c \in ChannelRecords /\ c.st = channels[n].st
  <2>1. channels[n] \in ChannelRecords BY Zenon, <1>0
  <2> HIDE DEF n
  <2>2. QED BY <1>1, <2>1 DEF ChannelRecords
<1> HIDE DEF c, n
<1>3. channels' \in [1..MaxChannels -> ChannelRecords] /\ \A k \in 1..MaxChannels : channels'[k].st = channels[k].st
  BY Zenon, <1>0, <1>2, ChannelEdit
<1>4. /\ StoppedLocals \in [Tabs -> LocalRecords]
      /\ \A t \in Tabs : StoppedLocals[t].conn # "open" /\ StoppedLocals[t].ch = locals[t].ch /\ StoppedLocals[t].got = locals[t].got
  <2>1. locals \in [Tabs -> LocalRecords] /\ \A t \in Tabs : locals[t].conn = "open" => link.active = t
    BY Zenon, <1>0 DEF ConsoleTypeOK, ConsoleInv, LocalInv
  <2>2. CASE link.active = NoTab
    <3>1. \A t \in Tabs : locals[t].conn # "open" BY Zenon, <2>1, <2>2, ConsoleConstants DEF NoTab
    <3>2. QED BY <2>1, <2>2, <3>1 DEF StoppedLocals
  <2>3. CASE link.active # NoTab
    <3> DEFINE a == link.active
    <3> DEFINE y == [locals[a] EXCEPT !.conn = "closed"]
    <3>1. a \in Tabs BY Zenon, <1>0, <2>3 DEF LinkRecords
    <3>2. StoppedLocals = [locals EXCEPT ![a] = y] BY <2>3 DEF StoppedLocals
    <3>3. \A t \in Tabs : t # a => locals[t].conn # "open" BY Zenon, <2>1
    <3> HIDE DEF a
    <3>4. y \in LocalRecords /\ y.conn = "closed" /\ y.ch = locals[a].ch /\ y.got = locals[a].got
      <4>1. locals[a] \in LocalRecords BY Zenon, <2>1, <3>1
      <4>2. QED BY Zenon, <4>1 DEF LocalRecords
    <3> HIDE DEF y
    <3>5. QED BY <2>1, <3>1, <3>2, <3>3, <3>4
  <2>4. QED BY <2>2, <2>3
<1>5. ASSUME NEW t \in Tabs
      PROVE  /\ locals'[t] \in LocalRecords /\ locals'[t].conn # "open" /\ locals'[t].ch = locals[t].ch
             /\ locals'[t].got = locals[t].got
  <2>1. locals'[t] = [StoppedLocals[t] EXCEPT !.pump = FALSE, !.outbox = <<>>] BY Zenon, <1>0
  <2>2. StoppedLocals[t] \in LocalRecords BY Zenon, <1>4
  <2>3. QED BY Zenon, <1>1, <1>4, <2>1, <2>2 DEF LocalRecords
<1>6. locals' \in [Tabs -> LocalRecords]
  <2>1. locals' = [t \in Tabs |-> locals'[t]] BY Zenon, <1>0
  <2>2. QED BY <1>5, <2>1
<1>7. link' \in LinkRecords /\ LinkInv'
  <2>1. NoLink \in LinkRecords BY ConsoleConstants DEF NoLink, LinkRecords
  <2>2. link'.ch = 0 /\ link'.active = NoTab BY Zenon, <1>0 DEF NoLink
  <2>3. QED BY Zenon, <1>0, <2>1, <2>2 DEF LinkInv
<1>8. ASSUME NEW t \in Tabs PROVE LocalInv(t)'
  <2>1. LocalInv(t) BY DEF ConsoleInv
  <2>2. locals[t].ch # 0 => locals[t].ch \in 1..MaxChannels
    <3>1. locals[t].ch \in 0..MaxChannels BY Zenon, <1>0 DEF ConsoleTypeOK, LocalRecords
    <3>2. QED BY <3>1, ConsoleConstants
  <2>3. QED BY Zenon, <1>3, <1>5, <2>1, <2>2 DEF LocalInv
<1>9. QED BY Zenon, <1>0, <1>3, <1>6, <1>7, <1>8, TerminalStep

\* RunLink, the terminal's goroutine: only an ended terminal is let go.
LEMMA PumpKeeps == \A t \in Tabs : ConsoleInv /\ Pump(t) => ConsoleInv'
<1> SUFFICES ASSUME NEW t \in Tabs, ConsoleInv, Pump(t) PROVE ConsoleInv' OBVIOUS
<1>0. ConsoleTypeOK /\ LinkInv /\ link.st = "up" /\ locals[t] \in LocalRecords /\ link \in LinkRecords
  BY Zenon DEF ConsoleInv, ConsoleTypeOK, Pump
<1>1. UNCHANGED <<visit, peer, tickets, issued, tabs>> BY DEF Pump
<1>2. \E m \in FramesOf(Tabs), y \in LocalRecords :
         /\ channels' = SendUp(m) /\ locals' = [locals EXCEPT ![t] = y]
         /\ y.conn = locals[t].conn /\ y.ch = locals[t].ch /\ y.inbox = locals[t].inbox /\ y.got = locals[t].got
  <2>1. CASE /\ locals[t].outbox # <<>>
             /\ channels' = SendUp(Head(locals[t].outbox)) /\ locals' = [locals EXCEPT ![t].outbox = Tail(@)]
    <3> DEFINE y == [locals[t] EXCEPT !.outbox = Tail(locals[t].outbox)]
    <3>1. locals[t].outbox \in Seq(FramesOf(Tabs)) BY Zenon, <1>0 DEF LocalRecords
    <3>2. Head(locals[t].outbox) \in FramesOf(Tabs) /\ Tail(locals[t].outbox) \in Seq(FramesOf(Tabs)) BY <2>1, <3>1
    <3>3. y \in LocalRecords /\ y.conn = locals[t].conn /\ y.ch = locals[t].ch /\ y.inbox = locals[t].inbox /\ y.got = locals[t].got
      BY Zenon, <1>0, <3>2 DEF LocalRecords
    <3>4. locals' = [locals EXCEPT ![t] = y] BY <2>1
    <3> HIDE DEF y
    <3>5. QED BY Zenon, <2>1, <3>2, <3>3, <3>4
  <2>2. CASE channels' = SendUp(Frame("closed", t, 0)) /\ locals' = [locals EXCEPT ![t].pump = FALSE]
    <3> DEFINE y == [locals[t] EXCEPT !.pump = FALSE]
    <3>1. Frame("closed", t, 0) \in FramesOf(Tabs) BY DEF Frame, FramesOf, FrameTypes
    <3>2. y \in LocalRecords /\ y.conn = locals[t].conn /\ y.ch = locals[t].ch /\ y.inbox = locals[t].inbox /\ y.got = locals[t].got
      BY Zenon, <1>0 DEF LocalRecords
    <3>3. locals' = [locals EXCEPT ![t] = y] BY <2>2
    <3> HIDE DEF y
    <3>4. QED BY Zenon, <2>2, <3>1, <3>2, <3>3
  <2>3. QED BY Zenon, <2>1, <2>2 DEF Pump
<1>3. PICK m \in FramesOf(Tabs), y \in LocalRecords :
         /\ channels' = SendUp(m) /\ locals' = [locals EXCEPT ![t] = y]
         /\ y.conn = locals[t].conn /\ y.ch = locals[t].ch /\ y.inbox = locals[t].inbox /\ y.got = locals[t].got
  BY Zenon, <1>2
<1>4. channels' \in [1..MaxChannels -> ChannelRecords] /\ \A k \in 1..MaxChannels : channels'[k].st = channels[k].st
  BY <1>0, <1>3, SendUpFacts
<1>5. locals' \in [Tabs -> LocalRecords] /\ locals'[t] = y /\ \A u \in Tabs : u # t => locals'[u] = locals[u]
  BY Zenon, <1>0, <1>3, LocalEdit
<1>6. \A u \in Tabs : /\ locals'[u].conn = locals[u].conn /\ locals'[u].ch = locals[u].ch
                      /\ locals'[u].inbox = locals[u].inbox /\ locals'[u].got = locals[u].got
  BY Zenon, <1>3, <1>5
<1>7. /\ link' \in LinkRecords /\ link'.ch = link.ch /\ link'.st = link.st /\ link'.opened = link.opened /\ link'.last = link.last
      /\ link'.active = link.active \/ (link'.active = NoTab /\ link.active = t /\ locals[t].conn = "closed")
  <2>1. CASE link' = link BY Zenon, <1>0, <2>1
  <2>2. CASE locals[t].conn = "closed" /\ link' = [link EXCEPT !.active = IF @ = t THEN NoTab ELSE @]
    BY Zenon, <1>0, <2>2 DEF LinkRecords
  <2>3. QED BY Zenon, <2>1, <2>2 DEF Pump
<1>8. LinkInv'
  <2>1. link.ch # 0 /\ link.ch \in 1..MaxChannels BY <1>0, LinkUp
  <2>2. QED BY <1>0, <1>4, <1>6, <1>7, <2>1 DEF LinkInv
<1>9. ASSUME NEW u \in Tabs PROVE LocalInv(u)'
  <2>1. LocalInv(u) BY Zenon DEF ConsoleInv
  <2>2. InputsInv(u) => InputsInv(u)' BY Zenon, <1>6, <1>7 DEF InputsInv
  <2>3. locals'[u].conn = "open" => link'.active = u BY Zenon, <1>6, <1>7, <2>1 DEF LocalInv
  <2>4. locals[u].ch # 0 => locals[u].ch \in 1..MaxChannels
    <3>1. locals[u].ch \in 0..MaxChannels BY <1>0 DEF ConsoleTypeOK, LocalRecords
    <3>2. QED BY <3>1, ConsoleConstants
  <2>5. QED BY <1>4, <1>6, <2>1, <2>2, <2>3, <2>4 DEF LocalInv
<1>10. QED BY <1>1, <1>4, <1>5, <1>7, <1>8, <1>9, TerminalStep

\* ServeLocal: what is left of the invariant to show when one terminal moves
\* and neither opens nor changes its channel.
LEMMA ShellStep ==
  ASSUME ConsoleInv, NEW t \in Tabs, NEW y \in LocalRecords, locals' = [locals EXCEPT ![t] = y],
         UNCHANGED <<visit, peer, channels, tickets, issued, tabs, link>>,
         y.ch = locals[t].ch, y.conn = "open" => locals[t].conn = "open" /\ InputsInv(t)',
         \A i \in 1..Len(y.got) : y.got[i] = Frame("input", t, i)
  PROVE  ConsoleInv'
<1>0. ConsoleTypeOK /\ LinkInv BY Zenon DEF ConsoleInv
<1>1. locals' \in [Tabs -> LocalRecords] /\ locals'[t] = y /\ \A u \in Tabs : u # t => locals'[u] = locals[u]
  BY Zenon, <1>0, LocalEdit
<1>2. \A u \in Tabs : locals'[u].ch = locals[u].ch BY Zenon, <1>1
<1>3. LinkInv' BY <1>0, <1>2 DEF LinkInv
<1>4. ASSUME NEW u \in Tabs PROVE LocalInv(u)'
  <2>1. LocalInv(u) BY Zenon DEF ConsoleInv
  <2>2. CASE u = t BY Zenon, <1>1, <1>2, <2>1, <2>2 DEF LocalInv
  <2>3. CASE u # t
    <3>1. locals'[u] = locals[u] BY <1>1, <2>3
    <3>2. InputsInv(u) => InputsInv(u)' BY Zenon, <3>1 DEF InputsInv
    <3>3. QED BY Zenon, <1>2, <2>1, <3>1, <3>2 DEF LocalInv
  <2>4. QED BY Zenon, <2>2, <2>3
<1>5. QED BY <1>0, <1>1, <1>3, <1>4, TerminalStep DEF ConsoleTypeOK

\* ServeLocal takes the frames of its connection in order.
LEMMA ShellReadsKeeps == \A t \in Tabs : ConsoleInv /\ ShellReads(t) => ConsoleInv'
<1> SUFFICES ASSUME NEW t \in Tabs, ConsoleInv, ShellReads(t) PROVE ConsoleInv' OBVIOUS
<1> DEFINE box == locals[t].inbox
<1> DEFINE m == Head(box)
<1> DEFINE got == locals[t].got
<1>0. /\ locals[t] \in LocalRecords /\ LocalInv(t) /\ locals[t].conn = "open" /\ box # <<>>
      /\ UNCHANGED <<visit, peer, channels, tickets, issued, tabs, link>>
  BY Zenon DEF ConsoleInv, ConsoleTypeOK, ShellReads
<1>1. box \in Seq(FramesOf(Tabs)) /\ locals[t].outbox \in Seq(FramesOf(Tabs)) /\ got \in Seq(FramesOf(Tabs))
  BY Zenon, <1>0 DEF LocalRecords
<1>2. /\ m = box[1] /\ m \in FramesOf(Tabs) /\ Tail(box) \in Seq(FramesOf(Tabs)) /\ Len(box) \in Nat /\ Len(box) # 0
      /\ Len(Tail(box)) = Len(box) - 1 /\ \A i \in 1..Len(box) - 1 : Tail(box)[i] = box[i + 1]
  BY <1>0, <1>1
<1>a. Len(box) \in Nat /\ Len(box) # 0 /\ Len(Tail(box)) = Len(box) - 1 /\ Len(got) \in Nat BY <1>1, <1>2
<1>3. InputsInv(t) /\ locals \in [Tabs -> LocalRecords] BY Zenon, <1>0 DEF LocalInv, ConsoleInv, ConsoleTypeOK
<1> DEFINE read == [locals[t] EXCEPT !.inbox = Tail(box)]
<1>4. read \in LocalRecords /\ read.conn = "open" /\ read.ch = locals[t].ch /\ read.inbox = Tail(box) /\ read.got = got
  BY Zenon, <1>0, <1>2 DEF LocalRecords
<1>5. CASE m.type = "open"
  <2> DEFINE out == Append(locals[t].outbox, Frame("ready", t, 0))
  <2> DEFINE y == [read EXCEPT !.shell = "running", !.outbox = out]
  <2>1. locals' = [locals EXCEPT ![t] = y] BY Zenon, <1>5 DEF ShellReads
  <2>2. out \in Seq(FramesOf(Tabs))
    <3>1. Frame("ready", t, 0) \in FramesOf(Tabs) BY Zenon DEF Frame, FramesOf, FrameTypes
    <3>2. QED BY <1>1, <3>1
  <2> HIDE DEF read, out
  <2>3. y \in LocalRecords /\ y.conn = "open" /\ y.ch = locals[t].ch /\ y.inbox = Tail(box) /\ y.got = got
    BY Zenon, <1>4, <2>2 DEF LocalRecords
  <2> HIDE DEF y
  <2>4. /\ got = <<>> /\ link.last + 1 = Len(box)
        /\ \A i \in 2..Len(box) : box[i] = Frame("input", t, i - 1)
    <3>1. ~(\A i \in 1..Len(box) : box[i] = Frame("input", t, Len(got) + i))
      <4>1. box[1].type = "open" /\ 1 \in 1..Len(box) BY <1>2, <1>5, <1>a
      <4>2. Frame("input", t, Len(got) + 1).type = "input" BY Zenon DEF Frame
      <4>3. QED BY Zenon, <4>1, <4>2
    <3>2. QED BY Zenon, <1>3, <3>1 DEF InputsInv
  <2>5. locals'[t] = y BY Zenon, <1>3, <2>1
  <2>6. InputsInv(t)'
    <3>1. Len(got) = 0 /\ link \in LinkRecords /\ link.last \in Nat BY Zenon, <2>4 DEF ConsoleInv, ConsoleTypeOK, LinkRecords
    <3>2. link.last + 1 = Len(box) BY Zenon, <2>4
    <3>3. link.last = Len(got) + Len(Tail(box)) BY <1>a, <3>1, <3>2
    <3>4. ASSUME NEW i \in 1..Len(Tail(box)) PROVE Tail(box)[i] = Frame("input", t, Len(got) + i)
      <4>1. i \in 1..Len(box) - 1 /\ i + 1 \in 2..Len(box) /\ (i + 1) - 1 = i /\ Len(got) + i = i BY <1>a, <3>1
      <4>2. Tail(box)[i] = box[i + 1] /\ box[i + 1] = Frame("input", t, (i + 1) - 1) BY Zenon, <1>2, <2>4, <4>1
      <4>3. QED BY Zenon, <4>1, <4>2
    <3> HIDE DEF box, got
    <3>5. link' = link /\ locals'[t].inbox = Tail(box) /\ locals'[t].got = got BY <1>0, <2>3, <2>5
    <3>6. QED BY Zenon, <3>3, <3>4, <3>5 DEF InputsInv
  <2>7. \A i \in 1..Len(y.got) : y.got[i] = Frame("input", t, i) BY <1>0, <2>3 DEF LocalInv
  <2> HIDE DEF box, m, got
  <2>8. QED BY Zenon, <1>0, <2>1, <2>3, <2>6, <2>7, ShellStep
<1>6. CASE m.type # "open"
  <2> DEFINE more == Append(got, m)
  <2> DEFINE y == [read EXCEPT !.got = more]
  <2>1. locals' = [locals EXCEPT ![t] = y] BY <1>6 DEF ShellReads
  <2>2. /\ more \in Seq(FramesOf(Tabs)) /\ Len(more) = Len(got) + 1 /\ more[Len(got) + 1] = m
        /\ \A i \in 1..Len(got) : more[i] = got[i]
    BY <1>1, <1>2
  <2> HIDE DEF read, more
  <2>3. y \in LocalRecords /\ y.conn = "open" /\ y.ch = locals[t].ch /\ y.inbox = Tail(box) /\ y.got = more
    BY <1>4, <2>2 DEF LocalRecords
  <2> HIDE DEF y
  <2>4. /\ link.last = Len(got) + Len(box)
        /\ \A i \in 1..Len(box) : box[i] = Frame("input", t, Len(got) + i)
    <3>1. box[1].type # "open" BY Zenon, <1>2, <1>6
    <3>2. QED BY Zenon, <1>3, <3>1 DEF InputsInv
  <2>5. locals'[t] = y BY <1>3, <2>1
  <2>6. Len(more) = Len(got) + 1 /\ link.last = Len(got) + Len(box) BY Zenon, <2>2, <2>4
  <2>7. InputsInv(t)'
    <3>a. PICK g \in Nat, b \in Nat : g = Len(got) /\ b = Len(box) BY Zenon, <1>a
    <3>b. Len(more) = g + 1 /\ Len(Tail(box)) = b - 1 /\ link.last = g + b /\ b # 0 BY Zenon, <1>a, <2>6, <3>a
    <3>c. g + b = (g + 1) + (b - 1) OBVIOUS
    <3>1. link.last = Len(more) + Len(Tail(box)) BY Zenon, <3>b, <3>c
    <3>2. ASSUME NEW i \in 1..Len(Tail(box)) PROVE Tail(box)[i] = Frame("input", t, Len(more) + i)
      <4>0. i \in Nat /\ i \in 1..Len(box) - 1 /\ i + 1 \in 1..Len(box) BY <1>a
      <4>a. g + (i + 1) = (g + 1) + i BY <4>0
      <4>1. i \in 1..Len(box) - 1 /\ i + 1 \in 1..Len(box) /\ Len(got) + (i + 1) = Len(more) + i
        BY Zenon, <3>a, <3>b, <4>0, <4>a
      <4>2. Tail(box)[i] = box[i + 1] /\ box[i + 1] = Frame("input", t, Len(got) + (i + 1)) BY Zenon, <1>2, <2>4, <4>1
      <4>3. QED BY Zenon, <4>1, <4>2
    <3> HIDE DEF box, got
    <3>3. link' = link /\ locals'[t].inbox = Tail(box) /\ locals'[t].got = more BY Zenon, <1>0, <2>3, <2>5
    <3>4. QED BY <3>1, <3>2, <3>3 DEF InputsInv
  <2>8. ASSUME NEW i \in 1..Len(more) PROVE more[i] = Frame("input", t, i)
    <3>1. CASE i \in 1..Len(got)
      <4>1. more[i] = got[i] BY Zenon, <2>2, <3>1
      <4>2. got[i] = Frame("input", t, i) BY Zenon, <1>0, <3>1 DEF LocalInv
      <4>3. QED BY <4>1, <4>2
    <3>2. CASE i = Len(got) + 1
      <4>1. 1 \in 1..Len(box) BY <1>a
      <4>2. m = Frame("input", t, Len(got) + 1) BY <1>2, <2>4, <4>1
      <4>3. QED BY Zenon, <2>2, <3>2, <4>2
    <3>3. QED BY <1>a, <2>6, <3>1, <3>2
  <2> HIDE DEF box, m, got
  <2>9. QED BY <1>0, <2>1, <2>3, <2>7, <2>8, ShellStep
<1>7. QED BY Zenon, <1>5, <1>6

\* ServeLocal: output, and every end.
LEMMA ShellMovesKeep == \A t \in Tabs : ConsoleInv /\ (ShellWrites(t) \/ ShellEnds(t)) => ConsoleInv'
<1> SUFFICES ASSUME NEW t \in Tabs, ConsoleInv, ShellWrites(t) \/ ShellEnds(t) PROVE ConsoleInv' OBVIOUS
<1>0. /\ locals[t] \in LocalRecords /\ LocalInv(t) /\ locals \in [Tabs -> LocalRecords]
      /\ UNCHANGED <<visit, peer, channels, tickets, issued, tabs, link>>
  BY Zenon DEF ConsoleInv, ConsoleTypeOK, ShellWrites, ShellEnds
<1>1. CASE ShellWrites(t)
  <2> DEFINE out == Append(locals[t].outbox, Frame("output", t, 0))
  <2> DEFINE k == locals[t].outputs + 1
  <2> DEFINE y == [locals[t] EXCEPT !.outputs = k, !.outbox = out]
  <2>1. locals' = [locals EXCEPT ![t] = y] BY <1>1 DEF ShellWrites
  <2>2. out \in Seq(FramesOf(Tabs))
    <3>1. Frame("output", t, 0) \in FramesOf(Tabs) BY Zenon DEF Frame, FramesOf, FrameTypes
    <3>2. locals[t].outbox \in Seq(FramesOf(Tabs)) BY <1>0 DEF LocalRecords
    <3>3. QED BY <3>1, <3>2
  <2>3. k \in Nat BY <1>0 DEF LocalRecords
  <2> HIDE DEF out, k
  <2>4. y \in LocalRecords /\ y.conn = locals[t].conn /\ y.ch = locals[t].ch /\ y.inbox = locals[t].inbox /\ y.got = locals[t].got
    BY Zenon, <1>0, <2>2, <2>3 DEF LocalRecords
  <2> HIDE DEF y
  <2>5. locals'[t] = y BY <1>0, <2>1
  <2>6. InputsInv(t) => InputsInv(t)' BY Zenon, <1>0, <2>4, <2>5 DEF InputsInv
  <2>7. QED BY Zenon, <1>0, <2>1, <2>4, <2>6, ShellStep DEF LocalInv
<1>2. CASE ShellEnds(t)
  <2> DEFINE y == [locals[t] EXCEPT !.shell = "over", !.conn = "closed", !.inbox = <<>>]
  <2>1. locals' = [locals EXCEPT ![t] = y] BY Zenon, <1>2 DEF ShellEnds
  <2>2. <<>> \in Seq(FramesOf(Tabs)) OBVIOUS
  <2>3. y \in LocalRecords /\ y.conn = "closed" /\ y.ch = locals[t].ch /\ y.got = locals[t].got BY Zenon, <1>0, <2>2 DEF LocalRecords
  <2> HIDE DEF y
  <2>4. QED BY Zenon, <1>0, <2>1, <2>3, ShellStep DEF LocalInv
<1>3. QED BY <1>1, <1>2

\* For every number of tabs, channels, tickets and frames, and whatever breaks.
THEOREM ConsoleInvariant == ConsoleSpec => []ConsoleInv
<1>1. ConsoleInit => ConsoleInv BY ConsoleInitInv
<1>2. ConsoleInv /\ [ConsoleNext]_consoleVars => ConsoleInv'
  <2> SUFFICES ASSUME ConsoleInv, [ConsoleNext]_consoleVars PROVE ConsoleInv' OBVIOUS
  <2>1. CASE TicketExpires \/ CloseAll \/ Withdrawn \/ UNCHANGED consoleVars BY <2>1, OwnerQuiet, QuietKeeps
  <2>2. CASE Dial \/ Ticket \/ LinkReads \/ LinkReturns
    BY Zenon, <2>2, DialKeeps, TicketKeeps, LinkReadsKeeps, LinkReturnsKeeps
  <2>3. CASE LinkLost BY Zenon, <2>3, LinkEndingKeeps DEF LinkLost
  <2>4. ASSUME NEW n \in 1..MaxChannels, Hello(n) \/ Pulse(n) \/ ReadUp(n) \/ PeerReturns(n) \/ PeerRemoved(n)
        PROVE  ConsoleInv'
    BY Zenon, <2>4, ChannelQuiet, ReadUpQuiet, QuietKeeps
  <2>5. ASSUME NEW t \in Tabs, Audited(t) \/ SendOpen(t) \/ Type(t) \/ TakeOut(t) \/ Leave(t) \/ Unwind(t)
        PROVE  ConsoleInv'
    BY <2>5, TabMovesQuiet, SendOpenQuiet, TypeQuiet, TakeOutQuiet, UnwindQuiet, QuietKeeps
  <2>6. ASSUME NEW t \in Tabs, Admit(t) \/ Pump(t) \/ ShellReads(t) \/ ShellWrites(t) \/ ShellEnds(t)
        PROVE  ConsoleInv'
    BY <2>6, AdmitKeeps, PumpKeeps, ShellReadsKeeps, ShellMovesKeep
  <2>7. QED BY <2>1, <2>2, <2>3, <2>4, <2>5, <2>6 DEF ConsoleNext
<1>3. QED BY <1>1, <1>2, PTL DEF ConsoleSpec

\* A tab shows what its own terminal wrote and that terminal gets what was
\* typed in the tab, once and in order; one terminal at a time, one for a
\* channel, one for a ticket (handleAgentConsoleChannel, agentConsoleBrowser,
\* RunLink, ServeLocal).
THEOREM ConsoleTerminalsApart == ConsoleSpec => []TerminalsApart
<1>1. ConsoleInv => TerminalsApart
  <2> SUFFICES ASSUME ConsoleInv PROVE TerminalsApart OBVIOUS
  <2>1. OwnTerminal
    <3> SUFFICES ASSUME NEW t \in Tabs
                 PROVE  /\ \A i \in DOMAIN tabs[t].shown : tabs[t].shown[i] = t
                        /\ \A i \in DOMAIN locals[t].got : locals[t].got[i] = Frame("input", t, i)
      BY Zenon DEF OwnTerminal
    <3>1. tabs[t].shown \in Seq({t}) BY Zenon DEF ConsoleInv, ConsoleTypeOK, TabRecords
    <3>2. locals[t].got \in Seq(FramesOf(Tabs)) BY Zenon DEF ConsoleInv, ConsoleTypeOK, LocalRecords
    <3>3. DOMAIN locals[t].got = 1..Len(locals[t].got) BY <3>2
    <3>4. \A i \in DOMAIN tabs[t].shown : tabs[t].shown[i] = t BY <3>1
    <3>5. QED BY <3>3, <3>4 DEF ConsoleInv, LocalInv
  <2>2. OneTerminal BY DEF OneTerminal, ConsoleInv, LocalInv, TicketInv
  <2>3. QED BY Zenon, <2>1, <2>2 DEF TerminalsApart
<1>2. QED BY <1>1, ConsoleInvariant, PTL
=============================================================================
