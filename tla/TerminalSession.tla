---------------------------- MODULE TerminalSession ----------------------------
(***************************************************************************)
(* One person's terminal in one place: the shell that outlives the browser *)
(* connections that come and go (server/terminal_sessions.go), and those   *)
(* connections (serveTerminal of server/terminal_handler.go).              *)
(*                                                                         *)
(* What a shell prints is counted: its n-th chunk is n.  The scrollback is *)
(* what it printed last.  A send on a closed channel panics in a goroutine *)
(* of its own, which takes the process with it.                            *)
(***************************************************************************)
EXTENDS Naturals, Sequences, FiniteSets

CONSTANTS
    Viewers,      \* browser connections
    Buffer,       \* chunks a viewer's channel holds (64)
    MaxScroll,    \* chunks the scrollback holds
    MaxPrinted,   \* bound: chunks a shell prints
    MaxShells,    \* bound: shells ever started
    MaxVisits     \* bound: times a connection is made

ASSUME TerminalConstants ==
    /\ Buffer \in Nat \ {0} /\ MaxScroll \in Nat \ {0}
    /\ MaxPrinted \in Nat /\ MaxShells \in Nat /\ MaxVisits \in Nat

VARIABLES
    live,      \* terminals.live: the session, 0 for none
    shell,     \* the sessions, in the order they were started
    pump,      \* per session: the chunk on its way, and the channel it goes to
    chan,      \* the channels, in the order they were made
    view,      \* [Viewers -> the connection being served]
    visits,
    panicked

termVars == <<live, shell, pump, chan, view, visits, panicked>>

\* stale: an hour has gone by since lastSeen was written.
NewShell == [printed |-> 0, closed |-> FALSE, attached |-> 0, stale |-> FALSE]
AtRest   == [chunk |-> 0, out |-> 0]
NoView   == [pc |-> "away", s |-> 0, ch |-> 0, got |-> <<>>]

TermInit ==
    /\ live = 0 /\ shell = <<>> /\ pump = <<>> /\ chan = <<>>
    /\ view = [v \in Viewers |-> NoView] /\ visits = 0 /\ panicked = FALSE

Up            == ~panicked
ViewAt(v, pc) == Up /\ view[v].pc = pc
Running       == live # 0 /\ ~shell[live].closed
Sess(v)       == shell[view[v].s]
Scrollback(s) == LET n == shell[s].printed
                     k == IF n < MaxScroll THEN n ELSE MaxScroll
                 IN [i \in 1..k |-> n - k + i]
\* A close of the channel, if there is one: its reader finds it closed behind what it holds.
Shut(ch)      == IF ch = 0 THEN chan ELSE [chan EXCEPT ![ch].open = FALSE]

------------------------------------------------------------------------------
(* A connection: serveTerminal.                                            *)

\* attach: the session there is, seen now, or a new shell.
Attach(v) ==
    /\ ViewAt(v, "away") /\ visits < MaxVisits /\ visits' = visits + 1
    /\ \/ /\ Running
          /\ shell' = [shell EXCEPT ![live].stale = FALSE]
          /\ view' = [view EXCEPT ![v] = [NoView EXCEPT !.pc = "attached", !.s = live]]
          /\ UNCHANGED <<live, pump>>
       \/ /\ ~Running
          /\ Len(shell) < MaxShells
          /\ shell' = Append(shell, NewShell) /\ pump' = Append(pump, AtRest)
          /\ live' = Len(shell) + 1
          /\ view' = [view EXCEPT ![v] = [NoView EXCEPT !.pc = "attached", !.s = Len(shell) + 1]]
    /\ UNCHANGED <<chan, panicked>>

\* take: whoever was reading is let go; this connection gets a channel of its own
\* and the scrollback.  It is not asked whether the session is closed.
TakeOver(v) ==
    /\ ViewAt(v, "attached")
    /\ LET s == view[v].s
       IN /\ chan' = Append(Shut(shell[s].attached), [of |-> s, buf |-> <<>>, open |-> TRUE, lost |-> FALSE])
          /\ shell' = [shell EXCEPT ![s].attached = Len(chan) + 1, ![s].stale = FALSE]
          /\ view' = [view EXCEPT ![v].pc = "reading", ![v].ch = Len(chan) + 1,
                                  ![v].got = Scrollback(s)]
    /\ UNCHANGED <<live, pump, visits, panicked>>

\* The goroutine that carries the channel to the browser.
Carry(v) ==
    /\ ViewAt(v, "reading")
    /\ LET ch == chan[view[v].ch]
       IN \/ /\ ch.buf # <<>>
             /\ view' = [view EXCEPT ![v].got = Append(@, Head(ch.buf))]
             /\ chan' = [chan EXCEPT ![view[v].ch].buf = Tail(@)]
          \/ /\ ch.buf = <<>> /\ ~ch.open
             /\ view' = [view EXCEPT ![v].pc = "quiet"]
             /\ UNCHANGED chan
    /\ UNCHANGED <<live, shell, pump, visits, panicked>>

\* The browser goes away: release, of this connection's own channel only.
Leave(v) ==
    /\ Up /\ view[v].pc \in {"reading", "quiet"}
    /\ LET s == view[v].s
       IN IF shell[s].attached = view[v].ch
          THEN /\ chan' = Shut(view[v].ch)
               /\ shell' = [shell EXCEPT ![s].attached = 0, ![s].stale = FALSE]
          ELSE /\ shell' = [shell EXCEPT ![s].stale = FALSE]
               /\ UNCHANGED chan
    /\ view' = [view EXCEPT ![v] = NoView]
    /\ UNCHANGED <<live, pump, visits, panicked>>

------------------------------------------------------------------------------
(* A session: its shell, its pump, its end.                                *)

\* close, once: the channel is closed and forgotten, the shell is closed.
Closed(s) ==
    IF shell[s].closed THEN UNCHANGED <<shell, chan>>
    ELSE /\ shell' = [shell EXCEPT ![s].closed = TRUE, ![s].attached = 0]
         /\ chan' = Shut(shell[s].attached)

\* pump: what was read joins the scrollback, and whoever is attached is noted, under
\* the lock.
PumpRead(s) ==
    /\ Up /\ pump[s] = AtRest /\ ~shell[s].closed /\ shell[s].printed < MaxPrinted
    /\ shell' = [shell EXCEPT ![s].printed = @ + 1]
    /\ pump' = [pump EXCEPT ![s] = [chunk |-> shell[s].printed + 1, out |-> shell[s].attached]]
    /\ UNCHANGED <<live, chan, view, visits, panicked>>

\* Mutant of PumpSend: to whoever is attached by now.
PumpSendNow(s) ==
    /\ Up /\ pump[s] # AtRest
    /\ LET out == shell[s].attached
       IN chan' = IF out = 0 THEN chan
                  ELSE IF Len(chan[out].buf) < Buffer
                       THEN [chan EXCEPT ![out].buf = Append(@, pump[s].chunk)]
                       ELSE [chan EXCEPT ![out].lost = TRUE]
    /\ pump' = [pump EXCEPT ![s] = AtRest]
    /\ UNCHANGED <<live, shell, view, visits, panicked>>

\* The send, outside the lock: it never waits.
PumpSend(s) ==
    /\ Up /\ pump[s] # AtRest
    /\ LET out == pump[s].out
       IN \/ /\ out = 0 /\ UNCHANGED <<chan, panicked>>
          \/ /\ out # 0 /\ chan[out].open
             /\ chan' = IF Len(chan[out].buf) < Buffer
                        THEN [chan EXCEPT ![out].buf = Append(@, pump[s].chunk)]
                        ELSE [chan EXCEPT ![out].lost = TRUE]
             /\ UNCHANGED panicked
          \/ out # 0 /\ ~chan[out].open /\ panicked' = TRUE /\ UNCHANGED chan
    /\ pump' = [pump EXCEPT ![s] = AtRest]
    /\ UNCHANGED <<live, shell, view, visits>>

\* Somebody types exit: the next read fails, and the pump closes the session.
ShellEnds(s) ==
    /\ Up /\ pump[s] = AtRest /\ ~shell[s].closed
    /\ Closed(s)
    /\ UNCHANGED <<live, pump, view, visits, panicked>>

\* An hour goes by.  A connection that has the session and has not taken it yet will
\* have done so long before.
HourPasses(s) ==
    /\ Up /\ ~shell[s].stale /\ ~shell[s].closed
    /\ \A v \in Viewers : ~(view[v].pc = "attached" /\ view[v].s = s)
    /\ shell' = [shell EXCEPT ![s].stale = TRUE]
    /\ UNCHANGED <<live, pump, chan, view, visits, panicked>>

\* Mutant of SweepTerminals: it is forgotten, and runs on.
SweepForgets ==
    /\ Up /\ live # 0
    /\ (shell[live].attached = 0 /\ shell[live].stale) \/ shell[live].closed
    /\ live' = 0
    /\ UNCHANGED <<shell, chan, pump, view, visits, panicked>>

\* sweep: what nobody has come back to, and what has ended by itself.
SweepTerminals ==
    /\ Up /\ live # 0
    /\ (shell[live].attached = 0 /\ shell[live].stale) \/ shell[live].closed
    /\ live' = 0 /\ Closed(live)
    /\ UNCHANGED <<pump, view, visits, panicked>>

\* closeAll, when the server shuts down.
CloseTerminals ==
    /\ Up /\ live # 0
    /\ live' = 0 /\ Closed(live)
    /\ UNCHANGED <<pump, view, visits, panicked>>

TermNext ==
    \/ \E v \in Viewers : Attach(v) \/ TakeOver(v) \/ Carry(v) \/ Leave(v)
    \/ \E s \in DOMAIN shell : PumpRead(s) \/ PumpSend(s) \/ ShellEnds(s) \/ HourPasses(s)
    \/ SweepTerminals \/ CloseTerminals

TermSpec     == TermInit /\ [][TermNext]_termVars
\* The sweeper's ticker ticks, and hours pass.
TermFairness == WF_termVars(SweepTerminals)
                /\ \A s \in 1..MaxShells : WF_termVars(s \in DOMAIN shell /\ HourPasses(s))
TermFairSpec == TermSpec /\ TermFairness

------------------------------------------------------------------------------
(* Properties.                                                             *)

TermTypeOK ==
    /\ live \in 0..Len(shell) /\ Len(pump) = Len(shell)
    /\ \A s \in DOMAIN shell : shell[s].attached \in 0..Len(chan) /\ shell[s].printed <= MaxPrinted
    /\ \A c \in DOMAIN chan : Len(chan[c].buf) <= Buffer
    /\ \A v \in Viewers : view[v].s \in 0..Len(shell) /\ view[v].ch \in 0..Len(chan)

OnItsWay(s, ch) == pump[s] # AtRest /\ pump[s].out = ch

\* What a connection is shown is what the shell printed, each chunk once and in order,
\* from the scrollback on; nothing is left out unless its channel was full, and the
\* one that is attached is missing nothing (take, pump).
ShownOnceAndInOrder ==
    \A v \in Viewers : view[v].pc = "reading" =>
       LET ch    == view[v].ch
           shown == view[v].got \o chan[ch].buf
       IN /\ \A i \in 1..Len(shown) - 1 :
                shown[i] < shown[i + 1] /\ (~chan[ch].lost => shown[i + 1] = shown[i] + 1)
          /\ Sess(v).attached = ch /\ ~chan[ch].lost /\ ~OnItsWay(view[v].s, ch) =>
                IF shown = <<>> THEN Sess(v).printed = 0 ELSE shown[Len(shown)] = Sess(v).printed

\* While the shell runs, the connection that came last is the one being written to,
\* whoever leaves (take, release).
LastToComeReads ==
    \A v \in Viewers :
       /\ ViewAt(v, "reading") /\ ~Sess(v).closed
       /\ \A c \in DOMAIN chan : chan[c].of = view[v].s => c <= view[v].ch
       => Sess(v).attached = view[v].ch /\ chan[view[v].ch].open

\* A shell is not ended under somebody who has just come back to it, except by the
\* shutdown or by the shell itself (attach and sweep, which both write or read
\* lastSeen under the registry's lock).
NotSweptUnderAVisitor ==
    [][\A s \in DOMAIN shell :
         live = s /\ live' = 0 /\ shell'[s].closed /\ ~shell[s].closed /\ shell[s].stale =>
           \A v \in Viewers : view[v].s = s => view[v].pc # "attached"]_termVars

\* A shell and whoever comes back to it are kept together (terminal_sessions.go).
ShellIsFollowed == [](ShownOnceAndInOrder /\ LastToComeReads) /\ NotSweptUnderAVisitor

Alone(s) == /\ s \in DOMAIN shell
            /\ ~shell[s].closed /\ \A v \in Viewers : view[v].s # s

\* A shell nobody is connected to is come back to or ends (release, sweep).
LeftAloneItEnds == \A s \in 1..MaxShells : []<>(panicked \/ ~Alone(s))

------------------------------------------------------------------------------
(* What the code says of itself and does not keep.                         *)

\* "release detaches this connection without ending the shell" (terminal_sessions.go):
\* nor anything else, which a send to its closed channel would.
PumpNeverSendsToClosed == ~panicked
==============================================================================
