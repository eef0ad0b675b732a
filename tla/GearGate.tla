------------------------------- MODULE GearGate -------------------------------
(***************************************************************************)
(* The proxy a gear with the network reaches it through                    *)
(* (gearnet/gate.go, gearnet/intercept.go, gearnet/store.go): a run's      *)
(* ticket, the connections made with it, and the log of them.              *)
(*                                                                         *)
(* What a gear asks for is one of four kinds of place: one it was granted, *)
(* one it was not, one it was granted that turns out to be this machine,   *)
(* and nonsense.  A run whose secrets are stand-ins is not tunnelled:      *)
(* the gate reads its requests one by one.                                 *)
(***************************************************************************)
EXTENDS Naturals, Sequences, FiniteSets

CONSTANTS
    Tickets,       \* runs of gears that have the network
    Conns,         \* connections to the gate at once
    MaxDials,      \* bound: rows of the log
    MaxBreaks      \* bound: failed statements and crashes

ASSUME ProxyConstants == MaxDials \in Nat /\ MaxBreaks \in Nat

VARIABLES
    ticket,     \* [Tickets -> its state in Gate.tickets, and whether it has stand-ins]
    conn,       \* [Conns -> the request being served]
    netlog,     \* gear_connections, in the order of its rows
    reached,    \* rows whose socket to the far end was opened
    unsettled,  \* rows whose settling failed
    listens,    \* whether the process is up
    breaks

proxyVars == <<ticket, conn, netlog, reached, unsettled, listens, breaks>>

Places4  == {"granted", "other", "local", "nonsense"}
Terminal == {"closed", "failed", "interrupted", "refused_destination", "refused_local",
             "refused_no_grant", "refused_invalid"}
NoTicket == [state |-> "none", refs |-> FALSE]
NoConn   == [pc |-> "idle", by |-> "nobody", place |-> "granted", how |-> "tunnel", row |-> 0,
             outcome |-> "none"]

ProxyInit ==
    /\ ticket = [k \in Tickets |-> NoTicket] /\ conn = [c \in Conns |-> NoConn]
    /\ netlog = <<>> /\ reached = {} /\ unsettled = {} /\ listens = TRUE /\ breaks = 0

Break        == breaks < MaxBreaks /\ breaks' = breaks + 1
ConnAt(c, pc) == listens /\ conn[c].pc = pc
Conn(c, k)    == conn' = [conn EXCEPT ![c] = k]
Ended(c)      == ticket[conn[c].by].state # "open"
Settles(c, o) == Conn(c, [conn[c] EXCEPT !.pc = "settling", !.outcome = o])

------------------------------------------------------------------------------
(* The run's side: Open before the process starts, Close when it has ended. *)

TicketBecomes(k, s) == listens /\ ticket' = [ticket EXCEPT ![k].state = s]
                       /\ UNCHANGED <<conn, netlog, reached, unsettled, listens, breaks>>
OpenTicket(k) ==
    /\ listens /\ ticket[k].state = "none"
    /\ \E refs \in BOOLEAN : ticket' = [ticket EXCEPT ![k] = [state |-> "open", refs |-> refs]]
    /\ UNCHANGED <<conn, netlog, reached, unsettled, listens, breaks>>
\* The context is cancelled; the credential stays known for a while.
CloseTicket(k)  == ticket[k].state = "open" /\ TicketBecomes(k, "closed")
ForgetTicket(k) == ticket[k].state = "closed" /\ TicketBecomes(k, "forgotten")

------------------------------------------------------------------------------
(* The gate's.                                                             *)

OnlyConn == UNCHANGED <<ticket, reached, unsettled, listens>>

\* ServeHTTP with a credential the gate knows; any other is turned away unrecorded.
Knock(c) ==
    /\ ConnAt(c, "idle")
    /\ \E k \in Tickets, place \in Places4, how \in {"tunnel", "request"} :
          /\ ticket[k].state \in {"open", "closed"}
          /\ Conn(c, [NoConn EXCEPT !.pc = "checking", !.by = k, !.place = place, !.how = how])
    /\ UNCHANGED <<netlog, breaks>> /\ OnlyConn

\* begin's checks, in their order.
Refusal(c) == CASE conn[c].place = "nonsense" -> "refused_invalid"
                [] conn[c].place # "nonsense" /\ Ended(c) -> "refused_no_grant"
                [] conn[c].place = "other" /\ ~Ended(c) -> "refused_destination"
                [] OTHER -> "none"
Check(c) ==
    /\ ConnAt(c, "checking")
    /\ Conn(c, [conn[c] EXCEPT !.pc = "recording", !.outcome = Refusal(c)])
    /\ UNCHANGED <<netlog, breaks>> /\ OnlyConn

\* The row, whatever becomes of the connection: no row, no connection.
RecordConn(c) ==
    /\ ConnAt(c, "recording") /\ Len(netlog) < MaxDials
    /\ \/ LET o == conn[c].outcome
          IN /\ netlog' = Append(netlog, IF o = "none" THEN "open" ELSE o)
             /\ Conn(c, IF o = "none" THEN [conn[c] EXCEPT !.pc = "dialling", !.row = Len(netlog) + 1]
                        ELSE NoConn)
             /\ UNCHANGED breaks
       \/ Break /\ Conn(c, NoConn) /\ UNCHANGED netlog
    /\ OnlyConn

\* Mutant of Dial: wherever it may lead.
DialAnywhere(c) ==
    /\ ConnAt(c, "dialling") /\ ~(conn[c].how = "tunnel" /\ ticket[conn[c].by].refs)
    /\ \/ /\ ~Ended(c)
          /\ reached' = reached \cup {conn[c].row}
          /\ Conn(c, [conn[c] EXCEPT !.pc = "carrying"])
       \/ Settles(c, "failed") /\ UNCHANGED reached
    /\ UNCHANGED <<ticket, netlog, unsettled, listens, breaks>>

\* connect and forward: the far end is reached, or it is this machine, or it is not
\* there, or the run has ended.
Dial(c) ==
    /\ ConnAt(c, "dialling") /\ ~(conn[c].how = "tunnel" /\ ticket[conn[c].by].refs)
    /\ \/ /\ ~Ended(c) /\ conn[c].place = "granted"
          /\ reached' = reached \cup {conn[c].row}
          /\ Conn(c, [conn[c] EXCEPT !.pc = "carrying"])
       \/ /\ conn[c].place = "local" /\ Settles(c, "refused_local") /\ UNCHANGED reached
       \/ /\ conn[c].place = "granted" \/ Ended(c)
          /\ Settles(c, "failed") /\ UNCHANGED reached
    /\ UNCHANGED <<ticket, netlog, unsettled, listens, breaks>>

\* intercept: the client's own TLS ends here, or the run has ended or the client
\* will not have it.
Handshake(c) ==
    /\ ConnAt(c, "dialling") /\ conn[c].how = "tunnel" /\ ticket[conn[c].by].refs
    /\ \/ ~Ended(c) /\ Conn(c, [conn[c] EXCEPT !.pc = "relaying", !.how = "read"])
       \/ Settles(c, "failed")
    /\ UNCHANGED <<netlog, breaks>> /\ OnlyConn

\* relay: a request is sent on, and the connection kept or not; or it cannot be, and
\* the gear is told so inside.
Relay(c) ==
    /\ ConnAt(c, "relaying")
    /\ \/ /\ ~Ended(c) /\ conn[c].place = "granted"
          /\ reached' = reached \cup {conn[c].row}
          /\ Conn(c, conn[c]) \/ \E o \in {"closed", "failed"} : Settles(c, o)
       \/ Settles(c, "closed") /\ UNCHANGED reached
    /\ UNCHANGED <<ticket, netlog, unsettled, listens, breaks>>

\* The client of a connection that is read sends nothing more.
ClientLeaves(c) ==
    /\ ConnAt(c, "relaying")
    /\ \E o \in {"closed", "failed"} : Settles(c, o)
    /\ UNCHANGED <<netlog, breaks>> /\ OnlyConn

\* Either end is finished with it.
Finish(c) ==
    /\ ConnAt(c, "carrying")
    /\ \E o \in {"closed", "failed"} : Settles(c, o)
    /\ UNCHANGED <<netlog, breaks>> /\ OnlyConn

\* Mutant of Cut: only plain requests watch the run.
CutRequests(c) ==
    /\ ConnAt(c, "carrying") /\ Ended(c) /\ conn[c].how = "request"
    /\ Settles(c, "failed")
    /\ UNCHANGED <<netlog, breaks>> /\ OnlyConn

\* The run has ended: splice closes both ends, forward's context is cancelled.
Cut(c) ==
    /\ ConnAt(c, "carrying") /\ Ended(c)
    /\ Settles(c, IF conn[c].how = "tunnel" THEN "closed" ELSE "failed")
    /\ UNCHANGED <<netlog, breaks>> /\ OnlyConn

\* settle, with the run's cancellation stripped: a row that is open gets its
\* outcome.  A failure is logged and nothing more.
SettleConn(c) ==
    /\ ConnAt(c, "settling")
    /\ \/ /\ netlog' = IF netlog[conn[c].row] = "open"
                       THEN [netlog EXCEPT ![conn[c].row] = conn[c].outcome] ELSE netlog
          /\ UNCHANGED <<unsettled, breaks>>
       \/ Break /\ unsettled' = unsettled \cup {conn[c].row} /\ UNCHANGED netlog
    /\ Conn(c, NoConn)
    /\ UNCHANGED <<ticket, reached, listens>>

------------------------------------------------------------------------------
(* The process.                                                            *)

StopGate ==
    /\ listens /\ Break
    /\ listens' = FALSE
    /\ ticket' = [k \in Tickets |-> IF ticket[k].state = "none" THEN NoTicket
                                    ELSE [state |-> "forgotten", refs |-> FALSE]]
    /\ conn' = [c \in Conns |-> NoConn]
    /\ UNCHANGED <<netlog, reached, unsettled>>

\* Reconcile, before anything is served.
StartGate ==
    /\ ~listens
    /\ listens' = TRUE
    /\ netlog' = [n \in DOMAIN netlog |-> IF netlog[n] = "open" THEN "interrupted" ELSE netlog[n]]
    /\ UNCHANGED <<ticket, conn, reached, unsettled, breaks>>

\* What the gate does without being asked by the client.
GateStep(c) == Check(c) \/ RecordConn(c) \/ Dial(c) \/ Handshake(c) \/ Cut(c) \/ SettleConn(c)
ProxyNext ==
    \/ \E k \in Tickets : OpenTicket(k) \/ CloseTicket(k) \/ ForgetTicket(k)
    \/ \E c \in Conns : Knock(c) \/ Relay(c) \/ ClientLeaves(c) \/ Finish(c) \/ GateStep(c)
    \/ StopGate \/ StartGate

ProxySpec     == ProxyInit /\ [][ProxyNext]_proxyVars
ProxyFairness == \A c \in Conns : WF_proxyVars(GateStep(c))
ProxyFairSpec == ProxySpec /\ ProxyFairness

------------------------------------------------------------------------------
(* Properties.                                                             *)

ProxyTypeOK ==
    /\ \A k \in Tickets : ticket[k].state \in {"none", "open", "closed", "forgotten"}
    /\ Len(netlog) <= MaxDials
    /\ \A n \in DOMAIN netlog : netlog[n] \in Terminal \cup {"open"}
    /\ reached \cup unsettled \subseteq DOMAIN netlog

\* The log does not claim what did not happen: a connection that was refused was
\* not made, and a row is open only while somebody is at it, unless its settling
\* failed (begin, settle, Reconcile).  That a row which says it was closed was made
\* is ClosedWasReached, below, which the code does not keep.
ConnLogIsTrue ==
    \A n \in DOMAIN netlog :
       /\ netlog[n] \in {"refused_destination", "refused_local", "refused_no_grant", "refused_invalid"}
             => n \notin reached
       /\ netlog[n] = "open" /\ listens => n \in unsettled \/ \E c \in Conns : conn[c].row = n

\* A connection goes where the operator granted and nowhere else, never to this
\* machine, and is begun only by a run that has not ended (begin, routableAddrs).
ReachesOnlyTheGranted ==
    [][\A c \in Conns : reached' \ reached = {conn[c].row} /\ conn[c].row # 0 =>
         conn[c].place = "granted" /\ ~Ended(c) /\ netlog[conn[c].row] = "open"]_proxyVars

\* Every connection goes where it may, and the log says where it went (gate.go begin,
\* connect, settle).
ConnectsAsLogged == []ConnLogIsTrue /\ ReachesOnlyTheGranted

\* When a run has ended its tunnels and requests end too, whatever their ends do
\* (Ticket.Close, splice, forward).
RunEndCuts == \A c \in Conns : []<>(conn[c].pc = "carrying" => ~Ended(c))

------------------------------------------------------------------------------
(* What the code says of itself and does not keep.                         *)

\* "Connections still open are cut" (gate.go, Ticket.Close): those that are read wait
\* for their client.
RunEndCutsAll ==
    \A k \in Tickets : ticket[k].state = "closed" ~>
       \A c \in Conns : conn[c].by = k => conn[c].pc \notin {"carrying", "relaying"}

\* "refused_local is this server protecting itself" (0021_gear_network.sql): a row
\* that is closed was carried to its end.
ClosedWasReached == \A n \in DOMAIN netlog : netlog[n] = "closed" => n \in reached
==============================================================================
