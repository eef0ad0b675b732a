-------------------------------- MODULE McpWire --------------------------------
(***************************************************************************)
(* One connection to a Model Context Protocol server                       *)
(* (mcpclient/mcpclient.go, stdio.go, remote.go, paramheaders.go,          *)
(* resources.go), opened to probe what the server offers                   *)
(* (server/mcp_handlers.go) or by the pool for agents' calls               *)
(* (engine/mcp.go), over a child's pipes, over one POST per message, or    *)
(* over POSTs and a standing stream.                                       *)
(*                                                                         *)
(* The server is external: it may answer late, twice, what nobody asked,   *)
(* or not at all, and send notifications and requests of its own.  A pipe  *)
(* holds PipeRoom messages.  A connection is closed when no call is under  *)
(* way on it, which is the pool's care and the probe's.                    *)
(***************************************************************************)
EXTENDS Naturals, Sequences, SequencesExt, FiniteSets

CONSTANTS
    Callers,    \* goroutines that call on the connection once it is open
    Kinds,      \* transports: subset of {"stdio", "stream", "legacy"}
    PipeRoom,   \* bound: messages a pipe holds
    MaxIds,     \* bound: requests sent
    MaxPosts,   \* bound: POSTs made, of each kind
    MaxLines    \* bound: messages the server sends of its own

ASSUME WireConstants ==
    /\ "dial" \notin Callers /\ Kinds \subseteq {"stdio", "stream", "legacy"}
    /\ {PipeRoom, MaxIds, MaxLines} \subseteq Nat /\ MaxPosts \in [Kinds -> Nat]

VARIABLES
    wire,     \* the connection
    pending,  \* ids somebody waits for
    slot,     \* [ids -> the replies in its channel, each the id it answers, 0 an error]
    caller,   \* [Callers and "dial" -> where it is, its id, what it was told]
    posts,    \* POSTs, each with the goroutine that makes it
    toChild, fromServer,  \* what is in the pipe, in the pipe back or on the stream
    reader,   \* the goroutine that reads them
    seen,     \* ids the server has been asked
    lines

wireVars == <<wire, pending, slot, caller, posts, toChild, fromServer, reader, seen, lines>>

Ids    == 1..MaxIds
Stdio  == wire.kind = "stdio"
Idle   == [pc |-> "idle", id |-> 0, told |-> <<>>]
NewPost(what, id) == [pc |-> "queued", what |-> what, id |-> id, carried |-> FALSE, mirrored |-> FALSE,
                      told |-> <<>>]

\* stage: "streaming" is a standing stream that has not named its endpoint yet.
WireInit(kinds, uses) ==
    /\ \E kind \in kinds, use \in uses :
          wire = [kind |-> kind, use |-> use, up |-> TRUE, closed |-> FALSE, ended |-> FALSE, dead |-> FALSE,
                  session |-> FALSE, given |-> FALSE, listed |-> FALSE, nextId |-> 0,
                  stage |-> IF kind = "legacy" THEN "streaming" ELSE "dialing"]
    /\ pending = {} /\ slot = [i \in Ids |-> <<>>] /\ caller = [w \in Callers \cup {"dial"} |-> Idle]
    /\ posts = <<>> /\ toChild = <<>> /\ fromServer = <<>> /\ seen = {} /\ lines = 0
    /\ reader = [pc |-> "reading", id |-> 0, told |-> <<>>]

Stage(s) == wire' = [wire EXCEPT !.stage = s]
WaitsAt(w, pc) == caller[w].pc = pc
Onward(w, pc) == caller' = [caller EXCEPT ![w].pc = pc]
Rest(w, told) == caller' = [caller EXCEPT ![w] = [Idle EXCEPT !.pc = "over", !.id = caller[w].id, !.told = told]]

\* backend.send: into the child's pipe, when there is room; or a goroutine that posts.
CanSend == IF Stdio THEN wire.up /\ Len(toChild) < PipeRoom ELSE ~wire.ended /\ Len(posts) < MaxPosts[wire.kind]
Send(what, id) ==
    /\ CanSend
    /\ IF Stdio THEN toChild' = Append(toChild, <<what, id>>) /\ UNCHANGED posts
       ELSE posts' = Append(posts, NewPost(what, id)) /\ UNCHANGED toChild
CannotSend == (IF Stdio THEN ~wire.up ELSE wire.ended) /\ UNCHANGED <<toChild, posts>>

------------------------------------------------------------------------------
(* Dial and the calls.                                                     *)

\* openLegacyStream: the first event names where to post, or the stream ends before.
NameEndpoint ==
    /\ wire.stage = "streaming" /\ wire.up
    /\ Stage("dialing") \/ wire' = [wire EXCEPT !.stage = "failed", !.up = FALSE, !.ended = TRUE]
    /\ UNCHANGED <<pending, slot, caller, posts, toChild, fromServer, reader, seen, lines>>

\* Whose turn it is to call: the handshake, then the users of an open connection.
MayCall(w) == IF w = "dial" THEN wire.stage = "dialing"
              ELSE wire.stage = "ready" /\ (wire.use = "probe" => \A v \in Callers : caller[v].pc = "idle")

\* Call: a closed connection refuses; else the next id, and a channel for its answer.
BeginCall(w) ==
    /\ WaitsAt(w, "idle") /\ MayCall(w) /\ ~wire.closed /\ wire.nextId < MaxIds
    /\ wire' = [wire EXCEPT !.nextId = @ + 1] /\ pending' = pending \cup {wire.nextId + 1}
    /\ caller' = [caller EXCEPT ![w] = [Idle EXCEPT !.pc = "writing", !.id = wire.nextId + 1]]
    /\ UNCHANGED <<slot, posts, toChild, fromServer, reader, seen, lines>>

What(w) == IF w = "dial" THEN "initialize" ELSE IF wire.use = "probe" THEN "list" ELSE "call"

\* The write has no time limit on a pipe.
WriteCall(w) ==
    /\ WaitsAt(w, "writing")
    /\ \/ Send(What(w), caller[w].id) /\ Onward(w, "waiting") /\ UNCHANGED pending
       \/ CannotSend /\ pending' = pending \ {caller[w].id} /\ Rest(w, <<0>>)
    /\ UNCHANGED <<wire, slot, fromServer, reader, seen, lines>>

\* Tools remembers which parameters to mirror, on this connection.
HearReply(w) ==
    /\ WaitsAt(w, "waiting") /\ slot[caller[w].id] # <<>>
    /\ slot' = [slot EXCEPT ![caller[w].id] = Tail(@)]
    /\ LET told == slot[caller[w].id][1]
       IN IF w = "dial" /\ told # 0 THEN Onward(w, "greeting") ELSE Rest(w, <<told>>)
    /\ wire' = [wire EXCEPT !.listed = @ \/ What(w) = "list"]
    /\ UNCHANGED <<pending, posts, toChild, fromServer, reader, seen, lines>>

HearDeath(w) ==
    /\ WaitsAt(w, "waiting") /\ wire.dead /\ Rest(w, <<0>>)
    /\ UNCHANGED <<wire, pending, slot, posts, toChild, fromServer, reader, seen, lines>>

\* The timeout, or the caller gone: the id is forgotten, and the server told.
GiveUp(w) ==
    /\ WaitsAt(w, "waiting") /\ pending' = pending \ {caller[w].id} /\ Onward(w, "cancelling")
    /\ UNCHANGED <<wire, slot, posts, toChild, fromServer, reader, seen, lines>>

SendCancelled(w) ==
    /\ WaitsAt(w, "cancelling") /\ (Send("cancelled", caller[w].id) \/ CannotSend)
    /\ Rest(w, <<0>>)
    /\ UNCHANGED <<wire, pending, slot, fromServer, reader, seen, lines>>

\* handshake's last word, which nothing answers.
Greet ==
    /\ WaitsAt("dial", "greeting")
    /\ \/ Send("initialized", 0) /\ Stage("ready") /\ Rest("dial", <<1>>)
       \/ CannotSend /\ UNCHANGED wire /\ Rest("dial", <<0>>)
    /\ UNCHANGED <<pending, slot, fromServer, reader, seen, lines>>

------------------------------------------------------------------------------
(* Conn.handle, on the reader's goroutine or on a POST's.                  *)

\* Mutant of Claim: a channel stays in the table after its answer.
ClaimKept(id) == UNCHANGED pending

\* deliver: the id leaves the table with the channel, so that one goroutine has it.
Claim(id) == pending' = pending \ {id}

\* What a line does to the goroutine that handles it.
Handled(g, line) ==
    CASE line[1] = "answer" /\ line[2] \in pending -> [g EXCEPT !.pc = "handing", !.told = <<line[2]>>]
      [] line[1] = "request" -> [g EXCEPT !.pc = "refusing"]
      [] OTHER -> g

ClaimFor(line) == IF line[1] = "answer" THEN Claim(line[2]) ELSE UNCHANGED pending

\* Into the channel, which holds one.
Fits(id) == slot[id] = <<>>
Put(id, told) == slot' = [slot EXCEPT ![id] = Append(@, told)]

ReadLine ==
    /\ reader.pc = "reading" /\ fromServer # <<>> /\ wire.stage # "streaming"
    /\ fromServer' = Tail(fromServer) /\ reader' = Handled(reader, fromServer[1]) /\ ClaimFor(fromServer[1])
    /\ UNCHANGED <<wire, slot, caller, posts, toChild, seen, lines>>

ReaderHands ==
    /\ reader.pc = "handing" /\ Fits(reader.told[1]) /\ Put(reader.told[1], reader.told[1])
    /\ reader' = [reader EXCEPT !.pc = "reading", !.told = <<>>]
    /\ UNCHANGED <<wire, pending, caller, posts, toChild, fromServer, seen, lines>>

\* refuse, from the only reader.
ReaderRefuses ==
    /\ reader.pc = "refusing" /\ (Send("refusal", 0) \/ CannotSend)
    /\ reader' = [reader EXCEPT !.pc = "reading"]
    /\ UNCHANGED <<wire, pending, slot, caller, fromServer, seen, lines>>

\* The pipe or the standing stream ended, and what was on it is read: die.
ReaderEnds ==
    /\ reader.pc = "reading" /\ fromServer = <<>> /\ wire.kind # "stream" /\ ~wire.up
    /\ reader' = [reader EXCEPT !.pc = "over"] /\ wire' = [wire EXCEPT !.dead = TRUE] /\ pending' = {}
    /\ UNCHANGED <<slot, caller, posts, toChild, fromServer, seen, lines>>

------------------------------------------------------------------------------
(* post.                                                                   *)

SetPost(i, p) == posts' = [posts EXCEPT ![i] = p]

\* CallTool: the parameters this connection knows its tool annotates.
Mirrored(post) == post.what = "call" /\ wire.listed

\* The headers are those of the moment: the session, and a call's mirrored parameters.
BuildPost(i) ==
    /\ posts[i].pc = "queued"
    /\ SetPost(i, [posts[i] EXCEPT !.pc = "sent", !.carried = wire.session,
                                   !.mirrored = Mirrored(posts[i])])
    /\ seen' = seen \cup ({posts[i].id} \ {0})
    /\ UNCHANGED <<wire, pending, slot, caller, toChild, fromServer, reader, lines>>

\* The request fails, a status refuses it, or its stream ends badly: who waits on its id is
\* told, unless it has been.  A refusal has the id of the server's request, which the server
\* chose and which may be one of ours.
PostFails(i) ==
    /\ posts[i].pc \in {"sent", "body"}
    /\ \E id \in IF posts[i].what = "refusal" THEN Ids \cup {0} ELSE {posts[i].id} :
       LET asked == posts[i].what \in {"initialize", "list", "call", "refusal"} /\ id \in pending
       IN /\ SetPost(i, [posts[i] EXCEPT !.pc = IF asked THEN "handing" ELSE "over",
                                         !.told = IF asked THEN <<id, 0>> ELSE <<>>])
          /\ IF asked THEN Claim(id) ELSE UNCHANGED pending
    /\ UNCHANGED <<wire, slot, caller, toChild, fromServer, reader, seen, lines>>

\* Mutant of HearHeaders: the session of an answer is left where it came.
HearStatus(i) ==
    /\ posts[i].pc = "sent" /\ ~wire.ended
    /\ LET gives == posts[i].what = "initialize" /\ wire.kind = "stream"
       IN \E gave \in {gives, FALSE} : wire' = [wire EXCEPT !.given = @ \/ gave]
    /\ SetPost(i, [posts[i] EXCEPT !.pc = "body"])
    /\ UNCHANGED <<pending, slot, caller, toChild, fromServer, reader, seen, lines>>

\* The session is stored before the body is read.
HearHeaders(i) ==
    /\ posts[i].pc = "sent" /\ ~wire.ended
    /\ LET gives == posts[i].what = "initialize" /\ wire.kind = "stream"
       IN \E gave \in {gives, FALSE} :
             wire' = [wire EXCEPT !.session = @ \/ gave, !.given = @ \/ gave]
    /\ SetPost(i, [posts[i] EXCEPT !.pc = "body"])
    /\ UNCHANGED <<pending, slot, caller, toChild, fromServer, reader, seen, lines>>

\* A body of one message, or each event of a stream of them.
HearBody(i) ==
    /\ posts[i].pc = "body" /\ wire.kind = "stream" /\ ~wire.ended /\ lines < MaxLines /\ lines' = lines + 1
    /\ \E line \in ({"answer"} \X seen) \cup {<<"request", 0>>} :
          SetPost(i, Handled(posts[i], line)) /\ ClaimFor(line)
    /\ UNCHANGED <<wire, slot, caller, toChild, fromServer, reader, seen>>

\* Accepted, or the body's end, whether or not it held the answer.
PostEnds(i) ==
    /\ posts[i].pc = "body" /\ SetPost(i, [posts[i] EXCEPT !.pc = "over"])
    /\ UNCHANGED <<wire, pending, slot, caller, toChild, fromServer, reader, seen, lines>>

PostHands(i) ==
    /\ posts[i].pc = "handing" /\ Fits(posts[i].told[1])
    /\ Put(posts[i].told[1], posts[i].told[Len(posts[i].told)])
    /\ SetPost(i, [posts[i] EXCEPT !.pc = IF Len(posts[i].told) = 2 THEN "over" ELSE "body", !.told = <<>>])
    /\ UNCHANGED <<wire, pending, caller, toChild, fromServer, reader, seen, lines>>

PostRefuses(i) ==
    /\ posts[i].pc = "refusing"
    /\ \/ wire.ended /\ SetPost(i, [posts[i] EXCEPT !.pc = "body"])
       \/ /\ ~wire.ended /\ Len(posts) < MaxPosts[wire.kind]
          /\ posts' = Append([posts EXCEPT ![i].pc = "body"], NewPost("refusal", 0))
    /\ UNCHANGED <<wire, pending, slot, caller, toChild, fromServer, reader, seen, lines>>

------------------------------------------------------------------------------
(* The server at the other end of a pipe, or of a standing stream.         *)

ServerReads ==
    /\ Stdio /\ wire.up /\ toChild # <<>> /\ toChild' = Tail(toChild)
    /\ seen' = seen \cup ({toChild[1][2]} \ {0})
    /\ UNCHANGED <<wire, pending, slot, caller, posts, fromServer, reader, lines>>

ServerSays ==
    /\ wire.kind # "stream" /\ wire.up /\ Len(fromServer) < PipeRoom /\ lines < MaxLines
    /\ \E line \in ({"answer"} \X seen) \cup {<<"note", 0>>, <<"request", 0>>} :
          fromServer' = Append(fromServer, line)
    /\ lines' = lines + 1
    /\ UNCHANGED <<wire, pending, slot, caller, posts, toChild, reader, seen>>

ServerGoes ==
    /\ wire.kind # "stream" /\ wire.up /\ wire' = [wire EXCEPT !.up = FALSE] /\ toChild' = <<>>
    /\ UNCHANGED <<pending, slot, caller, posts, fromServer, reader, seen, lines>>

------------------------------------------------------------------------------
(* Close: after a failed handshake, after a probe, or by the pool.         *)

Under(w) == caller[w].pc \notin {"idle", "over"}

CloseConn ==
    /\ ~wire.closed /\ \A w \in DOMAIN caller : ~Under(w)
    /\ \/ wire.stage = "dialing" /\ WaitsAt("dial", "over")
       \/ wire.stage = "ready" /\ (wire.use = "probe" => \E w \in Callers : WaitsAt(w, "over"))
    /\ wire' = [wire EXCEPT !.closed = TRUE, !.stage = "closing"]
    /\ UNCHANGED <<pending, slot, caller, posts, toChild, fromServer, reader, seen, lines>>

\* stdin closed and a while waited, then the group killed; or the session deleted, and
\* every POST's context cancelled.
EndLife ==
    /\ wire.stage = "closing" /\ ~wire.ended
    /\ wire' = [wire EXCEPT !.ended = TRUE, !.up = FALSE] /\ toChild' = <<>>
    /\ UNCHANGED <<pending, slot, caller, posts, fromServer, reader, seen, lines>>

\* The child is waited for, or the POSTs in flight; then a remote one dies.
ConnClosed ==
    /\ wire.stage = "closing" /\ wire.ended
    /\ IF Stdio THEN Stage("closed") /\ UNCHANGED pending
       ELSE /\ \A i \in DOMAIN posts : posts[i].pc = "over"
            /\ wire' = [wire EXCEPT !.stage = "closed", !.dead = TRUE] /\ pending' = {}
    /\ UNCHANGED <<slot, caller, posts, toChild, fromServer, reader, seen, lines>>

WireNext ==
    \/ \E w \in DOMAIN caller : \/ BeginCall(w) \/ WriteCall(w) \/ HearReply(w) \/ HearDeath(w)
                                \/ GiveUp(w) \/ SendCancelled(w)
    \/ \E i \in DOMAIN posts : \/ BuildPost(i) \/ PostFails(i) \/ HearHeaders(i) \/ HearBody(i)
                               \/ PostEnds(i) \/ PostHands(i) \/ PostRefuses(i)
    \/ NameEndpoint \/ Greet \/ ReadLine \/ ReaderHands \/ ReaderRefuses \/ ReaderEnds
    \/ ServerReads \/ ServerSays \/ ServerGoes \/ CloseConn \/ EndLife \/ ConnClosed

WireSpec == WireInit(Kinds, {"probe", "pool"}) /\ [][WireNext]_wireVars
------------------------------------------------------------------------------
WireTypeOK ==
    /\ pending \subseteq 1..wire.nextId /\ seen \subseteq 1..wire.nextId /\ lines \in 0..MaxLines
    /\ Len(posts) <= MaxPosts[wire.kind] /\ Len(toChild) <= PipeRoom /\ Len(fromServer) <= PipeRoom

\* Whoever called is told the answer to what it asked, or an error: never another's
\* answer, late or doubled as answers may come (Call, deliver, forget).
ToldItsOwn ==
    \A w \in Callers : caller[w].told \in {<<>>, <<0>>, <<caller[w].id>>}

\* No goroutine that handles what the server says is ever held up by a channel nobody
\* empties (deliver).
NobodyIsHeldUp ==
    /\ reader.pc = "handing" => Fits(reader.told[1])
    /\ \A i \in DOMAIN posts : posts[i].pc = "handing" => Fits(posts[i].told[1])

\* A session the server gave is on every message that follows a handshake: the word that
\* it is over, the calls, and what calls them off (post).
SessionIsEchoed ==
    \A i \in DOMAIN posts :
       wire.given /\ posts[i].pc # "queued"
       /\ (posts[i].what \in {"initialized", "list", "call"} \/ posts[i].id > 1) => posts[i].carried

\* Nothing is on its way any more once a connection over POSTs is closed.
ClosedIsQuiet ==
    wire.stage = "closed" /\ wire.kind = "stream" => \A i \in DOMAIN posts : posts[i].pc = "over"

WireIsSound == ToldItsOwn /\ NobodyIsHeldUp /\ SessionIsEchoed /\ ClosedIsQuiet

------------------------------------------------------------------------------
(* What the code says of itself and does not keep.                         *)

\* "a conforming client MUST copy that argument's value into a Mcp-Param-{Name} header on
\* the call" (paramheaders.go:15): the connection an agent's call goes over.
AnnotatedIsMirrored ==
    \A i \in DOMAIN posts : posts[i].what = "call" /\ posts[i].pc # "queued" => posts[i].mirrored
==============================================================================
