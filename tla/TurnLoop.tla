------------------------------- MODULE TurnLoop -------------------------------
(***************************************************************************)
(* The conversation of one workspace (ws_messages of                       *)
(* workspace/workspace.go), the operator's turns that add to it            *)
(* (HandleUserMessage and its helpers in engine/engine.go), and how it is  *)
(* replayed to the model (buildHistory, repairHistory).                    *)
(*                                                                         *)
(* What was said is the number of the row it was said in.  A tool call is  *)
(* the reply it was made in, its place there and whether its input is      *)
(* JSON; ok calls are.  A workspace has one turn at a time.  The rows of   *)
(* an exchange that nobody replays, delegations, are left out.             *)
(***************************************************************************)
EXTENDS Naturals, Sequences, SequencesExt

CONSTANTS
    Window,        \* rows replayed (500)
    MaxIterations, \* maxToolIterations (16)
    MaxCallsEach,  \* bound: calls of one reply
    MaxRowsSaid,   \* bound: rows ever written
    MaxSays,       \* bound: operator's messages
    MaxForgotten   \* bound: rows the operator removes

ASSUME TurnConstants ==
    /\ Window \in Nat \ {0} /\ MaxIterations \in Nat \ {0} /\ MaxCallsEach \in Nat
    /\ MaxRowsSaid \in Nat /\ MaxSays \in Nat /\ MaxForgotten \in Nat

VARIABLES
    nameless,   \* whether the provider omits call ids: llm/openai.go numbers them per reply
    timeline,   \* ws_messages, oldest first
    said,       \* rows ever written
    turn,       \* the turn in progress
    says, forgotten

turnVars == <<nameless, timeline, said, turn, says, forgotten>>

NoLoop == [pc |-> "idle", history |-> <<>>, text |-> <<>>, calls |-> <<>>, done |-> 0, iter |-> 0,
           untouched |-> TRUE]

TurnInit ==
    /\ nameless \in BOOLEAN /\ timeline = <<>> /\ said = 0 /\ turn = NoLoop
    /\ says = 0 /\ forgotten = 0

------------------------------------------------------------------------------
(* Replay.                                                                 *)

UserText(text)     == [role |-> "user", text |-> text, calls |-> <<>>, results |-> <<>>]
Reply(text, calls) == [role |-> "assistant", text |-> text, calls |-> calls, results |-> <<>>]
Results(results)   == [role |-> "user", text |-> <<>>, calls |-> <<>>, results |-> results]
Plain(t)           == t.calls = <<>> /\ t.results = <<>>
\* The id a call goes by: the provider's own, or its place in the reply.
IdOf(c)            == IF nameless THEN c.at ELSE c

Flushed(a) == IF a.pending = <<>> THEN a.turns ELSE Append(a.turns, Results(a.pending))

\* buildHistory, one row: results are gathered until something else is said.
ReplayRow(a, row) ==
    CASE row.kind = "user" ->
           [turns |-> Append(Flushed(a), UserText(<<row.n>>)), pending |-> <<>>]
      [] row.kind = "assistant" ->
           [turns |-> IF row.text = <<>> /\ row.calls = <<>> THEN Flushed(a)
                      ELSE Append(Flushed(a), Reply(row.text, row.calls)),
            pending |-> <<>>]
      [] row.kind = "result" -> [a EXCEPT !.pending = Append(@, row.calls[1])]
      [] OTHER -> a

\* Mutant of Answered: a call with no recorded result is left as it is.
AnsweredIfRecorded(calls, recorded) ==
    LET Has(c) == \E j \in DOMAIN recorded : IdOf(recorded[j]) = IdOf(c)
    IN [k \in DOMAIN SelectSeq(calls, Has) |->
          [call |-> SelectSeq(calls, Has)[k], got |-> <<SelectSeq(calls, Has)[k]>>]]

\* Each call with the result recorded under its id, the last if there are several;
\* one that has none was interrupted.
Answered(calls, recorded) ==
    [k \in DOMAIN calls |->
       LET hits == {j \in DOMAIN recorded : IdOf(recorded[j]) = IdOf(calls[k])}
       IN [call |-> calls[k],
           got  |-> IF hits = {} THEN <<>>
                    ELSE <<recorded[CHOOSE j \in hits : \A i \in hits : i <= j]>>]]

\* repairHistory's first loop: what becomes of the i-th turn.
Repaired(raw, i) ==
    LET t     == raw[i]
        valid == SelectSeq(t.calls, LAMBDA c : c.ok)
    IN CASE t.results # <<>> -> <<>>
         [] t.results = <<>> /\ t.calls = <<>> -> <<t>>
         [] t.calls # <<>> /\ valid = <<>> -> IF t.text = <<>> THEN <<>> ELSE <<Reply(t.text, <<>>)>>
         [] OTHER -> <<Reply(t.text, valid),
                       Results(Answered(valid, IF i < Len(raw) THEN raw[i + 1].results ELSE <<>>))>>

\* Its second: plain turns of one role, one after the other, are one.
Merged(turns, t) ==
    LET n == Len(turns)
    IN IF n > 0 /\ turns[n].role = t.role /\ Plain(turns[n]) /\ Plain(t)
       THEN [turns EXCEPT ![n].text = @ \o t.text] ELSE Append(turns, t)

\* Its third: it opens with something the operator said.
Opened(turns) ==
    LET opens == {i \in DOMAIN turns : turns[i].role = "user" /\ turns[i].text # <<>>}
    IN IF opens = {} THEN <<>>
       ELSE SubSeq(turns, CHOOSE i \in opens : \A j \in opens : i <= j, Len(turns))

repairHistory(raw) ==
    Opened(FoldLeft(Merged, <<>>, FlattenSeq([i \in DOMAIN raw |-> Repaired(raw, i)])))

Recent(rows) == SubSeq(rows, IF Len(rows) > Window THEN Len(rows) - Window + 1 ELSE 1, Len(rows))

buildHistory(rows) ==
    repairHistory(Flushed(FoldLeft(ReplayRow, [turns |-> <<>>, pending |-> <<>>], Recent(rows))))

------------------------------------------------------------------------------
(* A turn.                                                                 *)

TurnAt(pc)  == turn.pc = pc
Line(kind, text, calls) == [n |-> said + 1, kind |-> kind, text |-> text, calls |-> calls]
Written     == said < MaxRowsSaid /\ said' = said + 1
Speech(b)   == IF b THEN <<said + 1>> ELSE <<>>
OnlyTurn    == UNCHANGED <<nameless, says, forgotten>>

\* The operator's message is on the timeline before anything else happens.
Say ==
    /\ TurnAt("idle") /\ says < MaxSays /\ Written
    /\ timeline' = Append(timeline, Line("user", Speech(TRUE), <<>>))
    /\ turn' = [NoLoop EXCEPT !.pc = "recalling"]
    /\ says' = says + 1
    /\ UNCHANGED <<nameless, forgotten>>

Recall ==
    /\ TurnAt("recalling")
    /\ turn' = [turn EXCEPT !.pc = "asking", !.history = buildHistory(timeline)]
    /\ UNCHANGED <<timeline, said>> /\ OnlyTurn

\* modelTurn fails.
ModelFails ==
    /\ TurnAt("asking") /\ turn' = [turn EXCEPT !.pc = "complaining"]
    /\ UNCHANGED <<timeline, said>> /\ OnlyTurn

\* The last reply; cut short by the token limit it may be empty, its calls are dropped
\* and an error follows it.
ModelConcludes ==
    /\ TurnAt("asking") /\ Written
    /\ \/ /\ timeline' = Append(timeline, Line("assistant", Speech(TRUE), <<>>))
          /\ turn' = NoLoop
       \/ /\ \E b \in BOOLEAN : timeline' = Append(timeline, Line("assistant", Speech(b), <<>>))
          /\ turn' = [turn EXCEPT !.pc = "complaining"]
    /\ OnlyTurn

\* The error is on the timeline, and the turn is over.
PersistError ==
    /\ TurnAt("complaining") /\ Written
    /\ timeline' = Append(timeline, Line("error", <<>>, <<>>))
    /\ turn' = NoLoop
    /\ OnlyTurn

\* A reply that calls tools is on the timeline before the first is executed.
ModelCalls ==
    /\ TurnAt("asking") /\ Written
    /\ \E k \in 1..MaxCallsEach, b \in BOOLEAN, odd \in 0..MaxCallsEach :
          LET calls == [i \in 1..k |-> [of |-> said + 1, at |-> i, ok |-> i # odd]]
          IN /\ odd <= k
             /\ timeline' = Append(timeline, Line("assistant", Speech(b), calls))
             /\ turn' = [turn EXCEPT !.pc = "doing", !.text = Speech(b), !.calls = calls, !.done = 0]
    /\ OnlyTurn

\* A tool has been executed, and its result is on the timeline, whether or not the
\* operator is still there.  After the last the model is asked again, up to a point.
ToolReturns ==
    /\ TurnAt("doing")
    /\ LET k    == turn.done + 1
           more == k < Len(turn.calls)
           over == ~more /\ turn.iter + 1 = MaxIterations
       IN /\ Written
          /\ timeline' = Append(timeline, Line("result", <<>>, <<turn.calls[k]>>))
          /\ turn' = IF over THEN [turn EXCEPT !.pc = "complaining"]
                     ELSE IF more THEN [turn EXCEPT !.done = k]
                     ELSE [turn EXCEPT !.pc = "asking", !.iter = @ + 1,
                             !.history = @ \o <<Reply(turn.text, turn.calls),
                                Results([j \in DOMAIN turn.calls |->
                                           [call |-> turn.calls[j], got |-> <<turn.calls[j]>>]])>>]
    /\ OnlyTurn

\* A row that cannot be written, a history that cannot be read, or a crash.
TurnEnds ==
    /\ turn.pc # "idle" /\ turn' = NoLoop
    /\ UNCHANGED <<timeline, said>> /\ OnlyTurn

\* DeleteMessage: a reply goes with the results that follow it.
Forget(i) ==
    /\ forgotten < MaxForgotten /\ forgotten' = forgotten + 1
    /\ LET stops == {j \in DOMAIN timeline : j > i /\ timeline[j].kind \in {"user", "assistant"}}
           Goes(j) == \/ j = i
                      \/ /\ timeline[i].calls # <<>> /\ timeline[i].kind = "assistant"
                         /\ j > i /\ timeline[j].kind = "result" /\ \A s \in stops : j < s
       IN timeline' = FlattenSeq([j \in DOMAIN timeline |-> IF Goes(j) THEN <<>> ELSE <<timeline[j]>>])
    /\ turn' = [turn EXCEPT !.untouched = FALSE]
    /\ UNCHANGED <<nameless, said, says>>

TurnNext ==
    \/ Say \/ Recall \/ ModelFails \/ ModelConcludes \/ ModelCalls \/ ToolReturns \/ PersistError
    \/ TurnEnds
    \/ \E i \in DOMAIN timeline : Forget(i)

TurnSpec == TurnInit /\ [][TurnNext]_turnVars

------------------------------------------------------------------------------
(* Properties.                                                             *)

TurnTypeOK ==
    /\ turn.pc \in {"idle", "recalling", "asking", "doing", "complaining"}
    /\ turn.done <= MaxCallsEach /\ turn.iter < MaxIterations
    /\ Len(timeline) <= said /\ said <= MaxRowsSaid

\* What a model is sent is what a provider takes: no empty turn, every call answered
\* once and in order by the turn after it, no answer anywhere else, and, if the
\* operator has left the rows alone, their words first (repairHistory, HandleUserMessage).
EveryCallIsAnswered ==
    TurnAt("asking") =>
       LET h == turn.history
       IN /\ turn.untouched => h # <<>> /\ h[1].role = "user" /\ h[1].text # <<>>
          /\ \A i \in DOMAIN h :
                /\ h[i].text # <<>> \/ h[i].calls # <<>> \/ h[i].results # <<>>
                /\ h[i].calls # <<>> =>
                      /\ i < Len(h)
                      /\ [k \in DOMAIN h[i + 1].results |-> h[i + 1].results[k].call] = h[i].calls
                /\ h[i].results # <<>> => i > 1 /\ h[i - 1].calls # <<>>

AllJSON(h) == \A i \in DOMAIN h : \A k \in DOMAIN h[i].calls : h[i].calls[k].ok

\* The timeline is enough: what a turn shows the model as it goes on is what it would
\* be shown if it were replayed from the rows at that moment (the order in which
\* HandleUserMessage writes rows and extends its history, buildHistory).
TimelineTellsTheTurn ==
    TurnAt("asking") /\ turn.untouched /\ AllJSON(turn.history) /\ Len(timeline) <= Window
       => turn.history = buildHistory(timeline)

Owned == \A i \in DOMAIN turn.history : \A k \in DOMAIN turn.history[i].results :
            LET r == turn.history[i].results[k] IN r.got \in {<<>>, <<r.call>>}

\* With a provider that names its calls, no call is ever answered with what another
\* returned, whatever the operator removes meanwhile (DeleteMessage, repairHistory).
AnswersAreTheirOwn == ~nameless => Owned

\* Whatever a turn was cut short by, and whatever was removed from its timeline, the
\* model is shown a conversation, and the one that took place (engine.go).
HistoryIsSound == EveryCallIsAnswered /\ TimelineTellsTheTurn /\ AnswersAreTheirOwn

------------------------------------------------------------------------------
(* What the code says of itself and does not keep.                         *)

\* "silently keeping half of what someone asked to forget is not what they asked for"
\* (workspace.go, DeleteMessage): a result that lands afterwards, numbered as a call of
\* an earlier reply is, answers that one.
ForgottenIsForgotten == Owned

\* "alternating roles" (engine.go, buildHistory).
RolesAlternate ==
    TurnAt("asking") => \A i \in 1..Len(turn.history) - 1 : turn.history[i].role # turn.history[i + 1].role
==============================================================================
