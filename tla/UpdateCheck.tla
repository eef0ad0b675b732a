------------------------------ MODULE UpdateCheck ------------------------------
(***************************************************************************)
(* Whether this install asks for newer releases (update/update.go): what   *)
(* the file permits, what an administrator answered                        *)
(* (server/update_handlers.go), the row the answer is remembered in        *)
(* (settings/settings.go), the looks on demand and the daily loop.         *)
(*                                                                         *)
(* A look is the mode it began under, its request, and the report it       *)
(* leaves; what the report says of versions is left out.  Answers come one *)
(* at a time: of two at once the row may keep the other (README,           *)
(* Divergences).                                                           *)
(***************************************************************************)
EXTENDS Naturals, FiniteSets

CONSTANTS
    Lookers,    \* "check now" requests, each made once
    MaxAnswers, \* bound: answers given
    MaxLoops,   \* bound: loops started
    MaxReboots  \* bound: restarts, each of which may follow an edit of the file

ASSUME UpdateConstants == {MaxAnswers, MaxReboots} \subseteq Nat /\ MaxLoops \in Nat \ {0}

Modes == {"ask", "on", "off"}

VARIABLES
    ceiling,  \* update_check of the file
    stored,   \* the settings row, "none" for no row
    mode,
    report,   \* last: the mode it was found under, "none" for none
    answer,   \* the answer being recorded
    loops,    \* the loops there are: [1..MaxLoops -> where]
    live,     \* the count of them the checker keeps
    look,     \* [Lookers -> where the look is]
    given,    \* the last answer that took, "none" before the first
    lost,     \* whether the row may not be the last answer
    answers, reboots

updateVars == <<ceiling, stored, mode, report, answer, loops, live, look, given, lost,
                answers, reboots>>

NoAnswerYet == [pc |-> "none", mode |-> "none"]

\* New and Load: the row holds under the file, unless the file says off; the row may be
\* unreadable.
Loaded(file, row) == IF file = "off" \/ row = "none" THEN {file} ELSE {file, row}

UpdateInit(files) ==
    /\ ceiling \in files /\ stored = "none" /\ mode = ceiling /\ report = "none"
    /\ answer = NoAnswerYet /\ look = [l \in Lookers |-> "idle"]
    /\ loops = [n \in 1..MaxLoops |-> IF mode = "on" /\ n = 1 THEN "waiting" ELSE "none"]
    /\ live = (IF mode = "on" THEN 1 ELSE 0)
    /\ given = "none" /\ lost = FALSE /\ answers = 0 /\ reboots = 0

Unasked == UNCHANGED <<ceiling, answers, reboots>>

------------------------------------------------------------------------------
(* SetMode.                                                                *)

\* Out of "off" no answer leads; the same answer again changes nothing.
RefuseAnswer(m) ==
    /\ answer.pc = "none" /\ answers < MaxAnswers /\ answers' = answers + 1
    /\ mode = "off" \/ mode = m
    /\ answer' = IF mode = "on" /\ m = "on" THEN [pc |-> "looking", mode |-> m] ELSE answer
    /\ UNCHANGED <<ceiling, stored, mode, report, loops, live, look, given, lost, reboots>>

AnswerWith(m) ==
    /\ answer.pc = "none" /\ answers < MaxAnswers /\ answers' = answers + 1
    /\ mode # "off" /\ mode # m
    /\ mode' = m /\ given' = m /\ report' = IF m = "on" THEN report ELSE "none"
    /\ answer' = [pc |-> "storing", mode |-> m]
    /\ UNCHANGED <<ceiling, stored, loops, live, look, lost, reboots>>

\* A row that cannot be written is logged; the answer holds for this process.
StoreAnswer ==
    /\ answer.pc = "storing" /\ answer' = [answer EXCEPT !.pc = "ticking"]
    /\ \/ stored' = answer.mode /\ lost' = FALSE
       \/ lost' = TRUE /\ UNCHANGED stored
    /\ Unasked /\ UNCHANGED <<mode, report, loops, live, look, given>>

\* Mutant of Tick: a loop that is started is not counted.
TickUncounted ==
    /\ answer.pc = "ticking"
    /\ IF mode = "on" /\ live = 0
       THEN \E n \in 1..MaxLoops : /\ loops[n] = "none" /\ \A k \in 1..n - 1 : loops[k] # "none"
                                   /\ loops' = [loops EXCEPT ![n] = "waiting"]
       ELSE UNCHANGED loops
    /\ answer' = IF answer.mode = "on" THEN [answer EXCEPT !.pc = "looking"] ELSE NoAnswerYet
    /\ Unasked /\ UNCHANGED <<stored, mode, report, live, look, given, lost>>

\* tick: one loop, and only under "on".
Tick ==
    /\ answer.pc = "ticking"
    /\ IF mode = "on" /\ live = 0
       THEN \E n \in 1..MaxLoops : /\ loops[n] = "none" /\ \A k \in 1..n - 1 : loops[k] # "none"
                                   /\ loops' = [loops EXCEPT ![n] = "waiting"] /\ live' = 1
       ELSE UNCHANGED <<loops, live>>
    /\ answer' = IF answer.mode = "on" THEN [answer EXCEPT !.pc = "looking"] ELSE NoAnswerYet
    /\ Unasked /\ UNCHANGED <<stored, mode, report, look, given, lost>>

------------------------------------------------------------------------------
(* Check: the mode is read, under which the releases are asked for, and the report *)
(* is stored.                                                              *)

\* The look that follows an answer of "on".
LookAfterAnswer ==
    /\ answer.pc \in {"looking", "ask", "on"}
    /\ IF answer.pc = "looking" /\ mode # "off"
       THEN answer' = [answer EXCEPT !.pc = mode] /\ UNCHANGED report
       ELSE /\ answer' = NoAnswerYet
            /\ report' = IF answer.pc = "looking" THEN report ELSE answer.pc
    /\ Unasked /\ UNCHANGED <<stored, mode, loops, live, look, given, lost>>

CheckNow(l) ==
    /\ look[l] = "idle"
    /\ look' = [look EXCEPT ![l] = IF mode = "off" THEN "done" ELSE mode]
    /\ Unasked /\ UNCHANGED <<stored, mode, report, answer, loops, live, given, lost>>

FoundNow(l) ==
    /\ look[l] \in {"ask", "on"}
    /\ report' = look[l] /\ look' = [look EXCEPT ![l] = "done"]
    /\ Unasked /\ UNCHANGED <<stored, mode, answer, loops, live, given, lost>>

------------------------------------------------------------------------------
(* loop: the mode is read every time round, and once more by Check.        *)

Loop(n, at, next) == loops[n] = at /\ loops' = [loops EXCEPT ![n] = next]

Wake(n) ==
    /\ Loop(n, "waiting", IF mode = "on" THEN "checking" ELSE "leaving")
    /\ Unasked /\ UNCHANGED <<stored, mode, report, answer, live, look, given, lost>>

LoopLooks(n) ==
    /\ Loop(n, "checking", IF mode = "off" THEN "leaving" ELSE mode)
    /\ Unasked /\ UNCHANGED <<stored, mode, report, answer, live, look, given, lost>>

LoopFinds(n) ==
    /\ loops[n] \in {"ask", "on"} /\ Loop(n, loops[n], "waiting") /\ report' = loops[n]
    /\ Unasked /\ UNCHANGED <<stored, mode, answer, live, look, given, lost>>

LeaveLoop(n) ==
    /\ Loop(n, "leaving", "left") /\ live' = live - 1
    /\ Unasked /\ UNCHANGED <<stored, mode, report, answer, look, given, lost>>

------------------------------------------------------------------------------
\* Mutant of Reboot: what is stored holds whatever the file says.
RebootStored(file) ==
    /\ reboots < MaxReboots /\ reboots' = reboots + 1
    /\ ceiling' = file /\ mode' = (IF stored = "none" THEN file ELSE stored)
    /\ lost' = (lost \/ mode' # stored)
    /\ report' = "none" /\ answer' = NoAnswerYet
    /\ loops' = [n \in 1..MaxLoops |-> IF mode' = "on" /\ n = 1 THEN "waiting" ELSE "none"]
    /\ live' = (IF mode' = "on" THEN 1 ELSE 0)
    /\ look' = [l \in Lookers |-> IF look[l] = "idle" THEN "idle" ELSE "done"]
    /\ UNCHANGED <<stored, given, answers>>

\* The process ends and comes up under a file that may have been edited: New, Load, Start.
Reboot(file) ==
    /\ reboots < MaxReboots /\ reboots' = reboots + 1
    /\ ceiling' = file /\ mode' \in Loaded(file, stored)
    /\ lost' = (lost \/ answer.pc = "storing" \/ (stored # "none" /\ mode' # stored))
    /\ report' = "none" /\ answer' = NoAnswerYet
    /\ loops' = [n \in 1..MaxLoops |-> IF mode' = "on" /\ n = 1 THEN "waiting" ELSE "none"]
    /\ live' = (IF mode' = "on" THEN 1 ELSE 0)
    /\ look' = [l \in Lookers |-> IF look[l] = "idle" THEN "idle" ELSE "done"]
    /\ UNCHANGED <<stored, given, answers>>

UpdateNext ==
    \/ \E m \in Modes : RefuseAnswer(m) \/ AnswerWith(m) \/ Reboot(m)
    \/ \E l \in Lookers : CheckNow(l) \/ FoundNow(l)
    \/ \E n \in 1..MaxLoops : Wake(n) \/ LoopLooks(n) \/ LoopFinds(n) \/ LeaveLoop(n)
    \/ StoreAnswer \/ Tick \/ LookAfterAnswer

UpdateSpec == UpdateInit(Modes) /\ [][UpdateNext]_updateVars
------------------------------------------------------------------------------
LoopPCs == {"none", "waiting", "checking", "ask", "on", "leaving", "left"}

UpdateTypeOK ==
    /\ {ceiling, mode} \subseteq Modes /\ {stored, report, given} \subseteq Modes \cup {"none"}
    /\ loops \in [1..MaxLoops -> LoopPCs] /\ live \in Nat
    /\ look \in [Lookers -> Modes \cup {"idle", "done"}] /\ lost \in BOOLEAN

(* Two loops would ask on two different days.                              *)
OneLoop == Cardinality({n \in 1..MaxLoops : loops[n] \notin {"none", "left"}}) <= 1

(* What the file forbids no stored answer permits: nothing is asked for and nobody
   waits to ask.                                                           *)
FileIsObeyed ==
    ceiling = "off" =>
        /\ mode = "off" /\ report = "none" /\ live = 0 /\ answer.pc \in {"none", "looking"}
        /\ \A l \in Lookers : look[l] \notin {"ask", "on"}

(* The answer that was given holds, across restarts, as long as the row could be written
   and read and the file permits it.                                       *)
AnswerHolds == (given # "none" /\ ~lost /\ answer.pc # "storing") => mode = given

UpdatesAreDecided == OneLoop /\ FileIsObeyed /\ AnswerHolds

(* An answer is refused only where the file says "off": "off" because somebody answered no
   can be undone from a browser (update.go:228-232).                       *)
RefusedByTheFile == [][(answers' # answers /\ mode = "off") => ceiling = "off"]_updateVars
==============================================================================
