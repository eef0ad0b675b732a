--------------------------- MODULE WorkflowVersions ---------------------------
(***************************************************************************)
(* The versions of one workspace: recording it as it stands and rolling it *)
(* back (workflow/snapshot.go, workflow/store.go, the forms of             *)
(* server/versions_drawer.go), beside the operators and the orchestrator,  *)
(* who edit its agents, wires, grants, bindings and clocks                 *)
(* (workspace/workspace.go, gear/gear.go, schedule/store.go).              *)
(*                                                                         *)
(* Neither Take nor Restore is a transaction: each lists what there is,    *)
(* one kind after the other, and Restore deletes and creates one row at a  *)
(* time.  Positions of plans are PlanPosition's business.                  *)
(***************************************************************************)
EXTENDS Naturals, Sequences, FiniteSets

CONSTANTS
    Helpers,      \* names of agents beside the orchestrator
    Models,       \* models of the catalogue
    Gears,        \* gears of the catalogue
    Docs,         \* documents of the space
    Clocks,       \* names of clocks
    Clerks,       \* operators' requests that save or roll back
    MaxRows,      \* bound: rows the workspace begins with
    MaxVersions,  \* bound: versions
    MaxRevisions, \* bound: edits by others
    MaxLapses     \* bound: failed statements

ASSUME VersionConstants ==
    /\ "orchestrator" \notin Helpers /\ "none" \notin Models
    /\ {"all", "adrift", "gear", "none"} \cap Helpers = {}
    /\ MaxRows \in Nat /\ MaxVersions \in Nat /\ MaxRevisions \in Nat /\ MaxLapses \in Nat

VARIABLES
    model,      \* the agents: [names present -> model, or none]
    rows,       \* wires, grants, context bindings and clocks
    library,    \* gears in the catalogue
    offered,    \* models in the catalogue
    versions,   \* workflow_versions, in the order of their numbers
    clerk,      \* [Clerks -> the request in progress]
    revisions, lapses

shelf       == <<library, offered>>
versionVars == <<model, rows, shelf, versions, clerk, revisions, lapses>>

Orchestrator == "orchestrator"
Names        == Helpers \cup {Orchestrator}
KindsKept        == <<"wire", "gear", "doc", "clock">>
Held(k, t, o) == [kind |-> k, thing |-> t, owner |-> o, on |-> TRUE]
\* A wire is from the orchestrator to its owner, a grant or a binding is an
\* agent's or everybody's, a clock starts an agent, a gear or nothing.
AllRows == {Held("wire", "wire", a) : a \in Helpers}
        \cup {Held("gear", g, o) : g \in Gears, o \in Names \cup {"all"}}
        \cup {Held("doc", d, o) : d \in Docs, o \in Names \cup {"all"}}
        \cup {[Held("clock", c, o) EXCEPT !.on = e] :
                c \in Clocks, o \in Names \cup {"gear", "none"}, e \in BOOLEAN}
\* What the unique indexes compare.
Key(r)      == IF r.kind = "clock" THEN <<r.kind, r.thing>> ELSE <<r.kind, r.thing, r.owner>>
Taken(r)    == \E q \in rows : Key(q) = Key(r)
OfKind(S,k) == {r \in S : r.kind = k}
Nothing     == [model |-> [a \in {} |-> "none"], rows |-> {}]
\* A row whose agent is unknown is written down without a name, which is how
\* everybody's is written; the models of agents say which they are.
AsRecorded(s)    == [s EXCEPT !.rows = {IF r.owner = "adrift" THEN [r EXCEPT !.owner = "all"] ELSE r : r \in @}]
Same(s, t)  == AsRecorded(s) = AsRecorded(t)

\* alone: nobody else has written since the request began; hired, since: agents
\* and rows others made meanwhile; kept: what was there has been recorded.
NoClerk == [pc |-> "idle", op |-> "none", kind |-> 0, snap |-> Nothing, want |-> Nothing,
            todo |-> {}, here |-> {}, missing |-> {}, hired |-> {}, since |-> {}, alone |-> TRUE, kept |-> TRUE]

Begins(r)   == r.owner \in Names => r.owner \in DOMAIN model
VersionInit ==
    /\ model \in UNION {[{Orchestrator} \cup S -> Models \cup {"none"}] : S \in SUBSET Helpers}
    /\ model[Orchestrator] # "none"
    /\ rows \in {S \in SUBSET AllRows : Cardinality(S) <= MaxRows}
    /\ \A r \in rows : Begins(r)
    /\ \A q, r \in rows : Key(q) = Key(r) => q = r
    /\ library = Gears /\ offered = Models /\ versions = <<>>
    /\ clerk = [o \in Clerks |-> NoClerk] /\ revisions = 0 /\ lapses = 0

------------------------------------------------------------------------------
(* Requests.                                                               *)

ClerkAt(o, pc) == clerk[o].pc = pc
\* Whoever writes disturbs the requests that are under way.
Knowing(c, hired, made) ==
    IF c.pc = "idle" THEN c
    ELSE [c EXCEPT !.alone = FALSE, !.hired = @ \cup hired, !.since = @ \cup made]
Becomes(o, c)  == clerk' = [clerk EXCEPT ![o] = c]
Writes(o, hired, made, c) ==
    clerk' = [p \in Clerks |-> IF p = o THEN c ELSE Knowing(clerk[p], hired, made)]
StopClerk(o)   == Becomes(o, NoClerk)
Lapse          == lapses < MaxLapses /\ lapses' = lapses + 1
Desk           == UNCHANGED <<shelf, revisions>>
ClerkReads     == UNCHANGED <<model, rows, versions>> /\ Desk

AskToSave(o) ==
    /\ ClerkAt(o, "idle") /\ Len(versions) < MaxVersions
    /\ Becomes(o, [NoClerk EXCEPT !.pc = "agents", !.op = "save"])
    /\ UNCHANGED lapses /\ ClerkReads

\* The version to go back to is read first.
AskToRollBack(o) ==
    /\ ClerkAt(o, "idle") /\ Len(versions) < MaxVersions
    /\ \E n \in DOMAIN versions :
          Becomes(o, [NoClerk EXCEPT !.pc = "agents", !.op = "rollback", !.want = versions[n]])
    /\ UNCHANGED lapses /\ ClerkReads

\* Take: the agents, by name,
TakeAgents(o) ==
    /\ ClerkAt(o, "agents")
    /\ Becomes(o, [clerk[o] EXCEPT !.pc = "taking", !.kind = 1, !.snap.model = model])
    /\ UNCHANGED lapses /\ ClerkReads

\* The name an owner is recorded by.
NamedIn(s, r) == IF r.owner \in Names \ DOMAIN s.model THEN [r EXCEPT !.owner = "adrift"] ELSE r

\* Mutant of Recordable: the documents are forgotten.
RecordableButDocs(s, k) ==
    {NamedIn(s, r) : r \in {q \in OfKind(rows, k) : k \in {"wire", "gear"}
                                                    \/ (k = "clock" /\ q.owner \in Names)}}

\* What Take records of a kind: a wire only with both its ends, a clock only if it
\* starts an agent.
Recordable(s, k) ==
    {NamedIn(s, r) : r \in {q \in OfKind(rows, k) :
        /\ k = "wire" => q.owner \in DOMAIN s.model
        /\ k = "clock" => q.owner \in Names}}

\* and then the rows, one kind after the other.
TakeRows(o) ==
    /\ ClerkAt(o, "taking")
    /\ LET c == clerk[o]
           s == [c.snap EXCEPT !.rows = @ \cup Recordable(c.snap, KindsKept[c.kind])]
       IN Becomes(o, IF c.kind < Len(KindsKept) THEN [c EXCEPT !.snap = s, !.kind = @ + 1]
                     ELSE [c EXCEPT !.snap = s, !.pc = "comparing"])
    /\ UNCHANGED lapses /\ ClerkReads

\* A grant whose gear cannot be looked up is left out, and the version goes on
\* without it.
TakeSkips(o) ==
    /\ ClerkAt(o, "taking") /\ KindsKept[clerk[o].kind] = "gear"
    /\ \E S \in SUBSET Recordable(clerk[o].snap, "gear") :
          /\ S # Recordable(clerk[o].snap, "gear")
          /\ Becomes(o, [clerk[o] EXCEPT !.snap.rows = @ \cup S, !.kind = @ + 1, !.kept = FALSE])
    /\ Lapse /\ ClerkReads

\* A statement of Take fails: a save gives up, a rollback goes on without.
TakeFails(o) ==
    /\ ClerkAt(o, "agents") \/ ClerkAt(o, "taking")
    /\ IF clerk[o].op = "save" THEN StopClerk(o)
       ELSE Becomes(o, [clerk[o] EXCEPT !.pc = "listing agents", !.kept = FALSE])
    /\ Lapse /\ ClerkReads

\* Latest and Same: what the last version already says is not recorded again.
Compare(o) ==
    /\ ClerkAt(o, "comparing")
    /\ LET n == Len(versions)
       IN IF n > 0 /\ Same(versions[n], clerk[o].snap)
          THEN IF clerk[o].op = "save" THEN StopClerk(o)
               ELSE Becomes(o, [clerk[o] EXCEPT !.pc = "listing agents"])
          ELSE Becomes(o, [clerk[o] EXCEPT !.pc = "keeping"])
    /\ UNCHANGED lapses /\ ClerkReads

\* Store.Save, or its failure, which ends the request.
Keep(o) ==
    /\ ClerkAt(o, "keeping") /\ Len(versions) < MaxVersions
    /\ \/ /\ versions' = Append(versions, clerk[o].snap) /\ UNCHANGED lapses
          /\ IF clerk[o].op = "save" THEN StopClerk(o)
             ELSE Becomes(o, [clerk[o] EXCEPT !.pc = "listing agents"])
       \/ Lapse /\ StopClerk(o) /\ UNCHANGED versions
    /\ UNCHANGED <<model, rows>> /\ Desk

------------------------------------------------------------------------------
(* Restore.                                                                *)

Wanted(o) == clerk[o].want
OneOf(S)  == CHOOSE x \in S : TRUE

\* The agents that are there; those the version does not know go first.
ListAgents(o) ==
    /\ ClerkAt(o, "listing agents")
    /\ Becomes(o, [clerk[o] EXCEPT !.pc = "removing", !.here = DOMAIN model,
                     !.todo = DOMAIN model \ (DOMAIN Wanted(o).model \cup {Orchestrator})])
    /\ UNCHANGED lapses /\ ClerkReads

\* An agent goes, and by cascade its wires, grants and bindings; its clocks stay
\* and start nothing.
RowsWithout(a) ==
    {IF r.kind = "clock" /\ r.owner = a THEN [r EXCEPT !.owner = "none"] ELSE r :
       r \in {q \in rows : q.owner # a \/ q.kind = "clock"}}
Less(f, S)  == [x \in DOMAIN f \ S |-> f[x]]
With(f, x, v)  == [y \in DOMAIN f \cup {x} |-> IF y = x THEN v ELSE f[y]]

RemoveOne(o) ==
    /\ ClerkAt(o, "removing") /\ clerk[o].todo # {}
    /\ LET a == OneOf(clerk[o].todo)
       IN \/ /\ a \in DOMAIN model
             /\ model' = Less(model, {a}) /\ rows' = RowsWithout(a)
             /\ Writes(o, {}, {}, [clerk[o] EXCEPT !.todo = @ \ {a}, !.here = @ \ {a}])
          \* Somebody else has removed it, and perhaps made another of the name.
          \/ /\ a \notin DOMAIN model \/ a \in clerk[o].hired
             /\ StopClerk(o) /\ UNCHANGED <<model, rows>>
    /\ UNCHANGED <<versions, lapses>> /\ Desk

RemovedAll(o) ==
    /\ ClerkAt(o, "removing") /\ clerk[o].todo = {}
    /\ Becomes(o, [clerk[o] EXCEPT !.pc = "making", !.todo = DOMAIN Wanted(o).model])
    /\ UNCHANGED lapses /\ ClerkReads

\* Mutant of MakeOne: an agent that is there is taken as it is.
MakeOneIfAbsent(o) ==
    /\ ClerkAt(o, "making") /\ clerk[o].todo # {}
    /\ LET a    == OneOf(clerk[o].todo)
           m    == Wanted(o).model[a]
           next == [clerk[o] EXCEPT !.todo = @ \ {a}, !.here = @ \cup {a}]
       IN \/ /\ a \in clerk[o].here /\ a \in DOMAIN model
             /\ Becomes(o, next) /\ UNCHANGED model
          \/ /\ a \notin clerk[o].here /\ a \notin DOMAIN model /\ m \in offered
             /\ model' = With(model, a, m) /\ Writes(o, {a}, {}, next)
          \/ /\ m \notin offered
             /\ StopClerk(o) /\ UNCHANGED model
    /\ UNCHANGED <<rows, versions, lapses>> /\ Desk

\* An agent that was there when they were listed is updated, another is created.  An
\* update without a model leaves the model there is; a creation without one, or
\* with a model that has left the catalogue, violates the foreign key.
MakeOne(o) ==
    /\ ClerkAt(o, "making") /\ clerk[o].todo # {}
    /\ LET a    == OneOf(clerk[o].todo)
           m    == Wanted(o).model[a]
           next == [clerk[o] EXCEPT !.todo = @ \ {a}, !.here = @ \cup {a}]
       IN \/ /\ a \in clerk[o].here /\ a \in DOMAIN model /\ m \in offered \cup {"none"}
             /\ model' = [model EXCEPT ![a] = IF m = "none" THEN @ ELSE m]
             /\ Writes(o, {}, {}, next)
          \/ /\ a \notin clerk[o].here /\ a \notin DOMAIN model /\ m \in offered
             /\ model' = With(model, a, m) /\ Writes(o, {a}, {}, next)
          \/ /\ \/ a \in clerk[o].here /\ (a \notin DOMAIN model \/ a \in clerk[o].hired)
                \/ a \notin clerk[o].here /\ (a \in DOMAIN model \/ m = "none")
                \/ m \notin offered \cup {"none"}
             /\ StopClerk(o) /\ UNCHANGED model
    /\ UNCHANGED <<rows, versions, lapses>> /\ Desk

MadeAll(o) ==
    /\ ClerkAt(o, "making") /\ clerk[o].todo = {}
    /\ Becomes(o, [clerk[o] EXCEPT !.pc = "listing", !.kind = 1, !.here = DOMAIN Wanted(o).model])
    /\ UNCHANGED lapses /\ ClerkReads

\* Kind after kind: all of them go, and those of the version are made.
ListRows(o) ==
    /\ ClerkAt(o, "listing")
    /\ Becomes(o, [clerk[o] EXCEPT !.pc = "dropping", !.todo = OfKind(rows, KindsKept[clerk[o].kind])])
    /\ UNCHANGED lapses /\ ClerkReads

DropOne(o) ==
    /\ ClerkAt(o, "dropping") /\ clerk[o].todo # {}
    /\ LET r == OneOf(clerk[o].todo)
           gone == {q \in rows : Key(q) = Key(r)}
       IN \/ /\ gone # {}
             /\ rows' = rows \ gone
             /\ Writes(o, {}, {}, [clerk[o] EXCEPT !.todo = @ \ {r}])
          \/ /\ gone = {} \/ gone \cap clerk[o].since # {}
             /\ StopClerk(o) /\ UNCHANGED rows
    /\ UNCHANGED <<model, versions, lapses>> /\ Desk

DroppedAll(o) ==
    /\ ClerkAt(o, "dropping") /\ clerk[o].todo = {}
    /\ Becomes(o, [clerk[o] EXCEPT !.pc = "drawing",
                     !.todo = OfKind(Wanted(o).rows, KindsKept[clerk[o].kind])])
    /\ UNCHANGED lapses /\ ClerkReads

\* What Restore says it could not put back: a row of an agent it does not know, a
\* gear that has left the catalogue.
Unknown(o, r) == \/ r.owner \in Names /\ r.owner \notin clerk[o].here
                 \/ r.kind = "clock" /\ r.owner = "adrift"
                 \/ r.kind = "gear" /\ r.thing \notin library
\* What it makes of an entry; a clock always runs.
Drawn(r) == [r EXCEPT !.owner = IF @ = "adrift" THEN "all" ELSE @, !.on = TRUE]

DrawOne(o) ==
    /\ ClerkAt(o, "drawing") /\ clerk[o].todo # {}
    /\ LET r     == OneOf(clerk[o].todo)
           next  == [clerk[o] EXCEPT !.todo = @ \ {r}]
           given == [next EXCEPT !.missing = @ \cup {r}]
           fits  == ~Taken(Drawn(r)) /\ (r.owner \in Names => r.owner \in DOMAIN model)
       IN \/ Unknown(o, r) /\ Becomes(o, given) /\ UNCHANGED rows
          \/ /\ ~Unknown(o, r) /\ fits
             /\ rows' = rows \cup {Drawn(r)}
             /\ Writes(o, {}, {Drawn(r)}, next)
          \/ /\ ~Unknown(o, r) /\ (~fits \/ r.owner \in clerk[o].hired)
             /\ IF r.kind = "clock" THEN Becomes(o, given) ELSE StopClerk(o)
             /\ UNCHANGED rows
    /\ UNCHANGED <<model, versions, lapses>> /\ Desk

DrawnAll(o) ==
    /\ ClerkAt(o, "drawing") /\ clerk[o].todo = {}
    /\ Becomes(o, IF clerk[o].kind < Len(KindsKept)
                  THEN [clerk[o] EXCEPT !.pc = "listing", !.kind = @ + 1]
                  ELSE [clerk[o] EXCEPT !.pc = "noting"])
    /\ UNCHANGED lapses /\ ClerkReads

\* The rollback is a version of its own.
NoteRollback(o) ==
    /\ ClerkAt(o, "noting") /\ Len(versions) < MaxVersions
    /\ \/ versions' = Append(versions, Wanted(o)) /\ UNCHANGED lapses
       \/ Lapse /\ UNCHANGED versions
    /\ StopClerk(o)
    /\ UNCHANGED <<model, rows>> /\ Desk

\* A statement of Restore fails, or its caller is gone: it stops where it is.
RestoreFails(o) ==
    /\ clerk[o].pc \in {"listing agents", "removing", "making", "listing", "dropping", "drawing"}
    /\ StopClerk(o) /\ Lapse /\ ClerkReads

ClerkStep(o) ==
    \/ AskToSave(o) \/ AskToRollBack(o) \/ TakeAgents(o) \/ TakeRows(o) \/ TakeSkips(o)
    \/ TakeFails(o) \/ Compare(o) \/ Keep(o) \/ ListAgents(o) \/ RemoveOne(o) \/ RemovedAll(o)
    \/ MakeOne(o) \/ MadeAll(o) \/ ListRows(o) \/ DropOne(o) \/ DroppedAll(o) \/ DrawOne(o)
    \/ DrawnAll(o) \/ NoteRollback(o) \/ RestoreFails(o)

------------------------------------------------------------------------------
(* Everybody else.                                                         *)

Revise(hired, made) ==
    /\ revisions < MaxRevisions /\ revisions' = revisions + 1
    /\ clerk' = [o \in Clerks |-> Knowing(clerk[o], hired, made)]
    /\ UNCHANGED <<versions, lapses>>

CreateAgent(a) ==
    /\ a \notin DOMAIN model
    /\ \E m \in offered \cup {"none"} : model' = With(model, a, m)
    /\ Revise({a}, {}) /\ UNCHANGED <<rows, shelf>>

UpdateAgent(a) ==
    /\ a \in DOMAIN model
    /\ \E m \in offered \ {model[a]} : model' = [model EXCEPT ![a] = m]
    /\ Revise({}, {}) /\ UNCHANGED <<rows, shelf>>

DeleteAgent(a) ==
    /\ a \in DOMAIN model \ {Orchestrator}
    /\ model' = Less(model, {a}) /\ rows' = RowsWithout(a)
    /\ Revise({}, {}) /\ UNCHANGED shelf

\* CreateWire, Bind, CreateContextBinding, Create.
AddRow(r) ==
    /\ ~Taken(r) /\ Begins(r) /\ r.on /\ r.owner # "none"
    /\ r.kind = "gear" => r.thing \in library
    /\ rows' = rows \cup {r}
    /\ Revise({}, {r}) /\ UNCHANGED <<model, shelf>>

\* DeleteWire, Unbind, DeleteContextBinding, Delete.
DeleteRow(r) ==
    /\ r \in rows
    /\ rows' = rows \ {r}
    /\ Revise({}, {}) /\ UNCHANGED <<model, shelf>>

PauseClock(r) ==
    /\ r \in rows /\ r.kind = "clock"
    /\ rows' = (rows \ {r}) \cup {[r EXCEPT !.on = ~@]}
    /\ Revise({}, {[r EXCEPT !.on = ~@]}) /\ UNCHANGED <<model, shelf>>

\* A gear leaves the catalogue, and with it its grants.
DeleteGear(g) ==
    /\ g \in library
    /\ library' = library \ {g} /\ rows' = {r \in rows : r.thing # g}
    /\ Revise({}, {}) /\ UNCHANGED <<model, offered>>

\* A model leaves it, and its agents have none.
DeleteModel(m) ==
    /\ m \in offered
    /\ offered' = offered \ {m}
    /\ model' = [a \in DOMAIN model |-> IF model[a] = m THEN "none" ELSE model[a]]
    /\ Revise({}, {}) /\ UNCHANGED <<rows, library>>

VersionNext ==
    \/ \E o \in Clerks : ClerkStep(o)
    \/ \E a \in Names : CreateAgent(a) \/ UpdateAgent(a) \/ DeleteAgent(a)
    \/ \E r \in AllRows : AddRow(r) \/ DeleteRow(r) \/ PauseClock(r)
    \/ \E g \in Gears : DeleteGear(g)
    \/ \E m \in Models : DeleteModel(m)
VersionSpec == VersionInit /\ [][VersionNext]_versionVars

------------------------------------------------------------------------------
(* Properties.                                                             *)

VersionTypeOK ==
    /\ Orchestrator \in DOMAIN model /\ DOMAIN model \subseteq Names
    /\ \A a \in DOMAIN model : model[a] \in offered \cup {"none"}
    /\ rows \subseteq AllRows
    /\ \A r \in rows : Begins(r)
    /\ \A q, r \in rows : Key(q) = Key(r) => q = r

\* What a rollback destroys can be had back: it is in a version, or somebody made it
\* after the rollback had begun, or it is a clock that starts no agent, which no
\* version records; unless some of what was there could not be read (snapshot.go Restore,
\* versions_drawer.go).
Destroys(o) == (RemoveOne(o) \/ DropOne(o)) /\ clerk[o].kept
DestroysOnlyWhatIsKept ==
    [][\A o \in Clerks : Destroys(o) =>
         /\ \A a \in DOMAIN model \ DOMAIN model' :
               a \in clerk[o].hired \/ \E n \in DOMAIN versions : a \in DOMAIN versions[n].model
         /\ \A r \in {q \in rows : Key(q) \notin {Key(p) : p \in rows'}} :
               \/ r \in clerk[o].since \/ \E n \in DOMAIN versions : r \in AsRecorded(versions[n]).rows
               \/ r.kind = "clock" /\ r.owner \notin Names]_versionVars

\* A rollback nobody interfered with leaves the agents and the rows of the version
\* it went back to and nothing else, but for what it says it could not put back,
\* clocks that were stopped and agents that had no model (snapshot.go Restore).
RollbackLands ==
    [][\A o \in Clerks : NoteRollback(o) /\ clerk[o].alone =>
         /\ DOMAIN model = DOMAIN Wanted(o).model
         /\ \A a \in DOMAIN model : Wanted(o).model[a] \in {model[a], "none"}
         /\ rows = {Drawn(r) : r \in Wanted(o).rows \ clerk[o].missing}]_versionVars

\* A workflow is not lost: what a rollback takes away is on record, and what it goes back
\* to is there (workflow/snapshot.go).
VersionsHold == DestroysOnlyWhatIsKept /\ RollbackLands

------------------------------------------------------------------------------
(* What the code says of itself and does not keep.                         *)

\* "Restore puts a workflow back to what a snapshot says it was" (snapshot.go:301):
\* what a rollback nobody interfered with does not report missing is as it was.
RestoreIsExact ==
    [][\A o \in Clerks : NoteRollback(o) /\ clerk[o].alone =>
         Wanted(o).rows \ clerk[o].missing = rows]_versionVars
==============================================================================
