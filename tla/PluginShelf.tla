------------------------------ MODULE PluginShelf ------------------------------
(***************************************************************************)
(* The plugins of an install: their directory and the enable list          *)
(* (plugin/store.go), the decisions about them (plugin/approval.go), the   *)
(* unpacking of a bundle (plugin/bundle.go), the requests of the plugins   *)
(* page (server/plugin_handlers.go), and what runs: the composed interface *)
(* (server/plugins.go) and the backends the boot started                   *)
(* (server/plugin_backend.go).                                             *)
(*                                                                         *)
(* One request at a time: the list is read and written back without a      *)
(* lock, and of two requests at once one is lost (README, Divergences).    *)
(* A digest stands for the bundle it was taken of.  The order a plugin's   *)
(* requirements force is LayerStack's.                                     *)
(***************************************************************************)
EXTENDS Naturals, Sequences, SequencesExt, FiniteSets

CONSTANTS
    Plugins,     \* ids
    Bundles,     \* archives: [id, version, edition, needs, renders]
    MaxShelved,  \* bound: requests
    MaxUnpacks   \* bound: installs, of which any step may fail, and crashes

ASSUME ShelfConstants ==
    /\ MaxShelved \in Nat /\ MaxUnpacks \in Nat /\ IsFiniteSet(Bundles)
    /\ Bundles \subseteq [id : Plugins, version : Nat \ {0}, edition : Nat,
                          needs : BOOLEAN, renders : BOOLEAN]

VARIABLES
    order,     \* plugins.order: the enable list
    current,   \* [Plugins -> the version recorded as installed, 0 for none]
    dirs,      \* [Plugins -> [Versions -> the bundle unpacked there]]
    digest,    \* [Plugins -> the bundle whose digest is recorded]
    approval,  \* [Plugins -> the version and the digest that were approved]
    composed,  \* the bundles of the composed interface, in layer order
    running,   \* the bundles whose backends the boot started
    desk,      \* the request in progress
    owed,      \* whether an answer since the boot said to restart
    passed,    \* whether an install touched a plugin of the list, of which it says nothing
    torn,      \* plugins an install of which ended between two of its steps
    agreed,    \* the bundles an approval was given to and not withdrawn
    shelved, unpacks

shelfVars == <<order, current, dirs, digest, approval, composed, running, desk, owed, passed,
               torn, agreed, shelved, unpacks>>

Nothing  == [id |-> "none", version |-> 0, edition |-> 0, needs |-> FALSE, renders |-> FALSE]
Versions == {b.version : b \in Bundles}
AtDesk   == [pc |-> "idle", id |-> "none", bundle |-> Nothing, restart |-> FALSE]
Bare(p)  == [v \in Versions |-> Nothing]
Undecided == [version |-> 0, digest |-> Nothing]

(* read: the recorded version, and a whole directory of it.                *)
Content(p)  == IF current[p] = 0 THEN Nothing ELSE dirs[p][current[p]]
Readable(p) == Content(p) # Nothing

(* Pending is empty: version and digest are the ones that were approved.   *)
Approved(p) == Readable(p) /\ approval[p] = [version |-> current[p], digest |-> digest[p]]
               /\ approval[p] # Undecided

(* loadPlugins: what is enabled and readable, without what cannot render.  *)
Composition ==
    FlattenSeq([i \in DOMAIN order |->
                  IF Content(order[i]).renders THEN <<Content(order[i])>> ELSE <<>>])

(* The enable list without p.                                              *)
Off(p) == FlattenSeq([i \in DOMAIN order |-> IF order[i] = p THEN <<>> ELSE <<order[i]>>])

(* needsRestart: something recomposing cannot reach.                       *)
NeedsRestart(p) == (\E b \in running : b.id = p) \/ Content(p).needs

(* An install whose plugins, if it has any, were installed, approved and enabled
   before this process came up.                                            *)
ShelfInit(stocks) ==
    \E stock \in stocks :
       /\ \A b, c \in stock : b.id = c.id => b = c
       /\ LET of(p) == IF \E b \in stock : b.id = p THEN CHOOSE b \in stock : b.id = p ELSE Nothing
          IN /\ current = [p \in Plugins |-> of(p).version] /\ digest = [p \in Plugins |-> of(p)]
             /\ dirs = [p \in Plugins |-> [Bare(p) EXCEPT ![of(p).version] = of(p)]]
             /\ approval = [p \in Plugins |-> [version |-> of(p).version, digest |-> of(p)]]
       /\ order \in SetToSeqs({b.id : b \in stock})
       /\ composed = Composition /\ running = {b \in ToSet(composed) : b.needs}
       /\ desk = AtDesk /\ owed = FALSE /\ passed = FALSE
       /\ torn = {} /\ agreed = stock /\ shelved = 0 /\ unpacks = 0

OnDisk  == <<order, current, dirs, digest, approval>>
Running == <<composed, running>>
Ghosts  == <<passed, torn, agreed>>

Ask(pc, p, b) ==
    /\ desk = AtDesk /\ shelved < MaxShelved /\ shelved' = shelved + 1
    /\ desk' = [pc |-> pc, id |-> p, bundle |-> b, restart |-> FALSE]
Go(pc) == desk' = [desk EXCEPT !.pc = pc]
Answer(restart) == desk' = AtDesk /\ owed' = (owed \/ restart)

------------------------------------------------------------------------------
(* Install, behind handleUploadPlugin.                                     *)

Unpack(b) ==
    /\ unpacks < MaxUnpacks /\ unpacks' = unpacks + 1
    /\ Ask("unpacked", b.id, b)
    /\ UNCHANGED <<OnDisk, Running, owed, Ghosts>>

\* Mutant of Place: the version is recorded before its directory is in place.
PlaceAfterCurrent ==
    /\ desk.pc = "unpacked"
    /\ LET b == desk.bundle IN
       IF current[b.id] # b.version
       THEN current' = [current EXCEPT ![b.id] = b.version] /\ UNCHANGED <<dirs, desk>>
       ELSE dirs' = [dirs EXCEPT ![b.id][b.version] = b] /\ Go("placed") /\ UNCHANGED current
    /\ UNCHANGED <<order, digest, approval, Running, owed, Ghosts, shelved, unpacks>>

\* The staging directory is renamed to where the version belongs.
Place ==
    /\ desk.pc \in {"unpacked", "cleared"}
    /\ LET b == desk.bundle IN
       \/ /\ desk.pc = "unpacked" /\ dirs[b.id][b.version] # Nothing
          /\ dirs' = [dirs EXCEPT ![b.id][b.version] = Nothing] /\ Go("cleared")
       \/ /\ dirs[b.id][b.version] = Nothing
          /\ dirs' = [dirs EXCEPT ![b.id][b.version] = b] /\ Go("placed")
    /\ UNCHANGED <<order, current, digest, approval, Running, owed, Ghosts, shelved, unpacks>>

SetCurrent ==
    /\ desk.pc = "placed"
    /\ current' = [current EXCEPT ![desk.id] = desk.bundle.version] /\ Go("recorded")
    /\ UNCHANGED <<order, dirs, digest, approval, Running, owed, Ghosts, shelved, unpacks>>

SetDigest ==
    /\ desk.pc = "recorded"
    /\ digest' = [digest EXCEPT ![desk.id] = desk.bundle] /\ Go("digested")
    /\ UNCHANGED <<order, current, dirs, approval, Running, owed, Ghosts, shelved, unpacks>>

\* Mutant of Shelve: the list is left as it is.
ShelveEnabled ==
    /\ desk.pc = "digested" /\ Answer(FALSE)
    /\ passed' = (passed \/ desk.id \in ToSet(order))
    /\ UNCHANGED <<OnDisk, Running, torn, agreed, shelved, unpacks>>

\* What is pending does not stay enabled.  Nothing is recomposed and no restart is owed.
Shelve ==
    /\ desk.pc = "digested" /\ Answer(FALSE)
    /\ order' = IF Approved(desk.id) THEN order ELSE Off(desk.id)
    /\ passed' = (passed \/ desk.id \in ToSet(order))
    /\ UNCHANGED torn
    /\ UNCHANGED <<current, dirs, digest, approval, Running, agreed, shelved, unpacks>>

\* A step fails and the upload is answered with its error.
InstallFails ==
    /\ desk.pc \in {"unpacked", "cleared", "placed", "recorded", "digested"} /\ Answer(FALSE)
    /\ torn' = IF desk.pc = "unpacked" THEN torn ELSE torn \cup {desk.id}
    /\ passed' = (passed \/ desk.id \in ToSet(order))
    /\ UNCHANGED <<OnDisk, Running, agreed, shelved, unpacks>>

------------------------------------------------------------------------------
(* The other requests: the disk first, then the interface, then the answer. *)

OnlyDesk == UNCHANGED <<running, torn, unpacks>>

\* Enable: readable, approved, and then last in the list.
Enable(p) ==
    /\ p \notin ToSet(order) /\ Readable(p) /\ Approved(p)
    /\ Ask("changed", p, Nothing) /\ order' = Append(order, p)
    /\ UNCHANGED <<current, dirs, digest, approval, composed, owed, passed, agreed>> /\ OnlyDesk

\* Disable: a plugin that cannot be read any more is answered 404 with the list written.
Disable(p) ==
    /\ p \in ToSet(order) /\ order' = Off(p)
    /\ Ask(IF Readable(p) THEN "changed" ELSE "gone", p, Nothing)
    /\ UNCHANGED <<current, dirs, digest, approval, composed, owed, passed, agreed>> /\ OnlyDesk

\* Reorder: what the page sends is the list it showed, in another order.
Reorder ==
    \E s \in [1..Len(order) -> Plugins] :
       /\ s # order /\ ToSet(s) = ToSet(order) /\ \A q \in ToSet(order) : Readable(q)
       /\ Ask("ordered", "none", Nothing) /\ order' = s
       /\ UNCHANGED <<current, dirs, digest, approval, composed, owed, passed, agreed>> /\ OnlyDesk

\* Approve: the version and the digest on the disk are what was decided about.
Approve(p) ==
    /\ desk = AtDesk /\ shelved < MaxShelved /\ shelved' = shelved + 1
    /\ Readable(p) /\ digest[p] # Nothing
    /\ approval' = [approval EXCEPT ![p] = [version |-> current[p], digest |-> digest[p]]]
    /\ agreed' = agreed \cup {Content(p)}
    /\ UNCHANGED <<order, current, dirs, digest, composed, desk, owed, passed>> /\ OnlyDesk

\* Whether a restart is owed is asked before anything is taken away.
Live(p) == \E b \in ToSet(composed) : b.id = p

\* Mutant of Withdraw: whether a restart is owed is not asked of a plugin being withdrawn.
WithdrawUnasked(p, how) ==
    /\ Ask(how, p, Nothing) /\ order' = Off(p)
    /\ UNCHANGED <<current, dirs, digest, approval, composed, owed, passed, agreed>> /\ OnlyDesk

\* Revoke and Remove: first out of the list.
Withdraw(p, how) ==
    /\ desk = AtDesk /\ shelved < MaxShelved /\ shelved' = shelved + 1
    /\ desk' = [pc |-> how, id |-> p, bundle |-> Nothing,
                restart |-> Live(p) /\ NeedsRestart(p)]
    /\ order' = Off(p)
    /\ UNCHANGED <<current, dirs, digest, approval, composed, owed, passed, agreed>> /\ OnlyDesk

\* Revoke: then the decision.
RevokeApproval ==
    /\ desk.pc = "revoking" /\ Go("withdrawn")
    /\ approval' = [approval EXCEPT ![desk.id] = Undecided]
    /\ agreed' = {b \in agreed : b.id # desk.id}
    /\ UNCHANGED <<order, current, dirs, digest, composed, owed, passed, shelved>> /\ OnlyDesk

\* Remove: then the directory, with the decision in it.
RemoveDir ==
    /\ desk.pc = "removing" /\ Go("withdrawn")
    /\ LET p == desk.id
       IN /\ current' = [current EXCEPT ![p] = 0] /\ dirs' = [dirs EXCEPT ![p] = Bare(p)]
          /\ digest' = [digest EXCEPT ![p] = Nothing]
          /\ approval' = [approval EXCEPT ![p] = Undecided]
          /\ agreed' = {b \in agreed : b.id # p}
    /\ UNCHANGED <<order, composed, owed, passed, shelved>> /\ OnlyDesk

\* recomposePlugins, and the answer.
Recompose ==
    /\ desk.pc \in {"changed", "ordered", "withdrawn"}
    /\ composed' = Composition
    /\ Answer(CASE desk.pc = "changed"   -> NeedsRestart(desk.id)
                [] desk.pc = "ordered"   -> FALSE
                [] desk.pc = "withdrawn" -> desk.restart)
    /\ UNCHANGED <<OnDisk, running, Ghosts, shelved, unpacks>>

\* The 404 of a plugin that was switched off and could not be read.
AnswerGone ==
    /\ desk.pc = "gone" /\ Answer(FALSE)
    /\ passed' = (passed \/ Live(desk.id) \/ \E b \in running : b.id = desk.id)
    /\ UNCHANGED <<OnDisk, Running, torn, agreed, shelved, unpacks>>

\* The process ends wherever it is and comes up again: New composes, then starts the
\* backends of what loaded.
ShelfRestart ==
    /\ unpacks < MaxUnpacks /\ unpacks' = unpacks + 1
    /\ torn' = IF desk.pc \in {"cleared", "placed", "recorded", "digested"}
               THEN torn \cup {desk.id} ELSE torn
    /\ composed' = Composition
    /\ running' = {b \in ToSet(composed') : b.needs}
    /\ desk' = AtDesk /\ owed' = FALSE /\ passed' = FALSE
    /\ UNCHANGED <<OnDisk, agreed, shelved>>

ShelfNext ==
    \/ \E b \in Bundles : Unpack(b)
    \/ Place \/ SetCurrent \/ SetDigest \/ Shelve \/ InstallFails
    \/ \E p \in Plugins : Enable(p) \/ Disable(p) \/ Approve(p)
    \/ \E p \in Plugins, how \in {"revoking", "removing"} : Withdraw(p, how)
    \/ Reorder \/ RevokeApproval \/ RemoveDir \/ Recompose \/ AnswerGone \/ ShelfRestart

ShelfSpec == ShelfInit(SUBSET Bundles) /\ [][ShelfNext]_shelfVars
------------------------------------------------------------------------------
ShelfTypeOK ==
    /\ order \in Seq(Plugins) /\ current \in [Plugins -> Versions \cup {0}]
    /\ dirs \in [Plugins -> [Versions -> Bundles \cup {Nothing}]]
    /\ digest \in [Plugins -> Bundles \cup {Nothing}]
    /\ composed \in Seq(Bundles) /\ running \subseteq Bundles
    /\ owed \in BOOLEAN /\ passed \in BOOLEAN /\ torn \subseteq Plugins /\ agreed \subseteq Bundles

(* As long as no answer said to restart, a restart would change nothing: the
   interface and the backends are what the disk says.  Installs are excepted, which
   take a live plugin off the list without recomposing.                    *)
RestartsAreOwed ==
    (desk = AtDesk /\ ~owed /\ ~passed) =>
       composed = Composition /\ running = {b \in ToSet(composed) : b.needs}

(* What renders was approved as the bytes it is, unless an install of it ended half-way. *)
ApprovedIsWhatRenders ==
    desk = AtDesk => \A b \in ToSet(composed) : b \in agreed \/ b.id \in torn

(* A plugin that can be read stays readable while another version is installed,
   whichever step fails or is the last before the process ends.            *)
InstalledStays ==
    \A p \in Plugins : (Readable(p) /\ ~Readable(p)') =>
        \/ desk.pc = "removing" /\ desk.id = p
        \/ desk.pc = "unpacked" /\ desk.id = p /\ desk.bundle.version = current[p]

(* What the plugins page promises: no restart is owed that no answer named, nothing
   renders that was not approved, and an update that fails leaves what there was. *)
ShelfIsSound ==
    /\ [](RestartsAreOwed /\ ApprovedIsWhatRenders)
    /\ [][InstalledStays]_shelfVars
==============================================================================
