----------------------------- MODULE ShelfProofs -----------------------------
(***************************************************************************)
(* What the plugins page promises (PluginShelf): no restart is owed that   *)
(* no answer named, nothing renders that was not approved, and an update   *)
(* that fails leaves what there was; for any plugins, bundles and bounds.  *)
(***************************************************************************)
EXTENDS PluginShelf, SequenceFacts, FiniteSetTheorems

Archives == Bundles \cup {Nothing}
DeskPCs  == {"idle", "unpacked", "cleared", "placed", "recorded", "digested", "changed", "ordered",
             "gone", "revoking", "removing", "withdrawn"}
DeskRecs == [pc : DeskPCs, id : Plugins \cup {"none"}, bundle : Archives, restart : BOOLEAN]

DiskTypes ==
    /\ order \in Seq(Plugins) /\ current \in [Plugins -> Versions \cup {0}]
    /\ dirs \in [Plugins -> [Versions -> Archives]]
    /\ digest \in [Plugins -> Archives]
    /\ approval \in [Plugins -> [version : Versions \cup {0}, digest : Archives]]
ShelfTypes ==
    /\ DiskTypes
    /\ composed \in Seq(Bundles) /\ running \in SUBSET Bundles /\ desk \in DeskRecs
    /\ owed \in BOOLEAN /\ passed \in BOOLEAN /\ torn \in SUBSET Plugins /\ agreed \in SUBSET Bundles

\* What is kept of a plugin is its own.
OwnBytes ==
    \A p \in Plugins :
       /\ \A v \in Versions : dirs[p][v] # Nothing => dirs[p][v].id = p /\ dirs[p][v].version = v
       /\ digest[p] # Nothing => digest[p].id = p
       /\ approval[p].digest # Nothing => approval[p].digest.id = p

Installing == desk.pc \in {"unpacked", "cleared", "placed", "recorded", "digested"}
MidWay(p)  == desk.id = p /\ desk.pc \in {"cleared", "placed", "recorded", "digested"}

\* How far the request in progress has come.
DeskFits ==
    /\ desk.pc = "idle" => desk = AtDesk
    /\ Installing => desk.bundle \in Bundles /\ desk.id = desk.bundle.id
    /\ desk.pc \in {"placed", "recorded", "digested"} => dirs[desk.id][desk.bundle.version] = desk.bundle
    /\ desk.pc \in {"recorded", "digested"} => current[desk.id] = desk.bundle.version
    /\ desk.pc = "digested" => digest[desk.id] = desk.bundle
    /\ desk.pc \in {"changed", "gone", "revoking", "removing", "withdrawn"} => desk.id \in Plugins
    /\ desk.pc \in {"gone", "revoking", "removing", "withdrawn"} => desk.id \notin ToSet(order)

\* An approval stands for bytes that were agreed to; what is on the disk is what its digest
\* says; what is on the list was agreed to.  An install of it that ended half-way excuses a plugin.
Agreement(p) ==
    p \notin torn =>
       /\ approval[p].digest # Nothing => approval[p].digest \in agreed
       /\ ~MidWay(p) /\ Readable(p) => digest[p] = Content(p)
       /\ ~MidWay(p) /\ p \in ToSet(order) /\ Content(p).renders => Content(p) \in agreed
Agreed == \A p \in Plugins : Agreement(p)
RendersAgreed == desk.pc # "withdrawn" => \A b \in ToSet(composed) : b \in agreed \/ b.id \in torn

\* The backends that run are those of the bundles on the list, but for those of these plugins.
InStepBut(X) == \A b \in Bundles : b.id \notin X => (b \in running <=> b \in ToSet(Composition) /\ b.needs)

\* As long as no answer said to restart, and no install of a plugin of the list was one.
OnlyOwed ==
    ~owed /\ ~passed =>
       /\ desk.pc \in {"idle", "gone"} => composed = Composition /\ InStepBut({})
       /\ Installing /\ desk.id \notin ToSet(order) => composed = Composition /\ InStepBut({})
       /\ desk.pc = "ordered" => InStepBut({})
       /\ desk.pc \in {"changed", "revoking", "removing", "withdrawn"} => InStepBut({desk.id})
       /\ desk.pc \in {"revoking", "removing", "withdrawn"} /\ ~desk.restart =>
             \A b \in running : b.id # desk.id

ShelfInv == ShelfTypes /\ OwnBytes /\ DeskFits /\ Agreed /\ RendersAgreed /\ OnlyOwed

------------------------------------------------------------------------------
(* The list, and what is composed of it.                                   *)

LEMMA NothingIs ==
    /\ Nothing.id = "none" /\ Nothing.version = 0 /\ Nothing.needs = FALSE /\ Nothing.renders = FALSE
    /\ Nothing \notin Bundles /\ 0 \notin Versions
    /\ \A b \in Bundles : /\ b.id \in Plugins /\ b.version \in Versions /\ b.version # 0
                          /\ b.needs \in BOOLEAN /\ b.renders \in BOOLEAN
<1>1. Nothing.id = "none" /\ Nothing.version = 0 /\ Nothing.needs = FALSE /\ Nothing.renders = FALSE
  BY DEF Nothing
<1>2. ASSUME NEW b \in Bundles
      PROVE  b.id \in Plugins /\ b.version # 0 /\ b.needs \in BOOLEAN /\ b.renders \in BOOLEAN
  BY ShelfConstants
<1>3. \A b \in Bundles : b.version \in Versions
  BY DEF Versions
<1>4. Nothing \notin Bundles
  BY <1>1, <1>2
<1>5. 0 \notin Versions
  BY <1>2 DEF Versions
<1> QED BY <1>1, <1>2, <1>3, <1>4, <1>5

LEMMA ContentTyped ==
    ASSUME DiskTypes, NEW p \in Plugins
    PROVE  Content(p) \in Archives
BY DEF DiskTypes, Content, Archives

\* What each plugin gives the composition.
Gives == [p \in Plugins |-> IF Content(p).renders THEN <<Content(p)>> ELSE <<>>]

LEMMA GivesTyped ==
    ASSUME DiskTypes
    PROVE  /\ Gives \in [Plugins -> Seq(Bundles)]
           /\ \A p \in Plugins : Len(Gives[p]) <= 1
           /\ Composition = Each(order, Gives)
<1>1. ASSUME NEW p \in Plugins
      PROVE  /\ IF Content(p).renders THEN Content(p) \in Bundles ELSE TRUE
             /\ Len(<<Content(p)>>) = 1 /\ Len(<<>>) = 0
  BY ContentTyped, NothingIs DEF Archives
<1>2. ASSUME NEW p \in Plugins PROVE Gives[p] \in Seq(Bundles) /\ Len(Gives[p]) <= 1
  <2>1. CASE Content(p).renders
    <3>1. Gives[p] = <<Content(p)>>
      BY <2>1 DEF Gives
    <3> QED BY <1>1, <2>1, <3>1
  <2>2. CASE ~Content(p).renders
    <3>1. Gives[p] = <<>>
      BY <2>2 DEF Gives
    <3> QED BY <1>1, <3>1
  <2> QED BY <2>1, <2>2
<1>3. Gives \in [Plugins -> Seq(Bundles)]
  <2>1. Gives = [p \in Plugins |-> Gives[p]]
    BY DEF Gives
  <2> QED BY <1>2, <2>1
<1>4. \A i \in DOMAIN order : order[i] \in Plugins
  BY DEF DiskTypes
<1>5. [i \in DOMAIN order |-> IF Content(order[i]).renders THEN <<Content(order[i])>> ELSE <<>>]
      = [i \in DOMAIN order |-> Gives[order[i]]]
  BY <1>4 DEF Gives
<1> QED BY <1>2, <1>3, <1>5 DEF Composition, Each

LEMMA CompositionHas ==
    ASSUME DiskTypes
    PROVE  /\ Composition \in Seq(Bundles)
           /\ \A b : b \in ToSet(Composition) <=>
                     \E p \in ToSet(order) : Content(p).renders /\ b = Content(p)
<1>1. Gives \in [Plugins -> Seq(Bundles)] /\ Composition = Each(order, Gives)
  BY GivesTyped
<1>a. Gives \in [Plugins -> Seq(Bundles)]
  BY <1>1
<1>2. \A p \in Plugins : Len(Gives[p]) <= 1
  BY GivesTyped
<1>d. Gives \in Choosing(Plugins, Bundles)
  BY <1>1, <1>2 DEF Choosing
<1>3. order \in Seq(Plugins) /\ \A p \in ToSet(order) : p \in Plugins
  BY DEF DiskTypes, ToSet
<1>b. order \in Seq(Plugins)
  BY <1>3
<1>4. Each(order, Gives) \in Seq(Bundles)
  BY <1>a, <1>b, EachTyped, Zenon
<1>5. ASSUME NEW b PROVE b \in ToSet(Each(order, Gives)) <=> \E p \in ToSet(order) : Gives[p] = <<b>>
  BY <1>b, <1>d, EachHas
<1>6. ASSUME NEW p \in ToSet(order), NEW b
      PROVE  (Gives[p] = <<b>>) <=> (Content(p).renders /\ b = Content(p))
  <2>1. Gives[p] = IF Content(p).renders THEN <<Content(p)>> ELSE <<>>
    BY <1>3 DEF Gives
  <2>2. <<b>> # <<>> /\ (<<Content(p)>> = <<b>> => Content(p) = b)
    <3>1. Len(<<b>>) = 1 /\ Len(<<>>) = 0 /\ <<b>>[1] = b /\ <<Content(p)>>[1] = Content(p)
      OBVIOUS
    <3> QED BY <3>1
  <2>3. CASE Content(p).renders
    BY <2>1, <2>2, <2>3
  <2>4. CASE ~Content(p).renders
    BY <2>1, <2>2, <2>4
  <2> QED BY <2>3, <2>4
<1> QED BY <1>1, <1>4, <1>5, <1>6

LEMMA OffIs ==
    ASSUME order \in Seq(Plugins), NEW p
    PROVE  Off(p) = Each(order, Sparing(Plugins, {p}))
<1>1. \A i \in DOMAIN order : order[i] \in Plugins
  OBVIOUS
<1>2. [i \in DOMAIN order |-> IF order[i] = p THEN <<>> ELSE <<order[i]>>]
      = [i \in DOMAIN order |-> Sparing(Plugins, {p})[order[i]]]
  BY <1>1 DEF Sparing
<1> QED BY <1>2 DEF Off, Each

LEMMA OffHas ==
    ASSUME order \in Seq(Plugins), NEW p
    PROVE  /\ Off(p) \in Seq(Plugins) /\ ToSet(Off(p)) = ToSet(order) \ {p}
           /\ p \notin ToSet(order) => Off(p) = order
<1>1. Off(p) = Each(order, Sparing(Plugins, {p}))
  BY OffIs
<1>2. Off(p) \in Seq(Plugins) /\ ToSet(Off(p)) = ToSet(order) \ {p}
  BY <1>1, Spares
<1>3. ASSUME p \notin ToSet(order) PROVE Off(p) = order
  <2>1. \A i \in 1..Len(order) : order[i] \notin {p}
    BY <1>3 DEF ToSet
  <2> QED BY <1>1, <2>1, SparesNone
<1> QED BY <1>2, <1>3

\* The composition is that of the list and of what is read of the plugins on it.
LEMMA CompositionSame ==
    ASSUME order' = order, \A p \in ToSet(order) : Content(p)' = Content(p)
    PROVE  Composition' = Composition
<1>1. \A i \in DOMAIN order : order[i] \in ToSet(order)
  BY DEF ToSet
<1>2. \A i \in DOMAIN order : Content(order[i])' = Content(order[i])
  BY <1>1
<1>3. [i \in DOMAIN order |-> IF Content(order[i]).renders THEN <<Content(order[i])>> ELSE <<>>]'
      = [i \in DOMAIN order |-> IF Content(order[i]).renders THEN <<Content(order[i])>> ELSE <<>>]
  BY <1>2
<1> QED BY <1>3 DEF Composition

\* A plugin that renders nothing is off the list without being missed.
LEMMA CompositionOff ==
    ASSUME DiskTypes, DiskTypes', NEW p \in Plugins, ~Content(p).renders,
           order' = Off(p), \A q \in Plugins : Content(q)' = Content(q)
    PROVE  Composition' = Composition
<1>2. Gives \in [Plugins -> Seq(Bundles)] /\ Composition = Each(order, Gives)
  BY GivesTyped
<1>3. Composition' = Each(order', Gives)
  <2>1. ASSUME NEW i \in DOMAIN order'
        PROVE  (IF Content(order[i]).renders THEN <<Content(order[i])>> ELSE <<>>)' = Gives[order'[i]]
    <3>1. order'[i] \in Plugins
      BY DEF DiskTypes
    <3>2. Content(order[i])' = Content(order'[i])
      BY <3>1 DEF Content
    <3> QED BY <3>1, <3>2 DEF Gives
  <2>2. [i \in DOMAIN order |-> IF Content(order[i]).renders THEN <<Content(order[i])>> ELSE <<>>]'
        = [i \in DOMAIN order' |-> Gives[order'[i]]]
    BY <2>1
  <2> QED BY <2>2 DEF Composition, Each
<1>4. order' = Each(order, Sparing(Plugins, {p})) /\ order \in Seq(Plugins)
  BY OffIs DEF DiskTypes
<1>a. Gives \in [Plugins -> Seq(Bundles)]
  BY <1>2
<1>b. order \in Seq(Plugins)
  BY <1>4
<1>5. PICK out : out = {p}
  OBVIOUS
<1>6. \A q \in Plugins : q \in out => Gives[q] = <<>>
  BY <1>5 DEF Gives
<1>7. Each(Each(order, Sparing(Plugins, out)), Gives) = Each(order, Gives)
  BY <1>a, <1>b, <1>6, SparesWhatGivesNone
<1> QED BY <1>2, <1>3, <1>4, <1>5, <1>7

------------------------------------------------------------------------------
(* How it begins.                                                          *)

LEMMA AtDeskIs ==
    /\ AtDesk.pc = "idle" /\ AtDesk.id = "none" /\ AtDesk.bundle = Nothing /\ AtDesk.restart = FALSE
    /\ AtDesk \in DeskRecs
BY DEF AtDesk, DeskRecs, DeskPCs, Archives

\* The backends in step are those of what the list composes to.
LEMMA InStepIs ==
    ASSUME DiskTypes, running \in SUBSET Bundles
    PROVE  InStepBut({}) <=> running = {b \in ToSet(Composition) : b.needs}
<1>1. \A b \in ToSet(Composition) : b \in Bundles
  BY CompositionHas DEF ToSet
<1>2. InStepBut({}) <=> \A b \in Bundles : (b \in running <=> b \in ToSet(Composition) /\ b.needs)
  BY DEF InStepBut
<1>3. (\A b \in Bundles : (b \in running <=> b \in ToSet(Composition) /\ b.needs))
      <=> running = {b \in ToSet(Composition) : b.needs}
  BY <1>1
<1> QED BY <1>2, <1>3

LEMMA ShelfBegins ==
    ASSUME NEW stocks \in SUBSET (SUBSET Bundles), ShelfInit(stocks)
    PROVE  ShelfInv
<1> DEFINE Of(S, p) == IF \E b \in S : b.id = p THEN CHOOSE b \in S : b.id = p ELSE Nothing
<1>1. PICK stock \in SUBSET Bundles :
         /\ \A b, c \in stock : b.id = c.id => b = c
         /\ current = [p \in Plugins |-> Of(stock, p).version] /\ digest = [p \in Plugins |-> Of(stock, p)]
         /\ dirs = [p \in Plugins |-> [Bare(p) EXCEPT ![Of(stock, p).version] = Of(stock, p)]]
         /\ approval = [p \in Plugins |-> [version |-> Of(stock, p).version, digest |-> Of(stock, p)]]
         /\ order \in SetToSeqs({b.id : b \in stock}) /\ agreed = stock
  BY DEF ShelfInit
<1>2. /\ composed = Composition /\ running = {b \in ToSet(composed) : b.needs}
      /\ desk = AtDesk /\ owed = FALSE /\ passed = FALSE /\ torn = {}
  BY DEF ShelfInit
<1> DEFINE of == [p \in Plugins |-> Of(stock, p)]
<1>3. ASSUME NEW p \in Plugins
      PROVE  /\ \/ of[p] = Nothing /\ \A b \in stock : b.id # p
                \/ of[p] \in stock /\ of[p].id = p
             /\ of[p] = Of(stock, p)
  <2>1. of[p] = Of(stock, p)
    OBVIOUS
  <2>2. CASE \E b \in stock : b.id = p
    <3>1. of[p] = CHOOSE b \in stock : b.id = p
      BY <2>1, <2>2
    <3> HIDE DEF of
    <3>2. of[p] \in stock /\ of[p].id = p
      BY <2>2, <3>1
    <3> QED BY <2>1, <3>2
  <2>3. CASE ~\E b \in stock : b.id = p
    <3>1. of[p] = Nothing
      BY <2>1, <2>3, Zenon
    <3>2. \A b \in stock : b.id # p
      BY <2>3
    <3> QED BY <2>1, <3>1, <3>2
  <2> QED BY <2>2, <2>3
<1> HIDE DEF of
<1>4. ASSUME NEW p \in Plugins
      PROVE  /\ of[p] \in Archives /\ of[p].version \in Versions \cup {0}
             /\ of[p] # Nothing => of[p] \in stock /\ of[p].id = p /\ of[p].version \in Versions /\ of[p].version # 0
             /\ of[p] = Nothing => of[p].version = 0
  BY <1>1, <1>3, NothingIs DEF Archives
<1>5. ASSUME NEW p \in Plugins
      PROVE  /\ current[p] = of[p].version /\ digest[p] = of[p]
             /\ approval[p] = [version |-> of[p].version, digest |-> of[p]]
             /\ dirs[p] = [v \in Versions |-> IF v = of[p].version THEN of[p] ELSE Nothing]
  <2>1. /\ current[p] = of[p].version /\ digest[p] = of[p]
        /\ approval[p] = [version |-> of[p].version, digest |-> of[p]]
        /\ dirs[p] = [Bare(p) EXCEPT ![of[p].version] = of[p]]
    BY <1>1, <1>3
  <2> QED BY <2>1 DEF Bare
<1>6. order \in Seq(Plugins) /\ \A p \in ToSet(order) : \E b \in stock : b.id = p
  <2> DEFINE I == {b.id : b \in stock}
  <2>1. IsFiniteSet(stock)
    BY <1>1, ShelfConstants, FS_Subset
  <2>2. IsFiniteSet(I)
    <3> DEFINE f == [b \in stock |-> b.id]
    <3>1. f \in Surjection(stock, I)
      BY DEF Surjection
    <3> QED BY <2>1, <3>1, FS_Surjection
  <2>3. Cardinality(I) \in Nat
    BY <2>2, FS_CardinalityType
  <2>4. order \in [1..Cardinality(I) -> I]
    BY <1>1 DEF SetToSeqs
  <2>5. I \in SUBSET Plugins
    BY <1>1, NothingIs
  <2> HIDE DEF I
  <2>6. order \in Seq(I)
    BY <2>3, <2>4
  <2>7. \A p \in ToSet(order) : p \in I
    BY <2>6 DEF ToSet
  <2>8. order \in Seq(Plugins)
    BY <2>5, <2>6
  <2> QED BY <2>7, <2>8 DEF I
<1>7. DiskTypes
  <2>1. ASSUME NEW p \in Plugins
        PROVE  /\ current[p] \in Versions \cup {0} /\ digest[p] \in Archives
               /\ approval[p] \in [version : Versions \cup {0}, digest : Archives]
    <3>1. of[p].version \in Versions \cup {0} /\ of[p] \in Archives
      BY <1>4
    <3>2. [version |-> of[p].version, digest |-> of[p]] \in [version : Versions \cup {0}, digest : Archives]
      BY <3>1
    <3> QED BY <1>5, <3>1, <3>2
  <2>2. ASSUME NEW p \in Plugins PROVE dirs[p] \in [Versions -> Archives]
    <3>1. of[p] \in Archives /\ Nothing \in Archives
      BY <1>4 DEF Archives
    <3>2. dirs[p] = [v \in Versions |-> IF v = of[p].version THEN of[p] ELSE Nothing]
      BY <1>5
    <3> QED BY <3>1, <3>2
  <2>3. /\ current = [p \in Plugins |-> current[p]] /\ digest = [p \in Plugins |-> digest[p]]
        /\ approval = [p \in Plugins |-> approval[p]] /\ dirs = [p \in Plugins |-> dirs[p]]
    BY <1>1
  <2> QED BY <1>6, <2>1, <2>2, <2>3 DEF DiskTypes
<1>8. ASSUME NEW p \in Plugins PROVE Content(p) = of[p]
  <2>1. CASE of[p] = Nothing
    BY <1>4, <1>5, <2>1 DEF Content
  <2>2. CASE of[p] # Nothing
    <3>1. /\ current[p] = of[p].version /\ of[p].version \in Versions /\ of[p].version # 0
          /\ dirs[p] = [v \in Versions |-> IF v = of[p].version THEN of[p] ELSE Nothing]
      BY <1>4, <1>5, <2>2
    <3> QED BY <3>1 DEF Content
  <2> QED BY <2>1, <2>2
<1>9. Composition \in Seq(Bundles) /\ \A b \in ToSet(Composition) : b \in agreed /\ b \in Bundles
  <2>1. \A b \in ToSet(Composition) : \E p \in ToSet(order) : Content(p).renders /\ b = Content(p)
    BY <1>7, CompositionHas
  <2>2. ASSUME NEW b \in ToSet(Composition) PROVE b \in agreed
    <3>1. PICK p \in ToSet(order) : Content(p).renders /\ b = Content(p)
      BY <2>1
    <3>2. p \in Plugins
      BY <1>6 DEF ToSet
    <3>3. of[p].renders /\ b = of[p]
      BY <1>8, <3>1, <3>2
    <3>4. of[p] # Nothing
      BY <3>3, NothingIs
    <3> QED BY <1>1, <1>4, <3>2, <3>3, <3>4
  <2> QED BY <1>1, <1>7, <2>2, CompositionHas
<1>10. ShelfTypes
  BY <1>1, <1>2, <1>7, <1>9, AtDeskIs DEF ShelfTypes
<1>11. OwnBytes
  <2> SUFFICES ASSUME NEW p \in Plugins
               PROVE  /\ \A v \in Versions : dirs[p][v] # Nothing => dirs[p][v].id = p /\ dirs[p][v].version = v
                      /\ digest[p] # Nothing => digest[p].id = p
                      /\ approval[p].digest # Nothing => approval[p].digest.id = p
    BY DEF OwnBytes
  <2>1. of[p] # Nothing => of[p].id = p
    BY <1>4
  <2>2. /\ digest[p] = of[p] /\ approval[p].digest = of[p]
        /\ \A v \in Versions : dirs[p][v] = IF v = of[p].version THEN of[p] ELSE Nothing
    <3>1. /\ digest[p] = of[p] /\ approval[p] = [version |-> of[p].version, digest |-> of[p]]
          /\ dirs[p] = [v \in Versions |-> IF v = of[p].version THEN of[p] ELSE Nothing]
      BY <1>5
    <3>2. approval[p].digest = of[p]
      BY <3>1
    <3>3. \A v \in Versions : dirs[p][v] = IF v = of[p].version THEN of[p] ELSE Nothing
      BY <3>1
    <3> QED BY <3>1, <3>2, <3>3
  <2> QED BY <2>1, <2>2
<1>12. DeskFits
  BY <1>2, AtDeskIs DEF DeskFits, Installing
<1>13. Agreed
  <2> SUFFICES ASSUME NEW p \in Plugins PROVE Agreement(p)
    BY DEF Agreed
  <2>1. approval[p].digest = of[p] /\ digest[p] = of[p] /\ Content(p) = of[p]
    <3>1. approval[p] = [version |-> of[p].version, digest |-> of[p]] /\ digest[p] = of[p]
      BY <1>5
    <3> QED BY <1>8, <3>1
  <2>2. of[p] # Nothing => of[p] \in agreed
    BY <1>1, <1>4
  <2>3. of[p].renders => of[p] # Nothing
    BY NothingIs
  <2> QED BY <2>1, <2>2, <2>3 DEF Agreement
<1>14. RendersAgreed
  BY <1>2, <1>9 DEF RendersAgreed
<1>15. OnlyOwed
  <2>1. InStepBut({})
    BY <1>2, <1>7, <1>10, InStepIs DEF ShelfTypes
  <2> QED BY <1>2, <2>1, AtDeskIs DEF OnlyOwed, Installing
<1> QED BY <1>10, <1>11, <1>12, <1>13, <1>14, <1>15 DEF ShelfInv

------------------------------------------------------------------------------
(* The steps that leave the disk as it is.                                 *)

LEMMA DeskAsked ==
    ASSUME NEW pc \in DeskPCs, NEW p \in Plugins \cup {"none"}, NEW b \in Archives, Ask(pc, p, b)
    PROVE  /\ desk = AtDesk /\ desk' \in DeskRecs
           /\ desk'.pc = pc /\ desk'.id = p /\ desk'.bundle = b /\ desk'.restart = FALSE
BY DEF Ask, DeskRecs

LEMMA DeskGoes ==
    ASSUME ShelfTypes, NEW pc \in DeskPCs, Go(pc)
    PROVE  /\ desk' \in DeskRecs /\ desk'.pc = pc
           /\ desk'.id = desk.id /\ desk'.bundle = desk.bundle /\ desk'.restart = desk.restart
BY DEF ShelfTypes, DeskRecs, Go

LEMMA DiskStays ==
    ASSUME DiskTypes, UNCHANGED OnDisk
    PROVE  /\ DiskTypes' /\ Composition' = Composition
           /\ \A p \in Plugins : Content(p)' = Content(p)
           /\ OwnBytes => OwnBytes'
<1>1. \A p : Content(p)' = Content(p)
  BY DEF OnDisk, Content
<1>2. Composition' = Composition
  BY <1>1, CompositionSame DEF OnDisk
<1>3. DiskTypes'
  BY DEF OnDisk, DiskTypes
<1>4. OwnBytes => OwnBytes'
  BY DEF OnDisk, OwnBytes
<1> QED BY <1>1, <1>2, <1>3, <1>4

LEMMA AgreementStays ==
    ASSUME ShelfInv, UNCHANGED OnDisk, agreed' = agreed, torn \subseteq torn',
           \A p \in Plugins : MidWay(p) => MidWay(p)' \/ p \in torn'
    PROVE  Agreed'
<1> SUFFICES ASSUME NEW p \in Plugins PROVE Agreement(p)'
  BY DEF Agreed
<1>1. Agreement(p) /\ DiskTypes
  BY DEF ShelfInv, ShelfTypes, Agreed
<1>2. /\ Content(p)' = Content(p) /\ Readable(p)' = Readable(p)
      /\ approval' = approval /\ digest' = digest /\ order' = order
  BY <1>1, DiskStays DEF Readable, OnDisk
<1> QED BY <1>1, <1>2 DEF Agreement

LEMMA UnpackKeeps ==
    ASSUME ShelfInv, NEW b \in Bundles, Unpack(b)
    PROVE  ShelfInv'
<1>1. /\ UNCHANGED OnDisk /\ composed' = composed /\ running' = running /\ owed' = owed
      /\ passed' = passed /\ torn' = torn /\ agreed' = agreed /\ Ask("unpacked", b.id, b)
  BY DEF Unpack, Running, Ghosts
<1>2. /\ desk = AtDesk /\ desk' \in DeskRecs /\ desk'.pc = "unpacked" /\ desk'.id = b.id /\ desk'.bundle = b
  BY <1>1, DeskAsked, NothingIs DEF DeskPCs, Archives
<1>3. ShelfTypes /\ OwnBytes /\ DiskTypes
  BY DEF ShelfInv, ShelfTypes
<1>4. DiskTypes' /\ Composition' = Composition /\ OwnBytes'
  BY <1>1, <1>3, DiskStays
<1>5. ShelfTypes'
  BY <1>1, <1>2, <1>3, <1>4 DEF ShelfTypes
<1>6. DeskFits'
  BY <1>2 DEF DeskFits, Installing
<1>7. Agreed'
  BY <1>1, <1>2, AgreementStays, AtDeskIs DEF MidWay
<1>8. RendersAgreed'
  BY <1>1, <1>2, AtDeskIs DEF ShelfInv, RendersAgreed
<1>9. OnlyOwed'
  BY <1>1, <1>2, <1>4, AtDeskIs DEF ShelfInv, OnlyOwed, InStepBut
<1> QED BY <1>4, <1>5, <1>6, <1>7, <1>8, <1>9 DEF ShelfInv

LEMMA InstallFailsKeeps ==
    ASSUME ShelfInv, InstallFails
    PROVE  ShelfInv'
<1>1. /\ UNCHANGED OnDisk /\ composed' = composed /\ running' = running /\ agreed' = agreed
      /\ passed' = (passed \/ desk.id \in ToSet(order))
      /\ torn' = IF desk.pc = "unpacked" THEN torn ELSE torn \cup {desk.id}
      /\ Installing /\ desk' = AtDesk /\ owed' = (owed \/ FALSE)
  BY DEF InstallFails, Running, Installing, Answer
<1>2. ShelfTypes /\ OwnBytes /\ DiskTypes /\ desk.id \in Plugins
  BY <1>1, NothingIs DEF ShelfInv, ShelfTypes, DeskFits
<1>3. DiskTypes' /\ Composition' = Composition /\ OwnBytes'
  BY <1>1, <1>2, DiskStays
<1>4. torn' \in SUBSET Plugins /\ torn \subseteq torn' /\ (desk.pc # "unpacked" => desk.id \in torn')
  BY <1>1, <1>2 DEF ShelfTypes
<1>5. owed' = owed /\ passed' \in BOOLEAN /\ (~passed' => ~passed /\ desk.id \notin ToSet(order))
  BY <1>1, <1>2 DEF ShelfTypes
<1>6. ShelfTypes'
  BY <1>1, <1>2, <1>3, <1>4, <1>5, AtDeskIs DEF ShelfTypes
<1>7. DeskFits'
  BY <1>1, AtDeskIs DEF DeskFits, Installing
<1>8. Agreed'
  <2>1. \A p \in Plugins : MidWay(p) => p \in torn'
    BY <1>4 DEF MidWay
  <2> QED BY <1>1, <1>4, <2>1, AgreementStays
<1>9. RendersAgreed'
  <2>1. \A b \in ToSet(composed) : b \in agreed \/ b.id \in torn
    BY <1>1 DEF ShelfInv, RendersAgreed, Installing
  <2> QED BY <1>1, <1>4, <2>1 DEF RendersAgreed
<1>10. OnlyOwed'
  <2> SUFFICES ASSUME ~owed', ~passed' PROVE composed' = Composition' /\ InStepBut({})'
    BY <1>1, AtDeskIs DEF OnlyOwed, Installing
  <2>1. composed = Composition /\ InStepBut({})
    BY <1>1, <1>5 DEF ShelfInv, OnlyOwed
  <2> QED BY <1>1, <1>3, <2>1 DEF InStepBut
<1> QED BY <1>3, <1>6, <1>7, <1>8, <1>9, <1>10 DEF ShelfInv

\* What the list composes to was agreed to, but for what is torn or on its way.
LEMMA ComposedAgreed ==
    ASSUME ShelfInv, NEW b \in ToSet(Composition)
    PROVE  /\ b \in Bundles
           /\ b.id \in ToSet(order) /\ b.id \in Plugins /\ b = Content(b.id)
           /\ b \in agreed \/ b.id \in torn \/ MidWay(b.id)
<1>1. DiskTypes
  BY DEF ShelfInv, ShelfTypes
<1>2. Composition \in Seq(Bundles) /\ \E p \in ToSet(order) : Content(p).renders /\ b = Content(p)
  BY <1>1, CompositionHas
<1>3. PICK p \in ToSet(order) : Content(p).renders /\ b = Content(p)
  BY <1>2
<1>4. b \in Bundles /\ p \in Plugins
  BY <1>1, <1>2 DEF ToSet, DiskTypes
<1>5. b # Nothing
  BY <1>4, NothingIs
<1>6. b.id = p
  BY <1>1, <1>3, <1>4, <1>5 DEF ShelfInv, OwnBytes, Content, DiskTypes
<1>7. Agreement(p)
  BY <1>4 DEF ShelfInv, Agreed
<1> QED BY <1>3, <1>4, <1>6, <1>7 DEF Agreement

LEMMA RecomposeKeeps ==
    ASSUME ShelfInv, Recompose
    PROVE  ShelfInv'
<1>1. /\ UNCHANGED OnDisk /\ composed' = Composition /\ running' = running /\ agreed' = agreed
      /\ passed' = passed /\ torn' = torn /\ desk' = AtDesk
      /\ desk.pc \in {"changed", "ordered", "withdrawn"}
      /\ desk.pc = "changed" => owed' = (owed \/ NeedsRestart(desk.id))
      /\ desk.pc = "ordered" => owed' = (owed \/ FALSE)
      /\ desk.pc = "withdrawn" => owed' = (owed \/ desk.restart)
  BY DEF Recompose, Ghosts, Answer
<1>2. ShelfTypes /\ OwnBytes /\ DiskTypes
  BY DEF ShelfInv, ShelfTypes
<1>3. DiskTypes' /\ Composition' = Composition /\ OwnBytes' /\ Composition \in Seq(Bundles)
  BY <1>1, <1>2, DiskStays, CompositionHas
<1>4. owed' \in BOOLEAN /\ (owed => owed')
  BY <1>1, <1>2 DEF ShelfTypes, NeedsRestart, DeskRecs
<1>5. ShelfTypes'
  BY <1>1, <1>2, <1>3, <1>4, AtDeskIs DEF ShelfTypes
<1>6. DeskFits'
  BY <1>1, AtDeskIs DEF DeskFits, Installing
<1>7. Agreed'
  BY <1>1, AgreementStays DEF MidWay
<1>8. RendersAgreed'
  <2>1. \A b \in ToSet(Composition) : b \in agreed \/ b.id \in torn
    BY <1>1, ComposedAgreed DEF MidWay
  <2> QED BY <1>1, <2>1 DEF RendersAgreed
<1>9. OnlyOwed'
  <2> SUFFICES ASSUME ~owed', ~passed' PROVE InStepBut({})'
    BY <1>1, <1>3, AtDeskIs DEF OnlyOwed, Installing
  <2>1. ~owed /\ ~passed
    BY <1>1, <1>4
  <2>2. CASE desk.pc = "ordered"
    BY <1>1, <1>3, <2>1, <2>2 DEF ShelfInv, OnlyOwed, InStepBut
  <2>3. CASE desk.pc \in {"changed", "withdrawn"}
    <3>1. InStepBut({desk.id})
      BY <2>1, <2>3 DEF ShelfInv, OnlyOwed
    <3>2. \A b \in running : b.id # desk.id
      BY <1>1, <2>1, <2>3 DEF ShelfInv, OnlyOwed, NeedsRestart
    <3>3. ASSUME NEW b \in ToSet(Composition), b.id = desk.id PROVE ~b.needs
      <4>1. b.id \in ToSet(order) /\ b = Content(b.id)
        BY ComposedAgreed
      <4>2. desk.pc = "changed"
        BY <2>3, <3>3, <4>1 DEF ShelfInv, DeskFits
      <4> QED BY <1>1, <3>3, <4>1, <4>2 DEF NeedsRestart
    <3>4. ASSUME NEW b \in Bundles PROVE b \in running <=> b \in ToSet(Composition) /\ b.needs
      <4>1. CASE b.id = desk.id
        BY <3>2, <3>3, <4>1
      <4>2. CASE b.id # desk.id
        BY <3>1, <4>2 DEF InStepBut
      <4> QED BY <4>1, <4>2
    <3> QED BY <1>1, <1>3, <3>4 DEF InStepBut
  <2> QED BY <1>1, <2>2, <2>3
<1> QED BY <1>3, <1>5, <1>6, <1>7, <1>8, <1>9 DEF ShelfInv

LEMMA AnswerGoneKeeps ==
    ASSUME ShelfInv, AnswerGone
    PROVE  ShelfInv'
<1>1. /\ UNCHANGED OnDisk /\ composed' = composed /\ running' = running /\ agreed' = agreed
      /\ torn' = torn /\ desk' = AtDesk /\ desk.pc = "gone" /\ owed' = (owed \/ FALSE)
      /\ passed' = (passed \/ Live(desk.id) \/ \E b \in running : b.id = desk.id)
  BY DEF AnswerGone, Answer, Running
<1>2. ShelfTypes /\ OwnBytes /\ DiskTypes
  BY DEF ShelfInv, ShelfTypes
<1>3. DiskTypes' /\ Composition' = Composition /\ OwnBytes'
  BY <1>1, <1>2, DiskStays
<1>4. owed' = owed /\ passed' \in BOOLEAN /\ (passed => passed')
  BY <1>1, <1>2 DEF ShelfTypes, Live
<1>5. ShelfTypes'
  BY <1>1, <1>2, <1>3, <1>4, AtDeskIs DEF ShelfTypes
<1>6. DeskFits'
  BY <1>1, AtDeskIs DEF DeskFits, Installing
<1>7. Agreed'
  BY <1>1, AgreementStays DEF MidWay
<1>8. RendersAgreed'
  BY <1>1 DEF ShelfInv, RendersAgreed
<1>9. OnlyOwed'
  <2> SUFFICES ASSUME ~owed', ~passed' PROVE composed' = Composition' /\ InStepBut({})'
    BY <1>1, AtDeskIs DEF OnlyOwed, Installing
  <2>1. composed = Composition /\ InStepBut({})
    BY <1>1, <1>4 DEF ShelfInv, OnlyOwed
  <2> QED BY <1>1, <1>3, <2>1 DEF InStepBut
<1> QED BY <1>3, <1>5, <1>6, <1>7, <1>8, <1>9 DEF ShelfInv

LEMMA ShelfRestartKeeps ==
    ASSUME ShelfInv, ShelfRestart
    PROVE  ShelfInv'
<1>1. /\ UNCHANGED OnDisk /\ composed' = Composition /\ running' = {b \in ToSet(composed') : b.needs}
      /\ agreed' = agreed /\ desk' = AtDesk /\ owed' = FALSE /\ passed' = FALSE
      /\ torn' = IF desk.pc \in {"cleared", "placed", "recorded", "digested"}
                  THEN torn \cup {desk.id} ELSE torn
  BY DEF ShelfRestart
<1>2. ShelfTypes /\ OwnBytes /\ DiskTypes
  BY DEF ShelfInv, ShelfTypes
<1>3. DiskTypes' /\ Composition' = Composition /\ OwnBytes' /\ Composition \in Seq(Bundles)
  BY <1>1, <1>2, DiskStays, CompositionHas
<1>4. /\ torn' \in SUBSET Plugins /\ torn \subseteq torn'
      /\ \A p : MidWay(p) => p \in torn'
  <2>1. CASE desk.pc \in {"cleared", "placed", "recorded", "digested"}
    <3>1. desk.id \in Plugins
      BY <2>1, NothingIs DEF ShelfInv, DeskFits, Installing
    <3> QED BY <1>1, <1>2, <2>1, <3>1 DEF ShelfTypes, MidWay
  <2>2. CASE desk.pc \notin {"cleared", "placed", "recorded", "digested"}
    BY <1>1, <1>2, <2>2 DEF ShelfTypes, MidWay
  <2> QED BY <2>1, <2>2
<1>5. \A b \in ToSet(Composition) : b \in Bundles /\ (b \in agreed \/ b.id \in torn')
  BY <1>4, ComposedAgreed
<1>6. ShelfTypes'
  BY <1>1, <1>2, <1>3, <1>4, <1>5, AtDeskIs DEF ShelfTypes
<1>7. DeskFits'
  BY <1>1, AtDeskIs DEF DeskFits, Installing
<1>8. Agreed'
  BY <1>1, <1>4, AgreementStays
<1>9. RendersAgreed'
  BY <1>1, <1>5 DEF RendersAgreed
<1>10. OnlyOwed'
  <2>1. InStepBut({})'
    BY <1>1, <1>3, <1>5 DEF InStepBut
  <2> QED BY <1>1, <1>3, <2>1, AtDeskIs DEF OnlyOwed, Installing
<1> QED BY <1>3, <1>6, <1>7, <1>8, <1>9, <1>10 DEF ShelfInv

------------------------------------------------------------------------------
(* The steps of an install.                                                *)

\* An install touches nothing but what is kept of its plugin until it is answered.
LEMMA InstallStepKeeps ==
    ASSUME NEW pc \in {"cleared", "placed", "recorded", "digested"},
           ShelfInv, Installing, Go(pc), DiskTypes', OwnBytes', DeskFits',
           order' = order, approval' = approval, UNCHANGED Running, UNCHANGED Ghosts, owed' = owed,
           \A q \in Plugins : q # desk.id => Content(q)' = Content(q) /\ digest'[q] = digest[q]
    PROVE  ShelfInv'
<1>1. ShelfTypes /\ DiskTypes
  BY DEF ShelfInv, ShelfTypes
<1>2. /\ composed' = composed /\ running' = running /\ torn' = torn /\ agreed' = agreed /\ passed' = passed
  BY DEF Running, Ghosts
<1>3. desk' \in DeskRecs /\ desk'.pc = pc /\ desk'.id = desk.id
  BY <1>1, DeskGoes DEF DeskPCs
<1>4. ShelfTypes'
  BY <1>1, <1>2, <1>3 DEF ShelfTypes
<1>5. Agreed'
  <2> SUFFICES ASSUME NEW p \in Plugins PROVE Agreement(p)'
    BY DEF Agreed
  <2>1. Agreement(p)
    BY DEF ShelfInv, Agreed
  <2>2. CASE p = desk.id
    BY <1>2, <1>3, <2>1, <2>2 DEF Agreement, MidWay
  <2>3. CASE p # desk.id
    <3>1. Content(p)' = Content(p) /\ digest'[p] = digest[p] /\ Readable(p)' = Readable(p)
      BY <2>3 DEF Readable
    <3>2. ~MidWay(p) /\ ~MidWay(p)'
      BY <1>3, <2>3 DEF MidWay
    <3> QED BY <1>2, <2>1, <3>1, <3>2 DEF Agreement
  <2> QED BY <2>2, <2>3
<1>6. RendersAgreed'
  BY <1>2, <1>3 DEF ShelfInv, RendersAgreed, Installing
<1>7. OnlyOwed'
  <2> SUFFICES ASSUME ~owed', ~passed', desk'.id \notin ToSet(order') PROVE composed' = Composition' /\ InStepBut({})'
    BY <1>3 DEF OnlyOwed, Installing
  <2>1. composed = Composition /\ InStepBut({})
    BY <1>2, <1>3 DEF ShelfInv, OnlyOwed
  <2>2. \A q \in ToSet(order) : q \in Plugins /\ q # desk.id
    BY <1>1, <1>3 DEF DiskTypes, ToSet
  <2>3. Composition' = Composition
    BY <2>2, CompositionSame
  <2> QED BY <1>2, <2>1, <2>3 DEF InStepBut
<1> QED BY <1>4, <1>5, <1>6, <1>7 DEF ShelfInv

LEMMA PlaceKeeps ==
    ASSUME ShelfInv, Place
    PROVE  ShelfInv'
<1>1. /\ order' = order /\ approval' = approval /\ UNCHANGED Running /\ UNCHANGED Ghosts /\ owed' = owed
      /\ current' = current /\ digest' = digest /\ desk.pc \in {"unpacked", "cleared"} /\ Installing
  BY DEF Place, Installing
<1>2. ShelfTypes /\ DiskTypes /\ OwnBytes
  BY DEF ShelfInv, ShelfTypes
<1>3. PICK b \in Bundles : desk.bundle = b /\ desk.id = b.id
  BY <1>1 DEF ShelfInv, DeskFits
<1>4. b.id \in Plugins /\ b.version \in Versions
  BY NothingIs
<1>5. PICK pc \in {"cleared", "placed"}, x \in {Nothing, b} :
         Go(pc) /\ dirs' = [dirs EXCEPT ![b.id][b.version] = x] /\ (pc = "placed" => x = b)
  BY <1>3 DEF Place
<1>6. ASSUME NEW q \in Plugins, NEW v \in Versions
      PROVE  dirs'[q][v] = IF q = b.id /\ v = b.version THEN x ELSE dirs[q][v]
  BY <1>2, <1>4, <1>5 DEF DiskTypes
<1>7. DiskTypes'
  <2>1. x \in Archives /\ dirs \in [Plugins -> [Versions -> Archives]]
    BY <1>2, <1>5 DEF DiskTypes, Archives
  <2>2. dirs' \in [Plugins -> [Versions -> Archives]]
    BY <1>4, <1>5, <2>1
  <2> QED BY <1>1, <1>2, <2>2 DEF DiskTypes
<1>8. OwnBytes'
  <2>1. \A q \in Plugins, v \in Versions :
           dirs'[q][v] # Nothing => dirs'[q][v].id = q /\ dirs'[q][v].version = v
    BY <1>2, <1>5, <1>6 DEF OwnBytes
  <2> QED BY <1>1, <1>2, <2>1 DEF OwnBytes
<1>9. desk'.pc = pc /\ desk'.id = b.id /\ desk'.bundle = b
  BY <1>2, <1>3, <1>5, DeskGoes DEF DeskPCs
<1>10. DeskFits'
  <2>1. pc = "placed" => dirs'[b.id][b.version] = b
    BY <1>4, <1>5, <1>6
  <2> QED BY <1>9, <2>1 DEF DeskFits, Installing
<1>11. \A q \in Plugins : q # desk.id => Content(q)' = Content(q)
  <2> SUFFICES ASSUME NEW q \in Plugins, q # desk.id PROVE Content(q)' = Content(q)
    OBVIOUS
  <2>1. current[q] # 0 => current[q] \in Versions
    BY <1>2 DEF DiskTypes
  <2> QED BY <1>1, <1>3, <1>6, <2>1 DEF Content
<1> QED BY <1>1, <1>5, <1>7, <1>8, <1>10, <1>11, InstallStepKeeps

LEMMA SetCurrentKeeps ==
    ASSUME ShelfInv, SetCurrent
    PROVE  ShelfInv'
<1>1. /\ order' = order /\ approval' = approval /\ UNCHANGED Running /\ UNCHANGED Ghosts /\ owed' = owed
      /\ dirs' = dirs /\ digest' = digest /\ desk.pc = "placed" /\ Installing /\ Go("recorded")
      /\ current' = [current EXCEPT ![desk.id] = desk.bundle.version]
  BY DEF SetCurrent, Installing
<1>2. ShelfTypes /\ DiskTypes /\ OwnBytes
  BY DEF ShelfInv, ShelfTypes
<1>3. PICK b \in Bundles : desk.bundle = b /\ desk.id = b.id
  BY <1>1 DEF ShelfInv, DeskFits
<1>4. b.id \in Plugins /\ b.version \in Versions
  BY NothingIs
<1>5. DiskTypes' /\ OwnBytes'
  BY <1>1, <1>2, <1>3, <1>4 DEF DiskTypes, OwnBytes
<1>6. desk'.pc = "recorded" /\ desk'.id = b.id /\ desk'.bundle = b
  BY <1>1, <1>2, <1>3, DeskGoes DEF DeskPCs
<1>7. current'[b.id] = b.version /\ \A q \in Plugins : q # desk.id => current'[q] = current[q]
  BY <1>1, <1>2, <1>3, <1>4 DEF DiskTypes
<1>8. DeskFits'
  <2>1. dirs[b.id][b.version] = b
    BY <1>1, <1>3 DEF ShelfInv, DeskFits
  <2> QED BY <1>1, <1>6, <1>7, <2>1 DEF DeskFits, Installing
<1>9. \A q \in Plugins : q # desk.id => Content(q)' = Content(q)
  BY <1>1, <1>7 DEF Content
<1> QED BY <1>1, <1>5, <1>8, <1>9, InstallStepKeeps

LEMMA SetDigestKeeps ==
    ASSUME ShelfInv, SetDigest
    PROVE  ShelfInv'
<1>1. /\ order' = order /\ approval' = approval /\ UNCHANGED Running /\ UNCHANGED Ghosts /\ owed' = owed
      /\ dirs' = dirs /\ current' = current /\ desk.pc = "recorded" /\ Installing /\ Go("digested")
      /\ digest' = [digest EXCEPT ![desk.id] = desk.bundle]
  BY DEF SetDigest, Installing
<1>2. ShelfTypes /\ DiskTypes /\ OwnBytes
  BY DEF ShelfInv, ShelfTypes
<1>3. PICK b \in Bundles : desk.bundle = b /\ desk.id = b.id
  BY <1>1 DEF ShelfInv, DeskFits
<1>4. b.id \in Plugins /\ b \in Archives
  BY NothingIs DEF Archives
<1>5. DiskTypes' /\ OwnBytes'
  BY <1>1, <1>2, <1>3, <1>4 DEF DiskTypes, OwnBytes
<1>6. desk'.pc = "digested" /\ desk'.id = b.id /\ desk'.bundle = b
  BY <1>1, <1>2, <1>3, DeskGoes DEF DeskPCs
<1>7. digest'[b.id] = b /\ \A q \in Plugins : q # desk.id => digest'[q] = digest[q]
  BY <1>1, <1>2, <1>3, <1>4 DEF DiskTypes
<1>8. DeskFits'
  <2>1. dirs[b.id][b.version] = b /\ current[b.id] = b.version
    BY <1>1, <1>3 DEF ShelfInv, DeskFits
  <2> QED BY <1>1, <1>6, <1>7, <2>1 DEF DeskFits, Installing
<1>9. \A q \in Plugins : q # desk.id => Content(q)' = Content(q)
  BY <1>1 DEF Content
<1> QED BY <1>1, <1>5, <1>7, <1>8, <1>9, InstallStepKeeps

\* What is pending is off the list: an approval on the record is one of the bytes unpacked.
LEMMA ShelveKeeps ==
    ASSUME ShelfInv, Shelve
    PROVE  ShelfInv'
<1>1. /\ desk.pc = "digested" /\ Installing /\ desk' = AtDesk /\ owed' = (owed \/ FALSE)
      /\ order' = IF Approved(desk.id) THEN order ELSE Off(desk.id)
      /\ passed' = (passed \/ desk.id \in ToSet(order))
      /\ torn' = torn /\ current' = current /\ dirs' = dirs /\ digest' = digest /\ approval' = approval
      /\ composed' = composed /\ running' = running /\ agreed' = agreed
  BY DEF Shelve, Answer, Running, Installing
<1>2. ShelfTypes /\ DiskTypes /\ OwnBytes
  BY DEF ShelfInv, ShelfTypes
<1>3. PICK b \in Bundles :
         /\ desk.bundle = b /\ desk.id = b.id /\ dirs[b.id][b.version] = b
         /\ current[b.id] = b.version /\ digest[b.id] = b
  BY <1>1 DEF ShelfInv, DeskFits, Installing
<1>4. b.id \in Plugins /\ b # Nothing /\ b.version # 0
  BY NothingIs
<1>5. /\ order' \in Seq(Plugins) /\ (desk.id \notin ToSet(order) => order' = order)
      /\ ToSet(order') \subseteq ToSet(order)
      /\ ~Approved(b.id) => b.id \notin ToSet(order')
  <2>1. order \in Seq(Plugins)
    BY <1>2 DEF DiskTypes
  <2>2. /\ Off(b.id) \in Seq(Plugins) /\ ToSet(Off(b.id)) = ToSet(order) \ {b.id}
        /\ b.id \notin ToSet(order) => Off(b.id) = order
    BY <2>1, OffHas
  <2> QED BY <1>1, <1>3, <2>1, <2>2
<1>6. owed' = owed /\ passed' \in BOOLEAN /\ (~passed' => ~passed /\ desk.id \notin ToSet(order))
  BY <1>1, <1>2 DEF ShelfTypes
<1>7. DiskTypes'
  BY <1>1, <1>2, <1>5 DEF DiskTypes
<1>8. ShelfTypes'
  BY <1>1, <1>2, <1>6, <1>7, AtDeskIs DEF ShelfTypes
<1>9. OwnBytes'
  BY <1>1, <1>2 DEF OwnBytes
<1>10. DeskFits'
  BY <1>1, AtDeskIs DEF DeskFits, Installing
<1>11. \A q : Content(q)' = Content(q)
  BY <1>1 DEF Content
<1>12. Agreed'
  <2> SUFFICES ASSUME NEW p \in Plugins PROVE Agreement(p)'
    BY DEF Agreed
  <2>1. Agreement(p)
    BY DEF ShelfInv, Agreed
  <2>2. Readable(p)' = Readable(p) /\ Content(p)' = Content(p)
    BY <1>11 DEF Readable
  <2>3. CASE p # b.id
    BY <1>1, <1>3, <1>5, <2>1, <2>2, <2>3 DEF Agreement, MidWay
  <2>4. CASE p = b.id
    <3>1. Content(p) = b
      BY <1>3, <1>4, <2>4 DEF Content
    <3>2. Approved(p) => approval[p].digest = b
      BY <1>3, <2>4 DEF Approved
    <3> QED BY <1>1, <1>3, <1>4, <1>5, <2>1, <2>2, <2>4, <3>1, <3>2 DEF Agreement
  <2> QED BY <2>3, <2>4
<1>13. RendersAgreed'
  BY <1>1 DEF ShelfInv, RendersAgreed
<1>14. OnlyOwed'
  <2> SUFFICES ASSUME ~owed', ~passed' PROVE composed' = Composition' /\ InStepBut({})'
    BY <1>1, AtDeskIs DEF OnlyOwed, Installing
  <2>1. composed = Composition /\ InStepBut({})
    BY <1>1, <1>6 DEF ShelfInv, OnlyOwed
  <2>2. Composition' = Composition
    BY <1>5, <1>6, <1>11, CompositionSame
  <2> QED BY <1>1, <2>1, <2>2 DEF InStepBut
<1> QED BY <1>8, <1>9, <1>10, <1>12, <1>13, <1>14 DEF ShelfInv

------------------------------------------------------------------------------
(* The other requests.                                                     *)

LEMMA CompositionMeans ==
    DiskTypes => \A b : b \in ToSet(Composition) <=>
                        \E p \in ToSet(order) : Content(p).renders /\ b = Content(p)
BY CompositionHas

\* The same of the next state.
LEMMA CompositionNext ==
    ASSUME DiskTypes'
    PROVE  \A b : b \in ToSet(Composition)' <=>
                  \E p \in ToSet(order') : Content(p)'.renders /\ b = Content(p)'
<1>1. (DiskTypes => \A b : b \in ToSet(Composition) <=>
                           \E p \in ToSet(order) : Content(p).renders /\ b = Content(p))'
  BY CompositionMeans, PTL
<1> QED BY <1>1

\* What the list composes to of the other plugins, when only these are touched.
LEMMA CompositionOfOthers ==
    ASSUME NEW X, DiskTypes, DiskTypes', OwnBytes, OwnBytes',
           \A q \in Plugins : q \notin X => (q \in ToSet(order) <=> q \in ToSet(order')),
           \A q \in Plugins : q \notin X => Content(q)' = Content(q)
    PROVE  \A b \in Bundles : b.id \notin X => (b \in ToSet(Composition)' <=> b \in ToSet(Composition))
<1> SUFFICES ASSUME NEW b \in Bundles, b.id \notin X
             PROVE  b \in ToSet(Composition)' <=> b \in ToSet(Composition)
  OBVIOUS
<1>1. /\ \A p \in ToSet(order) : p \in Plugins
      /\ \A p \in ToSet(order') : p \in Plugins
  BY DEF DiskTypes, ToSet
<1>2. b # Nothing
  BY NothingIs
<1>3. \A p \in Plugins : (b = Content(p) \/ b = Content(p)') => b.id = p
  BY <1>2 DEF OwnBytes, Content, DiskTypes
<1>4. b \in ToSet(Composition) <=> \E p \in ToSet(order) : Content(p).renders /\ b = Content(p)
  BY CompositionHas
<1>5. b \in ToSet(Composition)' <=> \E p \in ToSet(order') : Content(p)'.renders /\ b = Content(p)'
  BY CompositionNext
<1> QED BY <1>1, <1>3, <1>4, <1>5

\* A request that changes the list, of the plugins in X or in their order, and nothing else yet.
LEMMA ListStep ==
    ASSUME NEW X, ShelfInv, desk = AtDesk, desk' \in DeskRecs, ~Installing',
           current' = current, dirs' = dirs, digest' = digest, approval' = approval,
           composed' = composed, running' = running, owed' = owed,
           passed' = passed, torn' = torn, agreed' = agreed,
           order' \in Seq(Plugins),
           \A q \in Plugins : q \notin X => (q \in ToSet(order) <=> q \in ToSet(order')),
           \A q \in ToSet(order') : q \in ToSet(order) \/ q \in torn \/ Content(q) \in agreed
    PROVE  /\ ShelfTypes' /\ OwnBytes' /\ Agreed' /\ RendersAgreed'
           /\ ~owed /\ ~passed => InStepBut(X)'
<1>1. ShelfTypes /\ DiskTypes /\ OwnBytes
  BY DEF ShelfInv, ShelfTypes
<1>2. DiskTypes' /\ OwnBytes' /\ \A q : Content(q)' = Content(q) /\ Readable(q)' = Readable(q)
  BY <1>1 DEF DiskTypes, OwnBytes, Content, Readable
<1>3. ShelfTypes'
  BY <1>1, <1>2 DEF ShelfTypes
<1>4. Agreed'
  <2> SUFFICES ASSUME NEW p \in Plugins PROVE Agreement(p)'
    BY DEF Agreed
  <2>1. Agreement(p) /\ ~MidWay(p)
    BY AtDeskIs DEF ShelfInv, Agreed, MidWay
  <2> QED BY <1>2, <2>1 DEF Agreement
<1>5. RendersAgreed'
  BY AtDeskIs DEF ShelfInv, RendersAgreed
<1>6. ASSUME ~owed, ~passed PROVE InStepBut(X)'
  <2>1. InStepBut({})
    BY <1>6, AtDeskIs DEF ShelfInv, OnlyOwed
  <2>2. \A b \in Bundles : b.id \notin X => (b \in ToSet(Composition)' <=> b \in ToSet(Composition))
    BY <1>1, <1>2, CompositionOfOthers
  <2> QED BY <2>1, <2>2 DEF InStepBut
<1> QED BY <1>2, <1>3, <1>4, <1>5, <1>6

LEMMA EnableKeeps ==
    ASSUME ShelfInv, NEW p \in Plugins, Enable(p)
    PROVE  ShelfInv'
<1>1. /\ current' = current /\ dirs' = dirs /\ digest' = digest /\ approval' = approval
      /\ composed' = composed /\ running' = running /\ owed' = owed
      /\ passed' = passed /\ torn' = torn /\ agreed' = agreed
      /\ order' = Append(order, p) /\ Ask("changed", p, Nothing) /\ Readable(p) /\ Approved(p)
  BY DEF Enable, OnlyDesk
<1>a. "changed" \in DeskPCs /\ Nothing \in Archives
  BY DEF DeskPCs, Archives
<1>2. /\ desk = AtDesk /\ desk' \in DeskRecs /\ desk'.pc = "changed" /\ desk'.id = p
  BY <1>1, <1>a, DeskAsked
<1>3. order \in Seq(Plugins) /\ order' \in Seq(Plugins)
  BY <1>1 DEF ShelfInv, ShelfTypes, DiskTypes
<1>4. ToSet(order') = ToSet(order) \cup {p}
  <2>1. PICK k \in Nat : k = Len(order)
    BY <1>3
  <2>2. Len(order') = k + 1 /\ \A i \in 1..(k + 1) : order'[i] = IF i = k + 1 THEN p ELSE order[i]
    BY <1>1, <1>3, <2>1
  <2>3. ToSet(order) = {order[i] : i \in 1..k} /\ ToSet(order') = {order'[i] : i \in 1..(k + 1)}
    BY <1>3, <2>1, <2>2 DEF ToSet
  <2>4. 1..(k + 1) = 1..k \cup {k + 1} /\ k + 1 \notin 1..k
    BY <2>1
  <2> QED BY <2>2, <2>3, <2>4
<1>5. p \in torn \/ Content(p) \in agreed
  <2>1. Agreement(p) /\ ~MidWay(p)
    BY <1>2, AtDeskIs DEF ShelfInv, Agreed, MidWay
  <2>2. approval[p].digest = digest[p]
    BY <1>1 DEF Approved
  <2> QED BY <1>1, <2>1, <2>2 DEF Agreement, Readable
<1>6. ~Installing'
  BY <1>2 DEF Installing
<1>7. /\ ShelfTypes' /\ OwnBytes' /\ Agreed' /\ RendersAgreed'
      /\ ~owed /\ ~passed => InStepBut({p})'
  BY <1>1, <1>2, <1>3, <1>4, <1>5, <1>6, ListStep
<1>8. DeskFits'
  BY <1>2 DEF DeskFits, Installing
<1>9. OnlyOwed'
  BY <1>1, <1>2, <1>7 DEF OnlyOwed, Installing
<1> QED BY <1>7, <1>8, <1>9 DEF ShelfInv

LEMMA DisableKeeps ==
    ASSUME ShelfInv, NEW p \in Plugins, Disable(p)
    PROVE  ShelfInv'
<1>1. /\ current' = current /\ dirs' = dirs /\ digest' = digest /\ approval' = approval
      /\ composed' = composed /\ running' = running /\ owed' = owed
      /\ passed' = passed /\ torn' = torn /\ agreed' = agreed
      /\ order' = Off(p) /\ Ask(IF Readable(p) THEN "changed" ELSE "gone", p, Nothing)
  BY DEF Disable, OnlyDesk
<1>a. PICK pc \in DeskPCs : pc = IF Readable(p) THEN "changed" ELSE "gone"
  BY DEF DeskPCs
<1>b. Nothing \in Archives /\ Ask(pc, p, Nothing)
  BY <1>1, <1>a DEF Archives
<1>2. /\ desk = AtDesk /\ desk' \in DeskRecs /\ desk'.id = p
      /\ desk'.pc = IF Readable(p) THEN "changed" ELSE "gone"
  BY <1>a, <1>b, DeskAsked
<1>3. DiskTypes /\ order \in Seq(Plugins)
  BY DEF ShelfInv, ShelfTypes, DiskTypes
<1>4. order' \in Seq(Plugins) /\ ToSet(order') = ToSet(order) \ {p}
  BY <1>1, <1>3, OffHas
<1>5. ~Installing'
  BY <1>2 DEF Installing
<1>6. /\ ShelfTypes' /\ OwnBytes' /\ Agreed' /\ RendersAgreed'
      /\ ~owed /\ ~passed => InStepBut({p})'
  BY <1>1, <1>2, <1>4, <1>5, ListStep
<1>7. DeskFits'
  BY <1>2, <1>4 DEF DeskFits, Installing
<1>8. OnlyOwed'
  <2>1. CASE Readable(p)
    BY <1>1, <1>2, <1>6, <2>1 DEF OnlyOwed, Installing
  <2>2. CASE ~Readable(p)
    <3> SUFFICES ASSUME ~owed, ~passed PROVE composed' = Composition' /\ InStepBut({})'
      BY <1>1, <1>2, <2>2 DEF OnlyOwed, Installing
    <3>1. ~Content(p).renders /\ DiskTypes'
      BY <1>6, <2>2, NothingIs DEF Readable, ShelfTypes
    <3>2. \A q : Content(q)' = Content(q)
      BY <1>1 DEF Content
    <3>3. Composition' = Composition
      BY <1>1, <1>3, <3>1, <3>2, CompositionOff
    <3>4. composed = Composition /\ InStepBut({})
      BY <1>2, AtDeskIs DEF ShelfInv, OnlyOwed
    <3> QED BY <1>1, <3>3, <3>4 DEF InStepBut
  <2> QED BY <2>1, <2>2
<1> QED BY <1>6, <1>7, <1>8 DEF ShelfInv

LEMMA ReorderKeeps ==
    ASSUME ShelfInv, Reorder
    PROVE  ShelfInv'
<1>1. PICK s \in [1..Len(order) -> Plugins] :
      /\ current' = current /\ dirs' = dirs /\ digest' = digest /\ approval' = approval
      /\ composed' = composed /\ running' = running /\ owed' = owed
      /\ passed' = passed /\ torn' = torn /\ agreed' = agreed
      /\ order' = s /\ ToSet(s) = ToSet(order) /\ Ask("ordered", "none", Nothing)
  BY DEF Reorder, OnlyDesk
<1>2. /\ desk = AtDesk /\ desk' \in DeskRecs /\ desk'.pc = "ordered"
  BY <1>1, DeskAsked DEF DeskPCs, Archives
<1>3. order' \in Seq(Plugins)
  <2>1. PICK k \in Nat : k = Len(order)
    BY DEF ShelfInv, ShelfTypes, DiskTypes
  <2> QED BY <1>1, <2>1
<1>4. ~Installing'
  BY <1>2 DEF Installing
<1>5. /\ ShelfTypes' /\ OwnBytes' /\ Agreed' /\ RendersAgreed'
      /\ ~owed /\ ~passed => InStepBut({})'
  BY <1>1, <1>2, <1>3, <1>4, ListStep
<1>6. DeskFits'
  BY <1>2 DEF DeskFits, Installing
<1>7. OnlyOwed'
  BY <1>1, <1>2, <1>5 DEF OnlyOwed, Installing
<1> QED BY <1>5, <1>6, <1>7 DEF ShelfInv

\* What a request to withdraw says of a restart was asked while everything was in place.
LEMMA WithdrawKeeps ==
    ASSUME ShelfInv, NEW p \in Plugins, NEW how \in {"revoking", "removing"}, Withdraw(p, how)
    PROVE  ShelfInv'
<1>1. /\ current' = current /\ dirs' = dirs /\ digest' = digest /\ approval' = approval
      /\ composed' = composed /\ running' = running /\ owed' = owed
      /\ passed' = passed /\ torn' = torn /\ agreed' = agreed
      /\ order' = Off(p) /\ desk = AtDesk
      /\ desk' = [pc |-> how, id |-> p, bundle |-> Nothing, restart |-> Live(p) /\ NeedsRestart(p)]
  BY DEF Withdraw, OnlyDesk
<1>2. /\ desk'.pc = how /\ desk'.id = p /\ desk'.bundle = Nothing
      /\ desk'.restart = (Live(p) /\ NeedsRestart(p))
  BY <1>1
<1>a. desk' \in DeskRecs
  <2>1. PICK r \in BOOLEAN : r = (Live(p) /\ NeedsRestart(p))
    OBVIOUS
  <2> QED BY <1>1, <2>1 DEF DeskRecs, DeskPCs, Archives
<1>3. DiskTypes /\ order \in Seq(Plugins)
  BY DEF ShelfInv, ShelfTypes, DiskTypes
<1>4. order' \in Seq(Plugins) /\ ToSet(order') = ToSet(order) \ {p}
  BY <1>1, <1>3, OffHas
<1>5. ~Installing'
  BY <1>2 DEF Installing
<1>6. /\ ShelfTypes' /\ OwnBytes' /\ Agreed' /\ RendersAgreed'
      /\ ~owed /\ ~passed => InStepBut({p})'
  BY <1>1, <1>a, <1>4, <1>5, ListStep
<1>7. DeskFits'
  BY <1>2, <1>4 DEF DeskFits, Installing
<1>8. ASSUME ~owed, ~passed, ~desk'.restart, NEW b \in running PROVE b.id # p
  <2>1. composed = Composition /\ InStepBut({}) /\ b \in Bundles
    BY <1>1, <1>8, AtDeskIs DEF ShelfInv, ShelfTypes, OnlyOwed
  <2>2. b \in ToSet(composed)
    BY <1>8, <2>1 DEF InStepBut
  <2>3. ~(Live(p) /\ NeedsRestart(p))
    BY <1>2, <1>8
  <2> QED BY <2>2, <2>3 DEF Live, NeedsRestart
<1>9. OnlyOwed'
  <2> SUFFICES ASSUME ~owed', ~passed'
               PROVE  /\ InStepBut({desk.id})'
                      /\ ~desk'.restart => \A b \in running' : b.id # desk'.id
    BY <1>2 DEF OnlyOwed, Installing
  <2> QED BY <1>1, <1>2, <1>6, <1>8
<1> QED BY <1>6, <1>7, <1>9 DEF ShelfInv

LEMMA ApproveKeeps ==
    ASSUME ShelfInv, NEW p \in Plugins, Approve(p)
    PROVE  ShelfInv'
<1>1. /\ order' = order /\ current' = current /\ dirs' = dirs /\ digest' = digest
      /\ composed' = composed /\ running' = running /\ owed' = owed
      /\ passed' = passed /\ torn' = torn /\ desk' = desk /\ desk = AtDesk
      /\ approval' = [approval EXCEPT ![p] = [version |-> current[p], digest |-> digest[p]]]
      /\ agreed' = agreed \cup {Content(p)} /\ Readable(p)
  BY DEF Approve, OnlyDesk
<1>2. ShelfTypes /\ DiskTypes /\ OwnBytes
  BY DEF ShelfInv, ShelfTypes
<1>3. Content(p) \in Bundles /\ Content(p) \in agreed'
  BY <1>1, <1>2, ContentTyped DEF Readable, Archives
<1>4. \A q \in Plugins : approval'[q] = IF q = p THEN [version |-> current[p], digest |-> digest[p]]
                                                 ELSE approval[q]
  BY <1>1, <1>2 DEF DiskTypes
<1>5. DiskTypes'
  <2>1. [version |-> current[p], digest |-> digest[p]] \in [version : Versions \cup {0}, digest : Archives]
    BY <1>2 DEF DiskTypes
  <2>2. approval' \in [Plugins -> [version : Versions \cup {0}, digest : Archives]]
    BY <1>1, <1>2, <2>1 DEF DiskTypes
  <2> QED BY <1>1, <1>2, <2>2 DEF DiskTypes
<1>6. ShelfTypes'
  BY <1>1, <1>2, <1>3, <1>5 DEF ShelfTypes
<1>7. OwnBytes'
  BY <1>1, <1>2, <1>4 DEF OwnBytes
<1>8. \A q : Content(q)' = Content(q) /\ Readable(q)' = Readable(q)
  BY <1>1 DEF Content, Readable
<1>9. DeskFits'
  BY <1>1 DEF ShelfInv, DeskFits, Installing
<1>10. Agreed'
  <2> SUFFICES ASSUME NEW q \in Plugins PROVE Agreement(q)'
    BY DEF Agreed
  <2>1. Agreement(q) /\ ~MidWay(q) /\ ~MidWay(q)'
    BY <1>1, AtDeskIs DEF ShelfInv, Agreed, MidWay
  <2>2. approval'[q].digest = IF q = p THEN digest[p] ELSE approval[q].digest
    BY <1>4
  <2> QED BY <1>1, <1>3, <1>8, <2>1, <2>2 DEF Agreement
<1>11. RendersAgreed'
  BY <1>1 DEF ShelfInv, RendersAgreed
<1>12. OnlyOwed'
  <2>1. Composition' = Composition
    BY <1>1, <1>8, CompositionSame
  <2> QED BY <1>1, <2>1, AtDeskIs DEF ShelfInv, OnlyOwed, InStepBut, Installing
<1> QED BY <1>6, <1>7, <1>9, <1>10, <1>11, <1>12 DEF ShelfInv

\* The second half of a withdrawal: the decision goes, and what was agreed to with it.
LEMMA WithdrawnKeeps ==
    ASSUME NEW p \in Plugins, ShelfInv, desk.id = p,
           desk.pc \in {"revoking", "removing"}, Go("withdrawn"), DiskTypes', OwnBytes',
           order' = order, composed' = composed, running' = running, owed' = owed,
           passed' = passed, torn' = torn, agreed' = {b \in agreed : b.id # desk.id},
           approval'[desk.id].digest = Nothing,
           Content(p)' = Nothing \/ (Content(p)' = Content(p) /\ digest'[p] = digest[p]),
           \A q \in Plugins : q # desk.id =>
              /\ Content(q)' = Content(q)
              /\ digest'[q] = digest[q] /\ approval'[q] = approval[q]
    PROVE  ShelfInv'
<1>1. ShelfTypes /\ DiskTypes /\ OwnBytes
  BY DEF ShelfInv, ShelfTypes
<1>2. /\ desk' \in DeskRecs /\ desk'.pc = "withdrawn" /\ desk'.id = desk.id /\ desk'.restart = desk.restart
  BY <1>1, DeskGoes DEF DeskPCs
<1>3. desk.id \in Plugins /\ desk.id \notin ToSet(order)
  BY DEF ShelfInv, DeskFits
<1>4. ShelfTypes'
  BY <1>1, <1>2 DEF ShelfTypes
<1>5. DeskFits'
  BY <1>2, <1>3 DEF DeskFits, Installing
<1>6. \A q \in Plugins : Readable(q) => Content(q).id = q
  BY <1>1 DEF OwnBytes, Readable, Content, DiskTypes
<1>7. Agreed'
  <2> SUFFICES ASSUME NEW q \in Plugins PROVE Agreement(q)'
    BY DEF Agreed
  <2>1. Agreement(q) /\ ~MidWay(q) /\ ~MidWay(q)'
    BY <1>2 DEF ShelfInv, Agreed, MidWay
  <2>2. CASE q = desk.id
    <3>1. approval'[q].digest = Nothing /\ q \notin ToSet(order')
      BY <1>3, <2>2
    <3>2. \/ Content(q)' = Content(q) /\ digest'[q] = digest[q]
          \/ Content(q)' = Nothing
      <4>1. q = p
        BY <2>2
      <4> QED BY <4>1
    <3>3. q \notin torn /\ Readable(q)' => digest'[q] = Content(q)'
      BY <2>1, <3>2 DEF Agreement, Readable
    <3> QED BY <3>1, <3>3 DEF Agreement
  <2>3. CASE q # desk.id
    <3>1. Content(q)' = Content(q) /\ digest'[q] = digest[q] /\ approval'[q] = approval[q]
      BY <2>3
    <3>2. approval[q].digest # Nothing => approval[q].digest.id = q
      BY <1>1 DEF OwnBytes
    <3>3. Content(q).renders => Readable(q)
      BY NothingIs DEF Readable
    <3> QED BY <1>6, <2>1, <2>3, <3>1, <3>2, <3>3 DEF Agreement, Readable
  <2> QED BY <2>2, <2>3
<1>8. RendersAgreed'
  BY <1>2 DEF RendersAgreed
<1>9. OnlyOwed'
  <2>1. \A q \in ToSet(order) : q \in Plugins /\ q # desk.id
    BY <1>1, <1>3 DEF DiskTypes, ToSet
  <2>2. Composition' = Composition
    BY <2>1, CompositionSame
  <2> SUFFICES ASSUME ~owed', ~passed'
               PROVE  /\ InStepBut({desk.id})'
                      /\ ~desk'.restart => \A b \in running' : b.id # desk'.id
    BY <1>2 DEF OnlyOwed, Installing
  <2>3. /\ InStepBut({desk.id})
        /\ ~desk.restart => \A b \in running : b.id # desk.id
    BY DEF ShelfInv, OnlyOwed
  <2> QED BY <1>2, <2>2, <2>3 DEF InStepBut
<1> QED BY <1>4, <1>5, <1>7, <1>8, <1>9 DEF ShelfInv

LEMMA RevokeApprovalKeeps ==
    ASSUME ShelfInv, RevokeApproval
    PROVE  ShelfInv'
<1>1. /\ order' = order /\ current' = current /\ dirs' = dirs /\ digest' = digest
      /\ composed' = composed /\ running' = running /\ owed' = owed
      /\ passed' = passed /\ torn' = torn /\ desk.pc \in {"revoking", "removing"} /\ Go("withdrawn")
      /\ approval' = [approval EXCEPT ![desk.id] = Undecided]
      /\ agreed' = {b \in agreed : b.id # desk.id}
  BY DEF RevokeApproval, OnlyDesk
<1>2. ShelfTypes /\ DiskTypes /\ OwnBytes /\ desk.id \in Plugins
  BY <1>1 DEF ShelfInv, ShelfTypes, DeskFits
<1>3. Undecided \in [version : Versions \cup {0}, digest : Archives] /\ Undecided.digest = Nothing
  BY DEF Undecided, Archives
<1>4. \A q \in Plugins : approval'[q] = IF q = desk.id THEN Undecided ELSE approval[q]
  BY <1>1, <1>2 DEF DiskTypes
<1>5. DiskTypes' /\ OwnBytes'
  <2>1. approval' \in [Plugins -> [version : Versions \cup {0}, digest : Archives]]
    BY <1>1, <1>2, <1>3 DEF DiskTypes
  <2>2. DiskTypes'
    BY <1>1, <1>2, <2>1 DEF DiskTypes
  <2>3. OwnBytes'
    BY <1>1, <1>2, <1>3, <1>4 DEF OwnBytes
  <2> QED BY <2>2, <2>3
<1>6. \A q : Content(q)' = Content(q)
  BY <1>1 DEF Content
<1>7. approval'[desk.id].digest = Nothing
  BY <1>2, <1>3, <1>4
<1>8. \A q \in Plugins : q # desk.id =>
         Content(q)' = Content(q) /\ digest'[q] = digest[q] /\ approval'[q] = approval[q]
  BY <1>1, <1>4, <1>6
<1>a. PICK p \in Plugins : desk.id = p
  BY <1>2
<1>9. Content(p)' = Content(p) /\ digest'[p] = digest[p]
  BY <1>1, <1>6
<1> QED BY <1>1, <1>5, <1>7, <1>8, <1>9, <1>a, WithdrawnKeeps

LEMMA RemoveDirKeeps ==
    ASSUME ShelfInv, RemoveDir
    PROVE  ShelfInv'
<1>1. /\ order' = order /\ composed' = composed /\ running' = running /\ owed' = owed
      /\ passed' = passed /\ torn' = torn /\ desk.pc \in {"revoking", "removing"} /\ Go("withdrawn")
      /\ current' = [current EXCEPT ![desk.id] = 0] /\ dirs' = [dirs EXCEPT ![desk.id] = Bare(desk.id)]
      /\ digest' = [digest EXCEPT ![desk.id] = Nothing]
      /\ approval' = [approval EXCEPT ![desk.id] = Undecided]
      /\ agreed' = {b \in agreed : b.id # desk.id}
  BY DEF RemoveDir, OnlyDesk
<1>2. ShelfTypes /\ DiskTypes /\ OwnBytes /\ desk.id \in Plugins
  BY <1>1 DEF ShelfInv, ShelfTypes, DeskFits
<1>3. /\ Undecided \in [version : Versions \cup {0}, digest : Archives] /\ Undecided.digest = Nothing
      /\ Nothing \in Archives /\ Bare(desk.id) \in [Versions -> Archives]
      /\ \A v \in Versions : Bare(desk.id)[v] = Nothing
  BY DEF Undecided, Archives, Bare
<1>4. \A q \in Plugins :
         /\ approval'[q] = IF q = desk.id THEN Undecided ELSE approval[q]
         /\ current'[q] = IF q = desk.id THEN 0 ELSE current[q]
         /\ dirs'[q] = IF q = desk.id THEN Bare(desk.id) ELSE dirs[q]
         /\ digest'[q] = IF q = desk.id THEN Nothing ELSE digest[q]
  BY <1>1, <1>2 DEF DiskTypes
<1>5. DiskTypes'
  <2>1. approval' \in [Plugins -> [version : Versions \cup {0}, digest : Archives]]
    BY <1>1, <1>2, <1>3 DEF DiskTypes
  <2>2. current' \in [Plugins -> Versions \cup {0}] /\ digest' \in [Plugins -> Archives]
    BY <1>1, <1>2, <1>3 DEF DiskTypes
  <2>3. dirs' \in [Plugins -> [Versions -> Archives]]
    BY <1>1, <1>2, <1>3 DEF DiskTypes
  <2> QED BY <1>1, <1>2, <2>1, <2>2, <2>3 DEF DiskTypes
<1>6. OwnBytes'
  BY <1>2, <1>3, <1>4 DEF OwnBytes
<1>7. \A q \in Plugins : Content(q)' = IF q = desk.id THEN Nothing ELSE Content(q)
  BY <1>4 DEF Content
<1>8. approval'[desk.id].digest = Nothing
  BY <1>2, <1>3, <1>4
<1>9. \A q \in Plugins : q # desk.id =>
         Content(q)' = Content(q) /\ digest'[q] = digest[q] /\ approval'[q] = approval[q]
  BY <1>4, <1>7
<1>a. PICK p \in Plugins : desk.id = p
  BY <1>2
<1>10. Content(p)' = Nothing
  BY <1>7, <1>a
<1>11. Content(p)' = Nothing \/ (Content(p)' = Content(p) /\ digest'[p] = digest[p])
  BY <1>10
<1> QED BY <1>1, <1>5, <1>6, <1>8, <1>9, <1>11, <1>a, WithdrawnKeeps

LEMMA ShelfKeeps ==
    ASSUME ShelfInv, [ShelfNext]_shelfVars
    PROVE  ShelfInv'
<1>1. ASSUME UNCHANGED shelfVars PROVE ShelfInv'
  <2>1. UNCHANGED OnDisk /\ UNCHANGED <<composed, running, desk, owed, passed, torn, agreed>>
    BY <1>1 DEF shelfVars, OnDisk
  <2>2. ShelfTypes /\ OwnBytes /\ DiskTypes
    BY DEF ShelfInv, ShelfTypes
  <2>3. DiskTypes' /\ Composition' = Composition /\ OwnBytes'
    BY <2>1, <2>2, DiskStays
  <2>4. ShelfTypes'
    BY <2>1, <2>2, <2>3 DEF ShelfTypes
  <2>5. DeskFits' /\ RendersAgreed'
    BY <2>1 DEF ShelfInv, DeskFits, RendersAgreed, Installing, OnDisk
  <2>6. Agreed'
    BY <2>1, AgreementStays DEF MidWay
  <2>7. OnlyOwed'
    BY <2>1, <2>3 DEF ShelfInv, OnlyOwed, InStepBut, Installing, OnDisk
  <2> QED BY <2>3, <2>4, <2>5, <2>6, <2>7 DEF ShelfInv
<1>2. ASSUME NEW b \in Bundles, Unpack(b) PROVE ShelfInv'
  BY <1>2, UnpackKeeps
<1>3. ASSUME Place \/ SetCurrent \/ SetDigest \/ Shelve \/ InstallFails PROVE ShelfInv'
  BY <1>3, PlaceKeeps, SetCurrentKeeps, SetDigestKeeps, ShelveKeeps, InstallFailsKeeps
<1>4. ASSUME NEW p \in Plugins, Enable(p) \/ Disable(p) \/ Approve(p) PROVE ShelfInv'
  BY <1>4, EnableKeeps, DisableKeeps, ApproveKeeps
<1>5. ASSUME NEW p \in Plugins, NEW how \in {"revoking", "removing"}, Withdraw(p, how) PROVE ShelfInv'
  BY <1>5, WithdrawKeeps
<1>6. ASSUME Reorder \/ RevokeApproval \/ RemoveDir \/ Recompose \/ AnswerGone \/ ShelfRestart
      PROVE  ShelfInv'
  BY <1>6, ReorderKeeps, RevokeApprovalKeeps, RemoveDirKeeps, RecomposeKeeps, AnswerGoneKeeps,
     ShelfRestartKeeps
<1> QED BY <1>1, <1>2, <1>3, <1>4, <1>5, <1>6 DEF ShelfNext

------------------------------------------------------------------------------
(* What the plugins page promises.                                         *)

LEMMA ShelfInvHolds == ShelfSpec => []ShelfInv
<1>1. ShelfInit(SUBSET Bundles) => ShelfInv
  BY ShelfBegins
<1>2. ShelfInv /\ [ShelfNext]_shelfVars => ShelfInv'
  BY ShelfKeeps
<1> QED BY <1>1, <1>2, PTL DEF ShelfSpec

\* The list, the record and the directories of the plugins, and the request in progress, hold
\* what their types say.
THEOREM ShelfTyped == ShelfSpec => []ShelfTypeOK
<1>1. ShelfInv => ShelfTypeOK
  BY DEF ShelfInv, ShelfTypes, DiskTypes, ShelfTypeOK, Archives
<1> QED BY <1>1, ShelfInvHolds, PTL

LEMMA InvShowsOwed == ShelfInv => RestartsAreOwed /\ ApprovedIsWhatRenders
<1> SUFFICES ASSUME ShelfInv PROVE RestartsAreOwed /\ ApprovedIsWhatRenders
  OBVIOUS
<1>1. DiskTypes /\ running \in SUBSET Bundles
  BY DEF ShelfInv, ShelfTypes
<1>2. ASSUME desk = AtDesk, ~owed, ~passed
      PROVE  composed = Composition /\ running = {b \in ToSet(composed) : b.needs}
  <2>1. composed = Composition /\ InStepBut({})
    BY <1>2, AtDeskIs DEF ShelfInv, OnlyOwed
  <2> QED BY <1>1, <2>1, InStepIs
<1>3. ApprovedIsWhatRenders
  BY AtDeskIs DEF ShelfInv, RendersAgreed, ApprovedIsWhatRenders
<1> QED BY <1>2, <1>3 DEF RestartsAreOwed

\* An install puts nothing in place of what is read, but for the version it is itself of.
LEMMA StepsLeaveInstalled ==
    ASSUME ShelfInv, [ShelfNext]_shelfVars
    PROVE  InstalledStays
<1> SUFFICES ASSUME NEW p \in Plugins, Readable(p), ~Readable(p)'
             PROVE  \/ desk.pc = "removing" /\ desk.id = p
                    \/ desk.pc = "unpacked" /\ desk.id = p /\ desk.bundle.version = current[p]
  BY DEF InstalledStays
<1>1. DiskTypes /\ OwnBytes
  BY DEF ShelfInv, ShelfTypes
<1>2. ~(current' = current /\ dirs' = dirs)
  BY DEF Readable, Content
<1>3. Place \/ SetCurrent \/ RemoveDir
  BY <1>2 DEF ShelfNext, shelfVars, OnDisk, OnlyDesk, Unpack, SetDigest, Shelve, InstallFails, Enable,
     Disable, Approve, Withdraw, Reorder, RevokeApproval, Recompose, AnswerGone, ShelfRestart
<1>4. CASE Place
  <2>1. PICK b \in Bundles : desk.bundle = b /\ desk.id = b.id
    BY <1>4 DEF ShelfInv, DeskFits, Place, Installing
  <2>2. b.id \in Plugins /\ b.version \in Versions /\ b # Nothing
    BY NothingIs
  <2>3. current' = current /\ \/ /\ desk.pc = "unpacked" /\ dirs' = [dirs EXCEPT ![b.id][b.version] = Nothing]
                              \/ dirs' = [dirs EXCEPT ![b.id][b.version] = b]
    BY <1>4, <2>1 DEF Place
  <2>4. current[p] # 0 /\ current[p] \in Versions /\ dirs[p][current[p]] # Nothing
        /\ dirs'[p][current[p]] = Nothing
    BY <1>1, <2>3 DEF Readable, Content, DiskTypes
  <2> QED BY <1>1, <2>1, <2>2, <2>3, <2>4 DEF DiskTypes
<1>5. CASE SetCurrent
  <2>1. PICK b \in Bundles : /\ desk.bundle = b /\ desk.id = b.id /\ dirs[b.id][b.version] = b
    BY <1>5 DEF ShelfInv, DeskFits, SetCurrent, Installing
  <2>2. b.id \in Plugins /\ b.version \in Versions /\ b # Nothing /\ b.version # 0
    BY NothingIs
  <2>3. current' = [current EXCEPT ![b.id] = b.version] /\ dirs' = dirs
    BY <1>5, <2>1 DEF SetCurrent
  <2> QED BY <1>1, <2>1, <2>2, <2>3 DEF DiskTypes, Readable, Content
<1>6. CASE RemoveDir
  <2>1. desk.pc = "removing" /\ desk.id \in Plugins
    BY <1>6 DEF RemoveDir, ShelfInv, DeskFits
  <2>2. current' = [current EXCEPT ![desk.id] = 0] /\ dirs' = [dirs EXCEPT ![desk.id] = Bare(desk.id)]
    BY <1>6 DEF RemoveDir
  <2> QED BY <1>1, <2>1, <2>2 DEF DiskTypes, Readable, Content
<1> QED BY <1>3, <1>4, <1>5, <1>6

\* A restart of an install of plugins changes nothing that no answer said needs one, nothing
\* renders that was not approved as the bytes it is, and an update that fails or is cut short
\* leaves readable what was (server/plugin_handlers.go, plugin/bundle.go, plugin/approval.go).
THEOREM ShelfHolds == ShelfSpec => ShelfIsSound
<1>1. ShelfInv /\ [ShelfNext]_shelfVars => [InstalledStays]_shelfVars
  BY StepsLeaveInstalled
<1>2. ShelfSpec => [][ShelfNext]_shelfVars
  BY PTL DEF ShelfSpec
<1> QED BY <1>1, <1>2, InvShowsOwed, ShelfInvHolds, PTL DEF ShelfIsSound
==============================================================================
