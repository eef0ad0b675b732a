------------------------------ MODULE LayerStack ------------------------------
(***************************************************************************)
(* How the interface is composed of the enabled plugins: the order they    *)
(* are layered in (plugin/order.go), the stack of the bodies each defines  *)
(* (view/stack.go), the trial of every name (view/validate.go) and the     *)
(* loop that drops who fails and composes again (view/boot.go).            *)
(*                                                                         *)
(* A body is what it reaches for and whether it breaks: it stands alone,   *)
(* wraps what is beneath it, or reaches past all to the host's own; what   *)
(* breaks does so after what it reached for was rendered.  The host's own  *)
(* bodies stand alone and do not break.                                    *)
(***************************************************************************)
EXTENDS Naturals, Sequences, SequencesExt, FiniteSets

CONSTANTS
    Layers,    \* plugins, numbered as their ids sort
    HostNames, \* names the host defines, each with a model to try it against
    SlotNames, \* names of the host whose definitions concatenate
    OwnNames,  \* names of plugins, tried against nothing, numbered as they sort
    BodyKinds  \* [names -> the kinds of body a plugin may define under it]

ASSUME LayerConstants == Layers \subseteq Nat /\ OwnNames \subseteq Nat

VARIABLES
    listed,    \* the enable list; a development layer is enabled and not found on it
    needs,     \* <<p, q>>: p requires q, or says that it overrides a name of q
    body,      \* [Layers -> [names -> what the plugin's templates define]]
    stack,     \* live: the layers still in, in the order they are composed
    droppings, \* the layers dropped
    stage      \* "ordering", "composing", "trying", "served" or "cycle"

layerVars == <<listed, needs, body, stack, droppings, stage>>

Names  == HostNames \cup SlotNames \cup OwnNames
Wraps  == {"wraps", "faultyWrap"}
Faulty == {"faulty", "faultyWrap"}

(* Every body of these kinds the plugins of an install may have under every name. *)
AllBodies(kinds) == [Layers -> {f \in [Names -> UNION {kinds[n] : n \in Names}] :
                                  \A n \in Names : f[n] \in kinds[n]}]
AllLists  == UNION {SetToSeqs(S) : S \in SUBSET Layers}
AllNeeds  == SUBSET {r \in Layers \X Layers : r[1] # r[2]}

LayerInit(lists, relations, bodies) ==
    /\ listed \in lists /\ needs \in relations /\ body \in bodies
    /\ stack = <<>> /\ droppings = {} /\ stage = "ordering"

------------------------------------------------------------------------------
(* LayerOrder: among those whose requirements are placed, the one the list  *)
(* has first; who is not on the list comes after who is, by id.            *)

Position(p) == IF p \in ToSet(listed) THEN CHOOSE i \in 1..Len(listed) : listed[i] = p
               ELSE Len(listed) + 1
Ahead(p, q) == Position(p) < Position(q) \/ (Position(p) = Position(q) /\ p < q)
Required(p) == {q \in Layers : <<p, q>> \in needs}

\* Mutant of Ready: whoever has a requirement placed is ready.
ReadyEarly(placed) ==
    {p \in Layers \ placed : Required(p) = {} \/ Required(p) \cap placed # {}}

Ready(placed) == {p \in Layers \ placed : Required(p) \subseteq placed}

Placed[n \in 0..Cardinality(Layers)] ==
    IF n = 0 THEN <<>>
    ELSE LET s == Placed[n - 1]
             ready == Ready(ToSet(s))
         IN IF ready = {} THEN s
            ELSE Append(s, CHOOSE p \in ready : \A q \in ready : q = p \/ Ahead(p, q))

Order ==
    /\ stage = "ordering"
    /\ LET s == Placed[Cardinality(Layers)]
       IN IF Len(s) = Cardinality(Layers) THEN stack' = s /\ stage' = "composing"
          ELSE stage' = "cycle" /\ UNCHANGED stack
    /\ UNCHANGED <<listed, needs, body, droppings>>

------------------------------------------------------------------------------
(* Compose.                                                                *)

Defines(p, n) == body[p][n] # "absent"

(* Who of s defines n, from the lowest layer to the highest.               *)
Definers(s, n) == FlattenSeq([i \in DOMAIN s |-> IF Defines(s[i], n) THEN <<s[i]>> ELSE <<>>])

(* A layer is refused that reaches under a name nothing beneath it defines, or under a
   name that concatenates.                                                 *)
Refused(s, i) ==
    \E n \in Names : /\ body[s[i]][n] \in Wraps
                     /\ n \in SlotNames \/ (n \in OwnNames /\ Definers(SubSeq(s, 1, i - 1), n) = <<>>)

(* And one that reaches for the host's body of a name the host does not define: of the
   first such name, whoever of the stack reaches for it.                   *)
Reaching(s) ==
    LET missing == {n \in OwnNames : \E i \in 1..Len(s) : body[s[i]][n] = "core"}
    IN IF missing = {} THEN {} ELSE {i \in 1..Len(s) : body[s[i]][Min(missing)] = "core"}

(* The layer a composition that fails belongs to.                          *)
ComposeFaults(s) ==
    LET refused == {i \in 1..Len(s) : Refused(s, i)}
        at == IF refused # {} THEN refused ELSE Reaching(s)
    IN IF at = {} THEN {} ELSE {s[CHOOSE i \in at : \A j \in at : i <= j]}

------------------------------------------------------------------------------
(* Validate: every name of the host is rendered against its model.         *)

(* The definers whose bodies render: the highest, and on down while they wrap. *)
Rendered(d) ==
    {i \in 1..Len(d.by) : \A j \in i + 1..Len(d.by) : body[d.by[j]][d.name] \in Wraps}

\* Mutant of Blamed: the layer whose body is the outermost.
BlamedOutermost(s, n) ==
    LET by == Definers(s, n)
        at == {i \in Rendered([by |-> by, name |-> n]) : body[by[i]][n] \in Faulty}
    IN IF at = {} THEN {}
       ELSE IF n \in SlotNames THEN {by[CHOOSE i \in 1..Len(by) : body[by[i]][n] \in Faulty]}
       ELSE {by[Len(by)]}

(* The layer whose body was executing when the rendering of n broke: of a wrapped body
   the innermost that breaks, of a name that concatenates the first.       *)
Blamed(s, n) ==
    LET by == Definers(s, n)
        runs == IF n \in SlotNames THEN 1..Len(by) ELSE Rendered([by |-> by, name |-> n])
        at == {i \in runs : body[by[i]][n] \in Faulty}
    IN IF at = {} THEN {} ELSE {by[CHOOSE i \in at : \A j \in at : i <= j]}

Failed(s) == UNION {Blamed(s, n) : n \in HostNames \cup SlotNames}

------------------------------------------------------------------------------
(* Boot.                                                                   *)

Without(s, out) == FlattenSeq([i \in DOMAIN s |-> IF s[i] \in out THEN <<>> ELSE <<s[i]>>])

Drop(out, next) ==
    /\ stack' = Without(stack, out) /\ droppings' = droppings \cup out /\ stage' = next
    /\ UNCHANGED <<listed, needs, body>>

\* Mutant of ComposeFails: a composition that fails is served as far as it came.
ComposeFailsQuietly ==
    /\ stage = "composing" /\ ComposeFaults(stack) # {} /\ Drop({}, "trying")

ComposeFails ==
    /\ stage = "composing" /\ ComposeFaults(stack) # {}
    /\ Drop(ComposeFaults(stack), "composing")

Composes ==
    /\ stage = "composing" /\ ComposeFaults(stack) = {} /\ Drop({}, "trying")

TrialFails ==
    /\ stage = "trying" /\ Failed(stack) # {} /\ Drop(Failed(stack), "composing")

Serve ==
    /\ stage = "trying" /\ Failed(stack) = {} /\ Drop({}, "served")

LayerNext == Order \/ ComposeFails \/ Composes \/ TrialFails \/ Serve

LayerSpec == LayerInit(AllLists, AllNeeds, AllBodies(BodyKinds)) /\ [][LayerNext]_layerVars
------------------------------------------------------------------------------
LayerTypeOK ==
    /\ stack \in Seq(Layers) /\ droppings \subseteq Layers
    /\ stage \in {"ordering", "composing", "trying", "served", "cycle"}

(* A layer follows all it requires; and it stands after one the list has behind it
   only where something it requires stands in between.                     *)
OrderIsTheirs ==
    \A i, j \in 1..Len(stack) : i < j =>
        /\ <<stack[i], stack[j]>> \notin needs
        /\ (Ahead(stack[j], stack[i]) /\ droppings = {}) =>
              \E k \in i..j - 1 : stack[k] \in Required(stack[j])

(* A layer that was dropped is at fault: put back alone among those that are served it
   fails again, in its own name.                                           *)
DroppedAtFault ==
    stage = "served" =>
        \A p \in droppings :
            LET again == Without(Placed[Cardinality(Layers)], droppings \ {p})
            IN p \in ComposeFaults(again) \cup Failed(again)

(* A step that fails drops somebody, so that the loop ends and no plugin's template keeps
   the product from starting.                                              *)
DropsEachTime ==
    (stage' = "composing" /\ stage # "ordering") => Len(stack') < Len(stack)

(* What the composition promises: the operator's order but for what must be, nobody
   dropped for another's fault, and an end of it.                       *)
StackIsSound ==
    /\ [](OrderIsTheirs /\ DroppedAtFault)
    /\ [][DropsEachTime]_layerVars
==============================================================================
