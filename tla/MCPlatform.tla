------------------------------ MODULE MCPlatform ------------------------------
(***************************************************************************)
(* Small instances for TLC of what the product runs on: its plugins, the   *)
(* interface composed of them, their backends, the containers gears run    *)
(* in, the question about updates, and the servers agents' calls go to.  A *)
(* behaviour is about one of them, chosen at first; the others rest where  *)
(* they begin.                                                             *)
(***************************************************************************)
EXTENDS PluginShelf, LayerStack, PluginBackend, WarmPool, UpdateCheck, McpSignIn, McpWire

VARIABLE focus

MCBundles ==
    {[id |-> "a", version |-> 1, edition |-> 1, needs |-> TRUE, renders |-> TRUE],
     [id |-> "a", version |-> 1, edition |-> 2, needs |-> TRUE, renders |-> TRUE],
     [id |-> "a", version |-> 2, edition |-> 1, needs |-> FALSE, renders |-> FALSE],
     [id |-> "b", version |-> 1, edition |-> 1, needs |-> FALSE, renders |-> TRUE]}

MCBodies ==
    [n \in Names |-> CASE n \in HostNames -> {"absent", "plain", "wraps", "core", "faulty", "faultyWrap"}
                       [] n \in SlotNames -> {"absent", "plain", "faulty"}
                       [] n \in OwnNames  -> {"absent", "plain", "wraps", "core"}]
\* Those of them that keep to what is beneath, under one name of plugins; and those of
\* layers that reach past it.
Beneath == [n \in Names |-> IF n = 4 THEN {"absent"} ELSE MCBodies[n] \ {"core"}]
Past    == [n \in Names |-> CASE n \in HostNames -> {"absent", "core", "faultyWrap"}
                              [] n \in SlotNames -> {"absent"}
                              [] n \in OwnNames  -> {"absent", "wraps", "core"}]

MCAuthLists == {<<"silent">>, <<"otherIssuer", "usable">>}
MCMaxPosts == [k \in Kinds |-> IF k = "legacy" THEN 3 ELSE 4]
MCChallenges == {{}, {"write"}}

Blank == [p \in Layers |-> [n \in Names |-> "absent"]]

(* Every list and every requirement, of layers with nothing in them; and the bodies, of
   two layers on the list and one that is not.                             *)
LayersBegin ==
    IF focus = "layers"
    THEN LayerInit(AllLists, AllNeeds, {Blank}) \/ LayerInit({<<2, 1>>}, {{}}, AllBodies(Beneath) \cup AllBodies(Past))
    ELSE LayerInit({<<>>}, {{}}, {Blank})

\* While a behaviour is about another of them the connection rests, as one by streamable HTTP.
ASSUME WireRests == "stream" \in Kinds

PlatformInit ==
    /\ focus \in {"shelf", "layers", "backend", "warm", "update", "signIn", "wire"}
    /\ ShelfInit(IF focus = "shelf" THEN SUBSET Bundles ELSE {{}})
    /\ LayersBegin /\ BackendInit /\ WarmInit
    /\ UpdateInit(IF focus = "update" THEN Modes ELSE {"ask"})
    /\ IF focus = "signIn" THEN SignInInit({0, 1}, {<<TRUE, FALSE>>, <<FALSE, TRUE>>})
                             ELSE SignInInit({}, {<<FALSE, FALSE>>})
    /\ IF focus = "wire" THEN WireInit(Kinds, {"probe", "pool"}) ELSE WireInit({"stream"}, {"pool"})

PlatformNext ==
    /\ UNCHANGED focus
    /\ \/ /\ focus = "shelf" /\ ShelfNext
          /\ UNCHANGED <<layerVars, backendVars, warmVars, updateVars, signInVars, wireVars>>
       \/ /\ focus = "layers" /\ LayerNext
          /\ UNCHANGED <<shelfVars, backendVars, warmVars, updateVars, signInVars, wireVars>>
       \/ /\ focus = "backend" /\ BackendNext
          /\ UNCHANGED <<shelfVars, layerVars, warmVars, updateVars, signInVars, wireVars>>
       \/ /\ focus = "warm" /\ WarmNext
          /\ UNCHANGED <<shelfVars, layerVars, backendVars, updateVars, signInVars, wireVars>>
       \/ /\ focus = "update" /\ UpdateNext
          /\ UNCHANGED <<shelfVars, layerVars, backendVars, warmVars, signInVars, wireVars>>
       \/ /\ focus = "signIn" /\ SignInNext
          /\ UNCHANGED <<shelfVars, layerVars, backendVars, warmVars, updateVars, wireVars>>
       \/ /\ focus = "wire" /\ WireNext
          /\ UNCHANGED <<shelfVars, layerVars, backendVars, warmVars, updateVars, signInVars>>

PlatformSpec ==
    PlatformInit /\ [][PlatformNext]_<<focus, shelfVars, layerVars, backendVars, warmVars,
                                       updateVars, signInVars, wireVars>>

\* Every one of them stays within its types.
PlatformTypeOK ==
    ShelfTypeOK /\ LayerTypeOK /\ BackendTypeOK /\ WarmTypeOK /\ UpdateTypeOK
    /\ SignInTypeOK /\ WireTypeOK

\* What is said to a server's face: its sign-in and its connection (mcpoauth, mcpclient).
McpIsSound == SignInIsSound /\ WireIsSound
==============================================================================
