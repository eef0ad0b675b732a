------------------------------- MODULE McpSignIn -------------------------------
(***************************************************************************)
(* The sign-in of the install to one remote MCP server                     *)
(* (mcpoauth/store.go, flow.go, discovery.go, server/mcpoauth_handlers.go) *)
(* and the token a connection asks for (engine/mcp.go): the row of the     *)
(* grant, the rows of the sign-ins in progress, and the handlers that read *)
(* and write them around calls to an authorization server.                 *)
(*                                                                         *)
(* The authorization servers are external.  They grant what they are asked *)
(* for, and rotate the refresh token at every refresh or at none.  What is *)
(* sealed is the key it was sealed with.                                   *)
(***************************************************************************)
EXTENDS Naturals, Sequences, FiniteSets, FiniteSetsExt

CONSTANTS
    Permissions,   \* scopes
    Challenges,    \* what a refusal of the server may name of them
    Supported,     \* scopes_supported
    AuthLists,     \* what the resource lists: sequences of the servers' documents
    SignIns,       \* sign-ins asked for
    Returns,       \* returns of a browser to the callback
    Connects,      \* connections opened, each asks for the token
    MaxWrites,     \* bound: writes of the grant's row
    MaxSpent,      \* bound: access tokens that ran out
    MaxSealKeys    \* bound: keys the install is started with

ASSUME SignInConstants ==
    /\ {MaxWrites, MaxSpent} \subseteq Nat /\ MaxSealKeys \in Nat \ {0}
    /\ Challenges \subseteq SUBSET Permissions /\ Supported \subseteq Permissions
    /\ \A l \in AuthLists : l \in Seq({"silent", "otherIssuer", "halfNamed", "usable"})

VARIABLES
    grantRow,  \* mcp_oauth: its family of tokens and the refresh token's generation, 0 for none
    pendings,  \* mcp_oauth_pending: the sign-ins whose row stands
    signIn,    \* [SignIns -> where the start handler is, and what the row holds]
    return,    \* [Returns -> where the callback is]
    connect,   \* [Connects -> where Bearer is, the grant it read, what came of it]
    named,     \* whether the server's row names headers of its own
    rotates,   \* whether the servers rotate refresh tokens
    issued,    \* the servers' own: families -> the generation that still refreshes
    sealKey, writes, spendings,
    lostHold   \* families whose newest refresh token never reached this install's table

signInVars == <<grantRow, pendings, signIn, return, connect, named, rotates, issued,
                sealKey, writes, spendings, lostHold>>

policy    == <<named, rotates>>
NoGrant   == [family |-> 0, gen |-> 0, scopes |-> {}, spent |-> FALSE, key |-> 0, rev |-> 0]
NoSignIn  == [pc |-> "idle", asked |-> {}, challenge |-> {}, issuer |-> 0, says |-> FALSE,
              key |-> 0, base |-> 0]
NoReturn  == [pc |-> "idle", of |-> 0, family |-> 0]
NoConnect == [pc |-> "idle", grant |-> NoGrant, gen |-> 0, out |-> "none"]

\* Before the first sign-in, or with the grant of an earlier one, which refreshes (1) or not.
SignInInit(gens, policies) ==
    /\ \/ grantRow = NoGrant /\ issued = <<>> /\ writes = 0
       \/ \E gen \in gens :
             /\ grantRow = [NoGrant EXCEPT !.family = 1, !.gen = gen, !.scopes = Supported, !.key = 1, !.rev = 1]
             /\ issued = <<gen>> /\ writes = 1
    /\ pendings = {} /\ signIn = [s \in SignIns |-> NoSignIn]
    /\ return = [b \in Returns |-> NoReturn] /\ connect = [c \in Connects |-> NoConnect]
    /\ \E p \in policies : rotates = p[1] /\ named = p[2]
    /\ sealKey = 1 /\ spendings = 0 /\ lostHold = {}

Opens(key) == key = sealKey

\* Save: one upsert.
Save(family, gen, scopes) ==
    /\ writes < MaxWrites /\ writes' = writes + 1
    /\ grantRow' = [family |-> family, gen |-> gen, scopes |-> scopes, spent |-> FALSE,
                    key |-> sealKey, rev |-> writes']

------------------------------------------------------------------------------
(* handleStartMCPOAuth.                                                    *)

\* Discover: the first listed server whose document names itself and both endpoints.
Usable(list) == {i \in DOMAIN list : list[i] = "usable"}

\* chooseScopes: a challenge's scopes before those the resource supports.
ChosenScopes(challenge, supported) == IF challenge # {} THEN challenge ELSE supported

\* mcpChallenge and Discover.
DiscoverServer(s) ==
    /\ signIn[s].pc = "idle"
    /\ \E list \in AuthLists, challenge \in Challenges :
          signIn' = [signIn EXCEPT ![s] =
              IF Usable(list) = {} THEN [NoSignIn EXCEPT !.pc = "failed"]
              ELSE [NoSignIn EXCEPT !.pc = "found", !.issuer = Min(Usable(list)),
                                    !.asked = ChosenScopes(challenge, Supported),
                                    !.challenge = challenge]]
    /\ UNCHANGED <<policy, grantRow, pendings, return, connect, issued, sealKey, writes, spendings, lostHold>>

\* Mutant of AskForMore: what is held is asked for in place of nothing only.
AskForChallenge(s) ==
    /\ signIn[s].pc = "found"
    /\ signIn' = [signIn EXCEPT ![s].pc = "asked", ![s].base = grantRow.rev]
    /\ UNCHANGED <<policy, grantRow, pendings, return, connect, issued, sealKey, writes, spendings, lostHold>>

\* StepUpScopes: with a grant that opens, what it holds and what the challenge names.
AskForMore(s) ==
    /\ signIn[s].pc = "found"
    /\ signIn' = [signIn EXCEPT ![s].pc = "asked", ![s].base = grantRow.rev,
                                ![s].challenge = {}, ![s].asked = IF grantRow.family # 0 /\ Opens(grantRow.key)
                                             THEN grantRow.scopes \cup signIn[s].challenge ELSE @]
    /\ UNCHANGED <<policy, grantRow, pendings, return, connect, issued, sealKey, writes, spendings, lostHold>>

\* Begin: the install registers with the server, which may refuse.
RegisterClient(s) ==
    /\ signIn[s].pc = "asked"
    /\ \/ signIn' = [signIn EXCEPT ![s] = [NoSignIn EXCEPT !.pc = "failed"]]
       \/ \E says \in BOOLEAN : signIn' = [signIn EXCEPT ![s].pc = "begun", ![s].says = says]
    /\ UNCHANGED <<policy, grantRow, pendings, return, connect, issued, sealKey, writes, spendings, lostHold>>

SavePending(s) ==
    /\ signIn[s].pc = "begun" /\ pendings' = pendings \cup {s}
    /\ signIn' = [signIn EXCEPT ![s].pc = "sent", ![s].key = sealKey]
    /\ UNCHANGED <<policy, grantRow, return, connect, issued, sealKey, writes, spendings, lostHold>>

\* SweepPending, at a tick of the schedules: rows of a certain age.
SweepPending ==
    \E old \in SUBSET pendings :
       /\ old # {} /\ pendings' = pendings \ old
       /\ UNCHANGED <<policy, grantRow, signIn, return, connect, issued, sealKey, writes, spendings, lostHold>>

------------------------------------------------------------------------------
(* handleMCPOAuthCallback.                                                 *)

\* ValidateIssuer's table; 0 is a response that names no issuer.
IssuerHolds(s, iss) == IF iss = 0 THEN ~signIn[s].says ELSE iss = signIn[s].issuer

\* Mutant of TakePending: the row is read and stays.
ReadPending(b, s) ==
    /\ return[b].pc = "idle" /\ signIn[s].pc = "sent"
    /\ return' = [return EXCEPT ![b] = [NoReturn EXCEPT !.of = s,
          !.pc = IF s \in pendings /\ Opens(signIn[s].key) THEN "taken" ELSE "refused"]]
    /\ UNCHANGED <<policy, grantRow, pendings, signIn, connect, issued, sealKey, writes, spendings, lostHold>>

\* TakePending: read and deleted in one transaction, rolled back when it does not open.
TakePending(b, s) ==
    /\ return[b].pc = "idle" /\ signIn[s].pc = "sent"
    /\ LET mine == s \in pendings /\ Opens(signIn[s].key)
       IN /\ pendings' = IF mine THEN pendings \ {s} ELSE pendings
          /\ return' = [return EXCEPT ![b] = [NoReturn EXCEPT !.of = s,
                                              !.pc = IF mine THEN "taken" ELSE "refused"]]
    /\ UNCHANGED <<policy, grantRow, signIn, connect, issued, sealKey, writes, spendings, lostHold>>

\* The issuer first, then what the response carries.
ReadResponse(b) ==
    /\ return[b].pc = "taken"
    /\ \E iss \in 0..2, carries \in {"error", "nothing", "code"} :
          return' = [return EXCEPT ![b].pc =
              IF IssuerHolds(return[b].of, iss) /\ carries = "code" THEN "exchanging" ELSE "refused"]
    /\ UNCHANGED <<policy, grantRow, pendings, signIn, connect, issued, sealKey, writes, spendings, lostHold>>

\* Exchange: the server starts a family of tokens, or the call fails.
Exchange(b) ==
    /\ return[b].pc = "exchanging"
    /\ \/ return' = [return EXCEPT ![b].pc = "refused"] /\ UNCHANGED issued
       \/ \E refreshes \in {0, 1} :
             /\ issued' = Append(issued, refreshes)
             /\ return' = [return EXCEPT ![b].pc = "granted", ![b].family = Len(issued')]
    /\ UNCHANGED <<policy, grantRow, pendings, signIn, connect, sealKey, writes, spendings, lostHold>>

SaveGrant(b) ==
    /\ return[b].pc = "granted"
    /\ \/ /\ Save(return[b].family, issued[return[b].family], signIn[return[b].of].asked)
          /\ return' = [return EXCEPT ![b].pc = "done"]
       \/ /\ return' = [return EXCEPT ![b].pc = "refused"]
          /\ UNCHANGED <<grantRow, writes>>
    /\ UNCHANGED <<policy, pendings, signIn, connect, issued, sealKey, spendings, lostHold>>

------------------------------------------------------------------------------
(* Bearer, for the headers of a connection.                                *)

Ended(out) == [NoConnect EXCEPT !.pc = "over", !.out = out]
Unusable   == Ended(IF named THEN "failed" ELSE "unsigned")

\* Get, and what mcpHeaders makes of it: a server with header names fails the call for a
\* grant that cannot be used, one without goes unsigned.
ReadGrant(c) ==
    /\ connect[c].pc = "idle"
    /\ LET g == grantRow
       IN connect' = [connect EXCEPT ![c] =
              CASE g.family = 0 -> Ended("unsigned")
                [] g.family # 0 /\ ~Opens(g.key) -> Unusable
                [] g.family # 0 /\ Opens(g.key) /\ ~g.spent -> Ended("signed")
                [] g.family # 0 /\ Opens(g.key) /\ g.spent /\ g.gen = 0 -> Unusable
                [] OTHER -> [NoConnect EXCEPT !.pc = "refreshing", !.grant = g]]
    /\ UNCHANGED <<policy, grantRow, pendings, signIn, return, issued, sealKey, writes, spendings, lostHold>>

\* Refresh: the server takes its current token, and may issue another in its place.
RefreshToken(c) ==
    /\ connect[c].pc = "refreshing"
    /\ LET g == connect[c].grant
       IN /\ issued[g.family] = g.gen
          /\ \/ /\ ~rotates /\ UNCHANGED issued
                /\ connect' = [connect EXCEPT ![c].pc = "refreshed", ![c].gen = 0]
             \/ /\ rotates /\ issued' = [issued EXCEPT ![g.family] = @ + 1]
                /\ connect' = [connect EXCEPT ![c].pc = "refreshed", ![c].gen = g.gen + 1]
    /\ UNCHANGED <<policy, grantRow, pendings, signIn, return, sealKey, writes, spendings, lostHold>>

\* A refusal, or an answer that never came although the server may have rotated.
RefreshFails(c) ==
    /\ connect[c].pc = "refreshing"
    /\ connect' = [connect EXCEPT ![c] = Unusable]
    /\ LET f == connect[c].grant.family
       IN \/ UNCHANGED <<issued, lostHold>>
          \/ /\ rotates /\ issued[f] = connect[c].grant.gen
             /\ issued' = [issued EXCEPT ![f] = @ + 1] /\ lostHold' = lostHold \cup {f}
    /\ UNCHANGED <<policy, grantRow, pendings, signIn, return, sealKey, writes, spendings>>

\* Mutant of SaveRefresh: an answer without a refresh token empties the one held.
SaveAnswer(c) ==
    /\ connect[c].pc = "refreshed"
    /\ connect' = [connect EXCEPT ![c] = Ended("signed")]
    /\ Save(connect[c].grant.family, connect[c].gen, connect[c].grant.scopes) /\ UNCHANGED lostHold
    /\ UNCHANGED <<policy, pendings, signIn, return, issued, sealKey, spendings>>

\* The old refresh token is kept when none came back; a failure to save is only logged.
SaveRefresh(c) ==
    /\ connect[c].pc = "refreshed"
    /\ connect' = [connect EXCEPT ![c] = Ended("signed")]
    /\ LET g == connect[c].grant
       IN \/ /\ Save(g.family, IF connect[c].gen = 0 THEN g.gen ELSE connect[c].gen, g.scopes)
             /\ UNCHANGED lostHold
          \/ /\ lostHold' = IF connect[c].gen = 0 THEN lostHold ELSE lostHold \cup {g.family}
             /\ UNCHANGED <<grantRow, writes>>
    /\ UNCHANGED <<policy, pendings, signIn, return, issued, sealKey, spendings>>

------------------------------------------------------------------------------
ForgetGrant ==
    /\ grantRow.family # 0 /\ grantRow' = [NoGrant EXCEPT !.rev = writes]
    /\ UNCHANGED <<policy, pendings, signIn, return, connect, issued, sealKey, writes, spendings, lostHold>>

SpendToken ==
    /\ grantRow.family # 0 /\ ~grantRow.spent /\ spendings < MaxSpent
    /\ spendings' = spendings + 1 /\ grantRow' = [grantRow EXCEPT !.spent = TRUE]
    /\ UNCHANGED <<policy, pendings, signIn, return, connect, issued, sealKey, writes, lostHold>>

\* Started again with another key: whatever was under way is gone.
StartWithKey ==
    /\ sealKey < MaxSealKeys /\ sealKey' = sealKey + 1
    /\ signIn' = [s \in SignIns |-> IF signIn[s].pc \in {"idle", "sent"} THEN signIn[s]
                                    ELSE [NoSignIn EXCEPT !.pc = "failed"]]
    /\ return' = [b \in Returns |-> IF return[b].pc = "idle" THEN NoReturn
                                    ELSE [return[b] EXCEPT !.pc = "refused"]]
    /\ connect' = [c \in Connects |-> IF connect[c].pc = "idle" THEN NoConnect
                                      ELSE [NoConnect EXCEPT !.pc = "over"]]
    /\ lostHold' = lostHold \cup {connect[c].grant.family : c \in {d \in Connects : connect[d].pc = "refreshed"}}
    /\ UNCHANGED <<policy, grantRow, pendings, issued, writes, spendings>>

SignInNext ==
    \/ \E s \in SignIns : DiscoverServer(s) \/ AskForMore(s) \/ RegisterClient(s) \/ SavePending(s)
    \/ \E b \in Returns : (\E s \in SignIns : TakePending(b, s)) \/ ReadResponse(b) \/ Exchange(b) \/ SaveGrant(b)
    \/ \E c \in Connects : ReadGrant(c) \/ RefreshToken(c) \/ RefreshFails(c) \/ SaveRefresh(c)
    \/ SweepPending \/ ForgetGrant \/ SpendToken \/ StartWithKey

SignInSpec == SignInInit({0, 1}, BOOLEAN \X BOOLEAN) /\ [][SignInNext]_signInVars
------------------------------------------------------------------------------
SignInTypeOK ==
    /\ grantRow.family \in 0..Len(issued) /\ grantRow.scopes \subseteq Permissions
    /\ pendings \subseteq {s \in SignIns : signIn[s].pc = "sent"}
    /\ issued \in Seq(Nat) /\ sealKey \in 1..MaxSealKeys /\ lostHold \subseteq DOMAIN issued

(* However refreshes race each other, a sign-in, a removal and a restart, the refresh token
   in the row is the one its server still takes, except while an answer is on its way to
   the row, and except when it was lost on that way.                       *)
RefreshIsHeld ==
    LET f == grantRow.family
    IN f # 0 /\ f \notin lostHold
       /\ (\A c \in Connects : connect[c].pc = "refreshed" => connect[c].grant.family # f)
       => grantRow.gen = issued[f]

(* A sign-in asks for all that the grant holds, whatever the challenge named, unless the
   grant was written, or could not be opened, since it looked.            *)
StepUpKeeps ==
    \A s \in SignIns :
       signIn[s].pc \in {"asked", "begun", "sent"} /\ grantRow.family # 0
       /\ Opens(grantRow.key) /\ signIn[s].base = grantRow.rev
       => grantRow.scopes \subseteq signIn[s].asked

\* A sign-in in progress is finished by one return of a browser, however often it returns.
TakenOnce ==
    \A a, b \in Returns :
       a # b /\ return[a].of = return[b].of /\ return[a].of # 0
       => return[a].pc = "refused" \/ return[b].pc = "refused"

SignInIsSound == RefreshIsHeld /\ StepUpKeeps /\ TakenOnce
==============================================================================
