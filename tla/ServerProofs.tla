----------------------------- MODULE ServerProofs -----------------------------
(***************************************************************************)
(* Proofs about Server, for any number of callers, any deployments, files, *)
(* tools, tokens and arguments, and any number of edits.                   *)
(***************************************************************************)
EXTENDS Server, TLAPS

(***************************************************************************)
(* The inductive invariant.                                                *)
(***************************************************************************)

Turns == {"token", "resolve", "describe", "loaded", "fresh"}

Typed ==
    /\ phase \in {"starting", "failed", "serving", "stopped"}
    /\ edits \in Nat /\ seen \in Nat /\ read \in Nat
    /\ torn \in BOOLEAN
    /\ turn \in Callers \cup {None}
    /\ pc \in [Callers -> {"idle", "running", "done"} \cup Turns]
    /\ began \in [Callers -> Nat]
    /\ DOMAIN request = Callers
    /\ DOMAIN todo = Callers
    /\ DOMAIN client = Callers
    /\ DOMAIN answer = Callers

\* One call at a time is in a look at the registry; no call began in the
\* future, or before the server did.
InTurn ==
    /\ \A c \in Callers : pc[c] \in Turns <=> turn = c
    /\ \A c \in Callers : began[c] <= edits
    /\ phase \in {"starting", "failed"} => \A c \in Callers : pc[c] = "idle"

\* The settings are those of a deployment that starts.
Settled ==
    /\ d \in Deployments
    /\ config = Configured(d)
    /\ phase \in {"serving", "stopped"} => ServerStarts(d)

\* Who is in was admitted; who was not is gone.
Doorkeeping ==
    \A c \in Callers :
        /\ InTheServer(c) => Admitted(request[c].token)
        /\ answer[c] = "unauthorized" => pc[c] = "done"

\* The registry's copy: a file there may be, of the edit it was made at.
Copied ==
    /\ file \in DeclaredFiles
    /\ declared \in (DeclaredFiles \ {Broken}) \cup {<<>>}
    /\ ~torn => read = IF \E c \in Callers : pc[c] = "loaded" THEN edits ELSE seen
    /\ \A c \in Callers : pc[c] = "fresh" => read >= began[c] \/ torn

\* Where each user has his own client, no call resolves a name for itself.
OwnClients ==
    \A c \in Callers :
        /\ pc[c] = "idle" => todo[c] = {}
        /\ pc[c] = "token" => perUser
        /\ pc[c] = "resolve" => ~perUser /\ todo[c] = {}
        /\ perUser /\ pc[c] \in {"describe", "loaded", "fresh"} => todo[c] # {}
        /\ pc[c] = "describe" => todo[c] # {}

\* The client is the one kept for what the argument stands for, to the
\* identity of the token under the settings.
Who(server, token) ==
    IF server.transport = "http" /\ \E i \in server.identities : i.token = token
    THEN CHOOSE i \in server.identities : i.token = token
    ELSE Anybody

KeptFor(server, trac_, call, kept) ==
    \E file_ \in (DeclaredFiles \ {Broken}) \cup {<<>>} :
        LET found == Resolve(call.arg, Who(server, call.token), trac_, file_)
        IN found \notin {Unknown, NotAllowed} /\ ClientKey(kept) = ClientKey(found)

Entrusted ==
    \A c \in Callers :
        /\ pc[c] = "idle" => client[c] = NoClient
        /\ pc[c] # "idle" => request[c].arg \in Arguments
        /\ client[c] # NoClient =>
              IF perUser THEN client[c] = UserClient(request[c].token)
              ELSE KeptFor(settings, trac, request[c], client[c])

\* While the file is as the call found it when it began, the copy is good,
\* and so are the names to describe.
Undisturbed(c) ==
    /\ edits = began[c] /\ ~perUser =>
         /\ pc[c] \in {"fresh", "running", "describe"} =>
               seen = edits /\ (pc[c] # "running" => todo[c] \subseteq DOMAIN declared)
         /\ pc[c] = "loaded" => todo[c] = {}
    /\ answer[c] = "unchecked" => pc[c] = "done" /\ (edits > began[c] \/ perUser)

(***************************************************************************)
(* The steps.                                                              *)
(***************************************************************************)

Base == Typed /\ InTurn /\ Settled

\* How a call ends, and how it gets its client.
LEMMA EndFacts ==
    ASSUME Typed, NEW c \in Callers, NEW a, End(c, a)
    PROVE  /\ pc'[c] = "done" /\ answer'[c] = a /\ turn' = None
           /\ \A o \in Callers \ {c} : pc'[o] = pc[o] /\ answer'[o] = answer[o]
           /\ pc' \in [Callers -> {"idle", "running", "done"} \cup Turns]
           /\ DOMAIN answer' = Callers
BY DEF Typed, End

LEMMA MoveFacts ==
    ASSUME Typed, NEW c \in Callers, NEW step \in Turns,
           pc' = [pc EXCEPT ![c] = step]
    PROVE  /\ pc'[c] = step
           /\ \A o \in Callers \ {c} : pc'[o] = pc[o]
           /\ pc' \in [Callers -> {"idle", "running", "done"} \cup Turns]
BY DEF Typed

LEMMA DispatchFacts ==
    ASSUME Typed, NEW c \in Callers, NEW with, Dispatch(c, with)
    PROVE  /\ pc'[c] \in {"running", "done"} /\ turn' = None
           /\ client'[c] = with
           /\ answer'[c] \in {answer[c], "unknown_tool"}
           /\ pc'[c] = "done" \/ answer'[c] = answer[c]
           /\ \A o \in Callers \ {c} : /\ pc'[o] = pc[o] /\ answer'[o] = answer[o]
                                      /\ client'[o] = client[o]
           /\ pc' \in [Callers -> {"idle", "running", "done"} \cup Turns]
           /\ DOMAIN answer' = Callers /\ DOMAIN client' = Callers
<1>1. /\ client'[c] = with /\ DOMAIN client' = Callers
      /\ \A o \in Callers \ {c} : client'[o] = client[o]
  BY DEF Typed, Dispatch
<1>2. CASE request[c].tool \in config.tools
  BY <1>1, <1>2 DEF Typed, Dispatch
<1>3. CASE request[c].tool \notin config.tools
  BY <1>1, <1>3, EndFacts DEF Dispatch
<1> QED BY <1>2, <1>3

\* What a step of a call does to the variables of the calls: as far as all
\* of them are concerned, the rest by step.
LEMMA CallFrame ==
    ASSUME Typed, NEW c \in Callers, Call(c)
    PROVE  /\ UNCHANGED <<startVars, phase, file, edits>>
           /\ Typed'
           /\ \A o \in Callers \ {c} :
                /\ pc'[o] = pc[o] /\ request'[o] = request[o] /\ todo'[o] = todo[o]
                /\ client'[o] = client[o] /\ answer'[o] = answer[o]
                /\ began'[o] = began[o]
           /\ phase = "serving" \/ turn = c \/ pc[c] = "running"
           /\ IF pc[c] \in {"idle", "running"} THEN turn = None ELSE turn = c
           /\ IF pc'[c] \in Turns THEN turn' = c
              ELSE pc'[c] \in {"running", "done"} /\ turn' = None
           /\ pc[c] # "idle" => request' = request /\ began' = began
           /\ began'[c] \in {began[c], edits}
           /\ Receive(c) \/ (pc[c] \in Turns \cup {"running"} /\ pc'[c] # "idle")
           /\ pc'[c] = "done" \/ answer'[c] = answer[c]
<1> USE DEF startVars, registryVars, Turns
<1>1. CASE Receive(c)
  <2>1. /\ UNCHANGED <<startVars, phase, file, edits, registryVars, todo, client>>
        /\ phase = "serving" /\ turn = None /\ pc[c] = "idle"
    BY <1>1 DEF Receive
  <2>2. PICK token, tool, arg :
            /\ request' = [request EXCEPT ![c] =
                              [token |-> token, tool |-> tool, arg |-> arg]]
            /\ began' = [began EXCEPT ![c] = edits]
            /\ IF Admitted(token)
               THEN /\ pc' = [pc EXCEPT ![c] = IF perUser THEN "token" ELSE "resolve"]
                    /\ turn' = c
                    /\ UNCHANGED answer
               ELSE End(c, "unauthorized")
    BY <1>1 DEF Receive
  <2>3. /\ \A o \in Callers \ {c} : request'[o] = request[o] /\ began'[o] = began[o]
        /\ DOMAIN request' = Callers /\ began' \in [Callers -> Nat] /\ began'[c] = edits
    BY <2>2 DEF Typed
  <2>4. CASE Admitted(token)
    <3>1. /\ pc'[c] \in Turns /\ turn' = c /\ answer' = answer
          /\ \A o \in Callers \ {c} : pc'[o] = pc[o]
          /\ pc' \in [Callers -> {"idle", "running", "done"} \cup Turns]
      BY <2>2, <2>4 DEF Typed, Turns
    <3>2. Typed'
      BY <2>1, <2>3, <3>1 DEF Typed
    <3> QED BY <1>1, <2>1, <2>3, <3>1, <3>2
  <2>5. CASE ~Admitted(token)
    <3>1. End(c, "unauthorized")
      BY <2>2, <2>5
    <3> QED BY <1>1, <2>1, <2>3, <3>1, EndFacts DEF Typed
  <2> QED BY <2>4, <2>5
<1>2. CASE GetUserClient(c)
  <2>1. /\ UNCHANGED <<startVars, phase, file, edits, registryVars, request, todo, began>>
        /\ turn = c /\ pc[c] = "token"
        /\ \/ Dispatch(c, UserClient(request[c].token))
           \/ End(c, "validation_error") /\ UNCHANGED client
    BY <1>2 DEF GetUserClient
  <2>2. CASE Dispatch(c, UserClient(request[c].token))
    BY <2>1, <2>2, DispatchFacts DEF Typed
  <2>3. CASE End(c, "validation_error") /\ UNCHANGED client
    BY <2>1, <2>3, EndFacts DEF Typed
  <2> QED BY <2>1, <2>2, <2>3
<1>3. CASE Look(c)
  <2>1. /\ UNCHANGED <<startVars, phase, file, edits, registryVars, turn, request,
                        todo, client, answer, began>>
        /\ turn = c /\ pc[c] \in {"resolve", "describe"}
        /\ pc' = [pc EXCEPT ![c] = "fresh"]
    BY <1>3 DEF Look
  <2>2. "fresh" \in Turns
    BY DEF Turns
  <2>3. Typed'
    BY <2>1, <2>2, MoveFacts DEF Typed
  <2> QED BY <2>1, <2>2, <2>3, MoveFacts
<1>4. CASE Load(c)
  <2>1. /\ UNCHANGED <<startVars, phase, file, edits, seen, request, todo, client, began>>
        /\ turn = c /\ pc[c] \in {"resolve", "describe"}
    BY <1>4 DEF Load
  <2>2. CASE file = Broken
    <3>1. End(c, Raised(c)) /\ UNCHANGED <<declared, read, torn>>
      BY <1>4, <2>2 DEF Load
    <3> QED BY <2>1, <3>1, EndFacts DEF Typed
  <2>3. CASE file # Broken
    <3>1. /\ read' = edits /\ torn' = FALSE /\ UNCHANGED <<turn, answer>>
          /\ pc' = [pc EXCEPT ![c] = "loaded"]
      BY <1>4, <2>3 DEF Load
    <3>2. "loaded" \in Turns
      BY DEF Turns
    <3>3. Typed'
      BY <2>1, <3>1, <3>2, MoveFacts DEF Typed
    <3> QED BY <2>1, <3>1, <3>2, <3>3, MoveFacts
  <2> QED BY <2>2, <2>3
<1>5. CASE Stamp(c)
  <2>1. /\ UNCHANGED <<startVars, phase, file, edits, read, torn, turn, request,
                        todo, client, answer, began>>
        /\ turn = c /\ pc[c] = "loaded"
        /\ pc' = [pc EXCEPT ![c] = "fresh"] /\ seen' = edits
    BY <1>5 DEF Stamp
  <2>2. "fresh" \in Turns
    BY DEF Turns
  <2>3. Typed'
    BY <2>1, <2>2, MoveFacts DEF Typed
  <2> QED BY <2>1, <2>2, <2>3, MoveFacts
<1>6. CASE ResolveClient(c)
  <2>1. /\ UNCHANGED <<startVars, phase, file, edits, registryVars, request, todo, began>>
        /\ turn = c /\ pc[c] = "fresh"
        /\ \/ \E a : End(c, a) /\ UNCHANGED client
           \/ \E with : Dispatch(c, with)
    BY <1>6 DEF ResolveClient
  <2>2. ASSUME NEW a, End(c, a), UNCHANGED client
        PROVE  /\ Typed' /\ pc'[c] = "done" /\ turn' = None
               /\ \A o \in Callers \ {c} : /\ pc'[o] = pc[o] /\ answer'[o] = answer[o]
                                          /\ client'[o] = client[o]
    BY <2>1, <2>2, EndFacts DEF Typed
  <2>3. ASSUME NEW with, Dispatch(c, with)
        PROVE  /\ Typed' /\ pc'[c] \in {"running", "done"} /\ turn' = None
               /\ pc'[c] = "done" \/ answer'[c] = answer[c]
               /\ \A o \in Callers \ {c} : /\ pc'[o] = pc[o] /\ answer'[o] = answer[o]
                                          /\ client'[o] = client[o]
    BY <2>1, <2>3, DispatchFacts DEF Typed
  <2> QED BY <2>1, <2>2, <2>3
<1>7. CASE Run(c)
  <2>1. /\ UNCHANGED <<startVars, phase, file, edits, registryVars, request, client, began>>
        /\ turn = None /\ pc[c] = "running"
    BY <1>7 DEF Run
  <2>2. CASE Describes(c) /\ DOMAIN declared # {}
    <3>1. /\ todo' = [todo EXCEPT ![c] = DOMAIN declared] /\ UNCHANGED answer
          /\ turn' = c /\ pc' = [pc EXCEPT ![c] = "describe"]
      BY <1>7, <2>2 DEF Run
    <3>2. "describe" \in Turns
      BY DEF Turns
    <3>3. Typed'
      BY <2>1, <3>1, <3>2, MoveFacts DEF Typed
    <3>4. \A o \in Callers \ {c} : todo'[o] = todo[o]
      BY <3>1 DEF Typed
    <3> QED BY <2>1, <3>1, <3>2, <3>3, <3>4, MoveFacts
  <2>3. CASE ~(Describes(c) /\ DOMAIN declared # {})
    <3>1. PICK a : End(c, a) /\ UNCHANGED todo
      BY <1>7, <2>3 DEF Run
    <3> QED BY <2>1, <3>1, EndFacts DEF Typed
  <2> QED BY <2>2, <2>3
<1>8. CASE DescribeOne(c)
  <2>1. /\ UNCHANGED <<startVars, phase, file, edits, registryVars, request, client, began>>
        /\ turn = c /\ pc[c] = "fresh"
    BY <1>8 DEF DescribeOne
  <2>2. /\ DOMAIN todo' = Callers
        /\ \A o \in Callers \ {c} : todo'[o] = todo[o]
        /\ \/ \E a : End(c, a)
           \/ pc' = [pc EXCEPT ![c] = "describe"] /\ UNCHANGED <<turn, answer>>
    BY <1>8 DEF DescribeOne, Typed
  <2>3. ASSUME NEW a, End(c, a)
        PROVE  /\ Typed' /\ pc'[c] = "done" /\ turn' = None
               /\ \A o \in Callers \ {c} : pc'[o] = pc[o] /\ answer'[o] = answer[o]
    BY <2>1, <2>2, <2>3, EndFacts DEF Typed
  <2>4. CASE pc' = [pc EXCEPT ![c] = "describe"] /\ UNCHANGED <<turn, answer>>
    <3>1. "describe" \in Turns
      BY DEF Turns
    <3>2. Typed'
      BY <2>1, <2>2, <2>4, <3>1, MoveFacts DEF Typed
    <3> QED BY <2>1, <2>2, <2>4, <3>1, <3>2, MoveFacts
  <2> QED BY <2>1, <2>2, <2>3, <2>4
<1> QED BY <1>1, <1>2, <1>3, <1>4, <1>5, <1>6, <1>7, <1>8 DEF Call

\* Every step: the settings stay, and a call's step is framed as above.
LEMMA BaseAlways == Spec => []Base
<1>1. Init => Base
  <2> SUFFICES ASSUME Init PROVE Base
    OBVIOUS
  <2>1. Typed
    BY DEF Init, Typed
  <2>2. InTurn
    BY ServerAssumption DEF Init, InTurn, Turns, None
  <2> QED BY <2>1, <2>2 DEF Init, Base, Settled
<1>2. Base /\ [Next]_vars => Base'
  <2> SUFFICES ASSUME Base, [Next]_vars PROVE Base'
    OBVIOUS
  <2> USE DEF startVars, registryVars, callVars
  <2>1. ASSUME NEW c \in Callers, Call(c) PROVE Base'
    <3>1. Typed'
      BY <2>1, CallFrame DEF Base
    <3>2. InTurn'
      <4>1. \A o \in Callers : pc'[o] \in Turns <=> turn' = o
        BY <2>1, CallFrame, ServerAssumption DEF Base, InTurn, None, Turns
      <4>2. \A o \in Callers : began'[o] <= edits'
        BY <2>1, CallFrame DEF Base, InTurn, Typed
      <4>3. phase' \notin {"starting", "failed"}
        BY <2>1, CallFrame DEF Base, InTurn, Turns
      <4> QED BY <4>1, <4>2, <4>3 DEF InTurn
    <3>3. Settled'
      BY <2>1, CallFrame DEF Base, Settled
    <3> QED BY <3>1, <3>2, <3>3 DEF Base
  <2>2. CASE Fail
    BY <2>2 DEF Fail, Base, Typed, InTurn, Settled
  <2>3. CASE Start
    BY <2>3 DEF Start, Starts, Base, Typed, InTurn, Settled
  <2>4. CASE Stop
    <3>1. UNCHANGED <<startVars, edits, seen, read, torn, turn, request, todo, client, began>>
          /\ phase' = "stopped" /\ phase = "serving"
      BY <2>4 DEF Stop
    <3>2. pc' \in [Callers -> {"idle", "running", "done"} \cup Turns] /\ DOMAIN answer' = Callers
      BY <2>4 DEF Stop, Base, Typed
    <3>3. \A c \in Callers : pc'[c] \in Turns <=> pc[c] \in Turns
      BY <2>4 DEF Stop, Base, Typed, Turns
    <3> QED BY <3>1, <3>2, <3>3 DEF Base, Typed, InTurn, Settled
  <2>5. CASE EditFile
    <3>1. /\ UNCHANGED <<startVars, phase, seen, read, turn, callVars>>
          /\ edits' = edits + 1 /\ torn' \in BOOLEAN
      BY <2>5 DEF EditFile, Base, Typed
    <3>2. \A c \in Callers : began'[c] <= edits'
      BY <3>1 DEF Base, Typed, InTurn
    <3> QED BY <3>1, <3>2 DEF Base, Typed, InTurn, Settled
  <2>6. CASE UNCHANGED vars
    BY <2>6 DEF vars, Base, Typed, InTurn, Settled
  <2> QED BY <2>1, <2>2, <2>3, <2>4, <2>5, <2>6 DEF Next
<1> QED BY <1>1, <1>2, PTL DEF Spec

\* The steps that are no call's leave the calls as they are, except that the
\* end of the server cancels those that are with a tool.
LEMMA OtherFrame ==
    ASSUME Base, Fail \/ Start \/ Stop \/ EditFile \/ UNCHANGED vars
    PROVE  /\ UNCHANGED <<startVars, turn, request, todo, client, resolved, began>>
           /\ \A c \in Callers :
                /\ pc'[c] = pc[c] \/ (pc[c] = "running" /\ pc'[c] = "done")
                /\ answer'[c] = answer[c] \/ (pc[c] = "running" /\ answer'[c] = "cancelled")
           /\ declared' # declared => \A c \in Callers : pc[c] = "idle"
           /\ edits' \in {edits, edits + 1}
<1> USE DEF startVars, registryVars, callVars
<1>1. CASE Stop
  BY <1>1 DEF Stop, Base, Typed
<1>2. CASE ~Stop
  BY <1>2 DEF Fail, Start, EditFile, vars, Base, InTurn
<1> QED BY <1>1, <1>2

(***************************************************************************)
(* The door.                                                               *)
(***************************************************************************)

LEMMA AdmissionStays ==
    ASSUME UNCHANGED config, NEW token
    PROVE  Admitted(token)' <=> Admitted(token)
BY DEF Admitted, Matches, perUser, settings

LEMMA DoorkeepingStep ==
    ASSUME Base, Doorkeeping, [Next]_vars
    PROVE  Doorkeeping'
<1>1. ASSUME NEW c \in Callers, Call(c) PROVE Doorkeeping'
  <2>1. UNCHANGED config
    BY <1>1, CallFrame DEF Base, startVars
  <2>2. ASSUME NEW o \in Callers \ {c}
        PROVE  /\ InTheServer(o)' => Admitted(request'[o].token)
               /\ answer'[o] = "unauthorized" => pc'[o] = "done"
    BY <1>1, CallFrame DEF Base, Doorkeeping, InTheServer
  <2>3. CASE Receive(c)
    <3>1. PICK token, tool, arg :
            /\ request' = [request EXCEPT ![c] =
                              [token |-> token, tool |-> tool, arg |-> arg]]
            /\ IF Admitted(token) THEN UNCHANGED answer ELSE End(c, "unauthorized")
      BY <2>3 DEF Receive
    <3>2. request'[c].token = token
      BY <3>1 DEF Base, Typed
    <3>3. CASE Admitted(token)
      <4>1. answer'[c] # "unauthorized"
        BY <2>3, <3>1, <3>3 DEF Doorkeeping, Receive
      <4> QED BY <3>2, <3>3, <4>1, <2>2, AdmissionStays, <2>1 DEF Doorkeeping
    <3>4. CASE ~Admitted(token)
      <4>1. answer'[c] = "unauthorized" /\ pc'[c] = "done"
        BY <3>1, <3>4, EndFacts DEF Base
      <4> QED BY <4>1, <2>2, AdmissionStays, <2>1 DEF Doorkeeping, InTheServer
    <3> QED BY <3>3, <3>4
  <2>4. CASE ~Receive(c)
    <3>1. /\ pc[c] \in Turns \cup {"running"} /\ pc'[c] # "idle"
          /\ pc'[c] = "done" \/ answer'[c] = answer[c]
          /\ request' = request
      BY <1>1, <2>4, CallFrame DEF Base, Turns
    <3>2. answer[c] # "unauthorized" /\ Admitted(request[c].token)
      BY <3>1 DEF Doorkeeping, InTheServer, Turns
    <3> QED BY <2>1, <2>2, <3>1, <3>2, AdmissionStays DEF Doorkeeping, InTheServer
  <2> QED BY <2>3, <2>4
<1>2. CASE Fail \/ Start \/ Stop \/ EditFile \/ UNCHANGED vars
  <2>1. UNCHANGED config
    BY <1>2, OtherFrame DEF startVars
  <2> QED BY <1>2, <2>1, OtherFrame, AdmissionStays DEF Doorkeeping, InTheServer
<1> QED BY <1>1, <1>2 DEF Next

\* A server that asks for no token at all listens on this machine only, or
\* wherever the operator says that anybody may come in.
LEMMA UnguardedIsSaid ==
    ASSUME NEW s, ValidServer(s), s.transport = "http",
           s.auth_token = Unset, s.identities = {}, s.oidc = Unset
    PROVE  s.open \/ s.host = "loopback"
BY DEF ValidServer, BindIsSafe, Authenticates

\* Over HTTP nobody gets in but with a token the operator gave out, or with
\* some token where Trac is to judge it; where no token is asked for, only
\* this machine gets in, or anybody if the operator says so.
THEOREM OnlyEntitledEnter == Spec => []OnlyEntitledCallersEnter
<1>1. Init => Doorkeeping
  BY DEF Init, Doorkeeping, InTheServer, None
<1>2. Base /\ Doorkeeping /\ [Next]_vars => Doorkeeping'
  BY DoorkeepingStep
<1>3. Base /\ Doorkeeping => OnlyEntitledCallersEnter
  <2> SUFFICES ASSUME Base, Doorkeeping, NEW c \in Callers, InTheServer(c),
                      settings.transport = "http"
               PROVE  \/ request[c].token \in KnownTokens
                      \/ perUser /\ request[c].token # Unset
                      \/ /\ KnownTokens = {} /\ ~perUser
                         /\ settings.open \/ settings.host = "loopback"
    BY DEF OnlyEntitledCallersEnter
  <2>1. Matches(request[c].token) /\ (perUser => request[c].token # Unset)
    BY DEF Doorkeeping, Admitted
  <2>2. phase \in {"serving", "stopped"}
    BY DEF Base, Typed, InTurn, InTheServer
  <2>3. settings = ServerSettings(d) /\ ServerStarts(d)
    BY <2>2 DEF Base, Settled, Configured, settings
  <2>4. settings.identities = d.identities
    BY <2>3 DEF ServerSettings
  <2>5. ValidServer(settings) /\ IdentitiesAreSound(d.identities)
    BY <2>3 DEF ServerStarts
  <2>6. CASE settings.auth_token = Unset /\ settings.identities = {}
    <3>1. KnownTokens = {}
      BY <2>4, <2>6 DEF KnownTokens
    <3>2. ~perUser => settings.open \/ settings.host = "loopback"
      BY <2>5, <2>6, UnguardedIsSaid DEF perUser
    <3> QED BY <2>1, <3>1, <3>2
  <2>7. CASE request[c].token # Unset /\ request[c].token = settings.auth_token
    BY <2>7 DEF KnownTokens
  <2>8. ASSUME NEW i \in settings.identities, i.token = request[c].token
        PROVE  request[c].token \in KnownTokens
    BY <2>4, <2>5, <2>8 DEF KnownTokens, IdentitiesAreSound
  <2> QED BY <2>1, <2>6, <2>7, <2>8 DEF Matches
<1> QED BY <1>1, <1>2, <1>3, BaseAlways, PTL DEF Spec

(***************************************************************************)
(* The copy of the instances file.                                         *)
(***************************************************************************)

LEMMA CopiedStep ==
    ASSUME Base, Copied, [Next]_vars
    PROVE  Copied'
<1> USE DEF startVars, registryVars, callVars
<1>1. ASSUME NEW c \in Callers, Call(c) PROVE Copied'
  <2>1. /\ UNCHANGED <<file, edits>> /\ Typed'
        /\ \A o \in Callers \ {c} : pc'[o] = pc[o] /\ began'[o] = began[o]
        /\ began'[c] \in {began[c], edits}
        /\ pc[c] # "idle" => began' = began
    BY <1>1, CallFrame DEF Base
  <2>2. turn = c => \A o \in Callers \ {c} : pc[o] \notin Turns
    BY DEF Base, InTurn
  <2>3. \A o \in Callers : began[o] <= edits
    BY DEF Base, InTurn
  <2>4. CASE Look(c)
    <3>1. /\ turn = c /\ pc[c] \in {"resolve", "describe"} /\ seen = edits
          /\ pc'[c] = "fresh" /\ UNCHANGED <<declared, seen, read, torn>>
      BY <2>4 DEF Look, Stale, Base, Typed
    <3>2. \A o \in Callers : pc[o] # "loaded" /\ pc'[o] # "loaded"
      BY <2>1, <2>2, <3>1 DEF Turns
    <3> QED BY <2>1, <2>2, <2>3, <3>1, <3>2 DEF Copied, Turns, Base, Typed
  <2>5. CASE Load(c)
    <3>1. turn = c /\ pc[c] \in {"resolve", "describe"} /\ UNCHANGED seen
      BY <2>5 DEF Load
    <3>2. CASE file = Broken
      <4>1. pc'[c] = "done" /\ UNCHANGED <<declared, read, torn>>
        BY <2>5, <3>2, EndFacts DEF Load, Base
      <4> QED BY <2>1, <2>2, <3>1, <4>1 DEF Copied, Turns
    <3>3. CASE file # Broken
      <4>1. /\ pc'[c] = "loaded" /\ declared' = file
            /\ read' = edits /\ torn' = FALSE
        BY <2>5, <3>3 DEF Load, Base, Typed
      <4> QED BY <2>1, <2>2, <3>1, <3>3, <4>1 DEF Copied, Turns
    <3> QED BY <3>2, <3>3
  <2>6. CASE Stamp(c)
    <3>1. /\ turn = c /\ pc[c] = "loaded" /\ pc'[c] = "fresh"
          /\ seen' = edits /\ UNCHANGED <<declared, read, torn>>
      BY <2>6 DEF Stamp, Base, Typed
    <3>2. torn \/ read = edits
      BY <3>1 DEF Copied
    <3>3. \A o \in Callers : pc'[o] # "loaded"
      BY <2>1, <2>2, <3>1 DEF Turns
    <3> QED BY <2>1, <2>2, <2>3, <3>1, <3>2, <3>3 DEF Copied, Turns, Base, Typed
  <2>7. CASE \/ Receive(c) \/ GetUserClient(c) \/ ResolveClient(c)
             \/ Run(c) \/ DescribeOne(c)
    <3>1. UNCHANGED <<declared, seen, read, torn>> /\ pc[c] # "loaded"
      BY <2>7 DEF Receive, GetUserClient, ResolveClient, Run, DescribeOne
    <3>2. pc'[c] \notin {"loaded", "fresh"}
      <4>1. CASE Receive(c)
        BY <4>1, EndFacts DEF Receive, Base, Typed
      <4>2. CASE GetUserClient(c)
        BY <4>2, EndFacts, DispatchFacts DEF GetUserClient, Base
      <4>3. CASE ResolveClient(c)
        <5>1. (\E a : End(c, a)) \/ (\E with : Dispatch(c, with))
          BY <4>3 DEF ResolveClient
        <5> QED BY <5>1, EndFacts, DispatchFacts DEF Base
      <4>4. CASE Run(c)
        BY <4>4, EndFacts DEF Run, Base, Typed
      <4>5. CASE DescribeOne(c)
        <5>1. (\E a : End(c, a)) \/ pc' = [pc EXCEPT ![c] = "describe"]
          BY <4>5 DEF DescribeOne
        <5> QED BY <5>1, EndFacts DEF Base, Typed
      <4> QED BY <2>7, <4>1, <4>2, <4>3, <4>4, <4>5
    <3>3. (\E o \in Callers : pc'[o] = "loaded") <=> (\E o \in Callers : pc[o] = "loaded")
      BY <2>1, <3>1, <3>2
    <3> QED BY <2>1, <3>1, <3>2, <3>3 DEF Copied
  <2> QED BY <1>1, <2>4, <2>5, <2>6, <2>7 DEF Call
<1>2. CASE Fail \/ Start \/ Stop \/ EditFile \/ UNCHANGED vars
  <2>1. UNCHANGED began
        /\ \A c \in Callers : pc'[c] = pc[c] \/ (pc[c] = "running" /\ pc'[c] = "done")
    BY <1>2, OtherFrame
  <2>2. CASE Start
    <3>1. /\ phase = "starting" /\ file # Broken /\ UNCHANGED <<file, edits, pc>>
          /\ declared' = file /\ seen' = edits /\ read' = edits
      BY <2>2 DEF Start, Starts
    <3>2. \A c \in Callers : pc'[c] = "idle"
      BY <3>1 DEF Base, InTurn
    <3> QED BY <3>1, <3>2 DEF Copied
  <2>3. CASE EditFile
    BY <2>3 DEF EditFile, Copied
  <2>4. CASE Fail \/ Stop \/ UNCHANGED vars
    <3>1. UNCHANGED <<file, edits, declared, seen, read, torn>>
      BY <2>4 DEF Fail, Stop, vars
    <3> QED BY <2>1, <3>1 DEF Copied
  <2> QED BY <1>2, <2>2, <2>3, <2>4
<1> QED BY <1>1, <1>2 DEF Next

LEMMA CopiedAlways == Spec => []Copied
<1>1. Init => Copied
  BY DEF Init, Copied
<1>2. Base /\ Copied /\ [Next]_vars => Copied'
  BY CopiedStep
<1> QED BY <1>1, <1>2, BaseAlways, PTL DEF Spec

\* A name is resolved by a copy no older than the call, unless an edit fell
\* between a load and the reading of the time stamp.
THEOREM NamesStayFresh == Spec => []NamesAreFresh
<1>1. Copied => NamesAreFresh
  BY DEF Copied, NamesAreFresh
<1> QED BY <1>1, CopiedAlways, PTL

(***************************************************************************)
(* The calls and the registry.                                             *)
(***************************************************************************)

LEMMA OwnClientsStep ==
    ASSUME Base, OwnClients, [Next]_vars
    PROVE  OwnClients'
<1>1. ASSUME NEW c \in Callers, Call(c) PROVE OwnClients'
  <2>1. /\ UNCHANGED config
        /\ \A o \in Callers \ {c} : pc'[o] = pc[o] /\ todo'[o] = todo[o]
    BY <1>1, CallFrame DEF Base, startVars
  <2>2. perUser' <=> perUser
    BY <2>1 DEF perUser, settings
  <2>3. SUFFICES /\ pc'[c] = "idle" => todo'[c] = {}
                 /\ pc'[c] = "token" => perUser
                 /\ pc'[c] = "resolve" => ~perUser /\ todo'[c] = {}
                 /\ perUser /\ pc'[c] \in {"describe", "loaded", "fresh"} => todo'[c] # {}
                 /\ pc'[c] = "describe" => todo'[c] # {}
    BY <2>1, <2>2 DEF OwnClients
  <2>4. CASE Receive(c)
    <3>1. todo' = todo /\ todo[c] = {}
      BY <2>4 DEF Receive, OwnClients
    <3>2. \/ pc'[c] = "done"
          \/ pc'[c] = IF perUser THEN "token" ELSE "resolve"
      BY <2>4, EndFacts DEF Receive, Base, Typed
    <3> QED BY <3>1, <3>2
  <2>5. CASE GetUserClient(c)
    BY <2>5, EndFacts, DispatchFacts DEF GetUserClient, Base
  <2>6. CASE Look(c)
    BY <2>6 DEF Look, Base, Typed, OwnClients
  <2>7. CASE Load(c)
    <3>1. pc[c] \in {"resolve", "describe"} /\ todo' = todo
      BY <2>7 DEF Load
    <3>2. pc'[c] \in {"done", "loaded"}
      BY <2>7, EndFacts DEF Load, Base, Typed
    <3> QED BY <3>1, <3>2 DEF OwnClients
  <2>8. CASE Stamp(c)
    BY <2>8 DEF Stamp, Base, Typed, OwnClients
  <2>9. CASE ResolveClient(c)
    <3>1. (\E a : End(c, a)) \/ (\E with : Dispatch(c, with))
      BY <2>9 DEF ResolveClient
    <3> QED BY <3>1, EndFacts, DispatchFacts DEF Base
  <2>10. CASE Run(c)
    <3>1. CASE Describes(c) /\ DOMAIN declared # {}
      <4>1. todo'[c] = DOMAIN declared /\ pc'[c] = "describe"
        BY <2>10, <3>1 DEF Run, Base, Typed
      <4> QED BY <3>1, <4>1
    <3>2. CASE ~(Describes(c) /\ DOMAIN declared # {})
      BY <2>10, <3>2, EndFacts DEF Run, Base
    <3> QED BY <3>1, <3>2
  <2>11. CASE DescribeOne(c)
    <3>1. PICK name \in todo[c] :
             IF name \notin DOMAIN declared THEN End(c, Raised(c))
             ELSE /\ todo' = [todo EXCEPT ![c] = @ \ {name}]
                  /\ IF todo[c] = {name} THEN End(c, "ok")
                     ELSE pc' = [pc EXCEPT ![c] = "describe"]
      BY <2>11 DEF DescribeOne
    <3>2. CASE \E a : End(c, a)
      BY <3>2, EndFacts DEF Base
    <3>3. CASE ~\E a : End(c, a)
      <4>1. /\ todo' = [todo EXCEPT ![c] = @ \ {name}] /\ todo[c] # {name}
            /\ pc' = [pc EXCEPT ![c] = "describe"]
        BY <3>1, <3>3
      <4> QED BY <4>1 DEF Base, Typed
    <3> QED BY <3>2, <3>3
  <2> QED BY <1>1, <2>4, <2>5, <2>6, <2>7, <2>8, <2>9, <2>10, <2>11 DEF Call
<1>2. CASE Fail \/ Start \/ Stop \/ EditFile \/ UNCHANGED vars
  <2>1. UNCHANGED <<config, todo>>
        /\ \A c \in Callers : pc'[c] = pc[c] \/ (pc[c] = "running" /\ pc'[c] = "done")
    BY <1>2, OtherFrame DEF startVars
  <2>2. perUser' <=> perUser
    BY <2>1 DEF perUser, settings
  <2> QED BY <2>1, <2>2 DEF OwnClients
<1> QED BY <1>1, <1>2 DEF Next

LEMMA OwnClientsAlways == Spec => []OwnClients
<1>1. Init => OwnClients
  BY DEF Init, OwnClients
<1>2. Base /\ OwnClients /\ [Next]_vars => OwnClients'
  BY OwnClientsStep
<1> QED BY <1>1, <1>2, BaseAlways, PTL DEF Spec

(***************************************************************************)
(* The write gate's looks at the registry.                                 *)
(***************************************************************************)

\* A look that raises while names are described was not the first one of an
\* undisturbed call: that one made a good copy.
LEMMA UndisturbedStep ==
    ASSUME Base, OwnClients, \A x \in Callers : Undisturbed(x), [Next]_vars
    PROVE  (\A x \in Callers : Undisturbed(x))'
<1> USE DEF startVars, registryVars, callVars
<1>1. ASSUME NEW c \in Callers, Call(c) PROVE (\A x \in Callers : Undisturbed(x))'
  <2>1. /\ UNCHANGED <<config, edits>>
        /\ \A o \in Callers \ {c} : /\ pc'[o] = pc[o] /\ began'[o] = began[o]
                                   /\ todo'[o] = todo[o] /\ answer'[o] = answer[o]
        /\ pc[c] # "idle" => began' = began
        /\ turn = c \/ turn = None
        /\ pc[c] \in {"idle", "running"} => turn = None
        /\ pc[c] \in Turns => turn = c
    BY <1>1, CallFrame DEF Base, InTurn
  <2>2. perUser' <=> perUser
    BY <2>1 DEF perUser, settings
  <2>3. \A o \in Callers \ {c} : pc[o] \notin Turns
    BY <2>1, ServerAssumption DEF Base, InTurn, None
  <2>4. \/ declared' = declared /\ seen' = seen
        \/ Load(c) /\ Stale /\ seen' = seen
        \/ Stamp(c) /\ declared' = declared /\ seen' = edits
    BY <1>1 DEF Call, Receive, GetUserClient, Look, Load, Stamp, ResolveClient, Run,
                DescribeOne
  <2>5. ASSUME NEW o \in Callers \ {c} PROVE Undisturbed(o)'
    <3>1. Undisturbed(o) /\ pc[o] \notin Turns
      BY <2>3
    <3> QED BY <2>1, <2>2, <2>4, <3>1 DEF Undisturbed, Turns, Stale
  <2> SUFFICES Undisturbed(c)'
    BY <2>5
  <2>6. Undisturbed(c) /\ began[c] <= edits
        /\ began[c] \in Nat /\ edits \in Nat
    BY DEF Base, InTurn, Typed
  <2>7. CASE Receive(c)
    <3>1. \/ pc'[c] \in {"token", "resolve"} /\ answer' = answer
          \/ pc'[c] = "done" /\ answer'[c] = "unauthorized"
      BY <2>7, EndFacts DEF Receive, Base, Typed
    <3>2. pc[c] = "idle" /\ began'[c] = edits
      BY <2>7 DEF Receive, Base, Typed
    <3>3. answer'[c] # "unchecked"
      BY <3>1, <3>2, <2>6 DEF Undisturbed
    <3> QED BY <3>1, <3>3, <2>1, <2>2 DEF Undisturbed
  <2>8. CASE GetUserClient(c)
    <3>1. pc[c] = "token" /\ UNCHANGED began
      BY <2>8 DEF GetUserClient
    <3>2. answer'[c] \in {answer[c], "unknown_tool", "validation_error"}
      BY <2>8, EndFacts, DispatchFacts DEF GetUserClient, Base
    <3> QED BY <2>2, <2>6, <3>1, <3>2 DEF Undisturbed, OwnClients
  <2>9. CASE Look(c)
    <3>1. /\ pc[c] \in {"resolve", "describe"} /\ seen = edits
          /\ UNCHANGED <<declared, seen, todo, answer, began>> /\ pc'[c] = "fresh"
      BY <2>9 DEF Look, Stale, Base, Typed
    <3> QED BY <2>1, <2>2, <2>6, <3>1 DEF Undisturbed, OwnClients
  <2>10. CASE Load(c)
    <3>1. /\ pc[c] \in {"resolve", "describe"} /\ seen # edits
          /\ UNCHANGED <<todo, began>>
      BY <2>10 DEF Load, Stale
    <3>2. CASE file = Broken
      <4>1. pc'[c] = "done" /\ answer'[c] = Raised(c)
        BY <2>10, <3>2, EndFacts DEF Load, Base
      <4>2. answer'[c] = "unchecked" => pc[c] = "describe"
        BY <3>1, <4>1 DEF Raised, Describing, OwnClients
      <4>3. answer'[c] = "unchecked" => edits > began[c] \/ perUser
        BY <3>1, <4>2, <2>6 DEF Undisturbed
      <4> QED BY <2>1, <2>2, <3>1, <4>1, <4>3 DEF Undisturbed
    <3>3. CASE file # Broken
      <4>1. pc'[c] = "loaded" /\ answer' = answer
        BY <2>10, <3>3 DEF Load, Base, Typed
      <4> QED BY <2>1, <2>2, <2>6, <3>1, <4>1 DEF Undisturbed, OwnClients
    <3> QED BY <3>2, <3>3
  <2>11. CASE Stamp(c)
    <3>1. /\ pc[c] = "loaded" /\ pc'[c] = "fresh" /\ seen' = edits
          /\ UNCHANGED <<declared, todo, answer, began>>
      BY <2>11 DEF Stamp, Base, Typed
    <3> QED BY <2>1, <2>2, <2>6, <3>1 DEF Undisturbed
  <2>12. CASE ResolveClient(c)
    <3>1. pc[c] = "fresh" /\ UNCHANGED <<declared, seen, todo, began>>
      BY <2>12 DEF ResolveClient
    <3>2. CASE \E with : Dispatch(c, with)
      <4>1. /\ pc'[c] \in {"running", "done"}
            /\ answer'[c] \in {answer[c], "unknown_tool"}
        BY <3>2, DispatchFacts DEF Base
      <4> QED BY <2>1, <2>2, <2>6, <3>1, <4>1 DEF Undisturbed
    <3>3. CASE ~\E with : Dispatch(c, with)
      <4>1. End(c, Unknown.error) \/ End(c, NotAllowed.error)
        BY <2>12, <3>3 DEF ResolveClient
      <4>2. pc'[c] = "done" /\ answer'[c] # "unchecked"
        BY <4>1, EndFacts DEF Base, Unknown, NotAllowed
      <4> QED BY <2>1, <2>2, <4>2 DEF Undisturbed
    <3> QED BY <3>2, <3>3
  <2>13. CASE Run(c)
    <3>1. pc[c] = "running" /\ UNCHANGED <<declared, seen, began>>
      BY <2>13 DEF Run
    <3>2. CASE Describes(c) /\ DOMAIN declared # {}
      <4>1. todo'[c] = DOMAIN declared /\ pc'[c] = "describe" /\ answer' = answer
        BY <2>13, <3>2 DEF Run, Base, Typed
      <4> QED BY <2>1, <2>2, <2>6, <3>1, <4>1 DEF Undisturbed
    <3>3. CASE ~(Describes(c) /\ DOMAIN declared # {})
      <4>1. pc'[c] = "done" /\ answer'[c] \in {"gate off", "ok"}
        BY <2>13, <3>3, EndFacts DEF Run, Base
      <4> QED BY <2>1, <2>2, <4>1 DEF Undisturbed
    <3> QED BY <3>2, <3>3
  <2>14. CASE DescribeOne(c)
    <3>1. PICK name \in todo[c] :
             IF name \notin DOMAIN declared THEN End(c, Raised(c))
             ELSE /\ todo' = [todo EXCEPT ![c] = @ \ {name}]
                  /\ IF todo[c] = {name} THEN End(c, "ok")
                     ELSE /\ pc' = [pc EXCEPT ![c] = "describe"]
                          /\ UNCHANGED answer
      BY <2>14 DEF DescribeOne
    <3>2. pc[c] = "fresh" /\ UNCHANGED <<declared, seen, began>>
      BY <2>14 DEF DescribeOne
    <3>3. CASE name \notin DOMAIN declared
      <4>1. pc'[c] = "done"
        BY <3>1, <3>3, EndFacts DEF Base
      <4>2. edits > began[c] \/ perUser
        BY <2>6, <3>2, <3>3 DEF Undisturbed
      <4> QED BY <2>1, <2>2, <3>2, <4>1, <4>2 DEF Undisturbed
    <3>4. CASE name \in DOMAIN declared /\ todo[c] = {name}
      <4>1. pc'[c] = "done" /\ answer'[c] = "ok"
        BY <3>1, <3>4, EndFacts DEF Base
      <4> QED BY <2>1, <2>2, <4>1 DEF Undisturbed
    <3>5. CASE name \in DOMAIN declared /\ todo[c] # {name}
      <4>1. todo'[c] = todo[c] \ {name} /\ pc'[c] = "describe" /\ answer' = answer
        BY <3>1, <3>5 DEF Base, Typed
      <4> QED BY <2>1, <2>2, <2>6, <3>2, <4>1 DEF Undisturbed
    <3> QED BY <3>3, <3>4, <3>5
  <2> QED BY <1>1, <2>7, <2>8, <2>9, <2>10, <2>11, <2>12, <2>13, <2>14 DEF Call
<1>2. CASE Fail \/ Start \/ Stop \/ EditFile \/ UNCHANGED vars
  <2>1. /\ UNCHANGED <<config, began, todo>>
        /\ \A c \in Callers :
             /\ pc'[c] = pc[c] \/ (pc[c] = "running" /\ pc'[c] = "done")
             /\ answer'[c] = answer[c] \/ (pc[c] = "running" /\ answer'[c] = "cancelled")
    BY <1>2, OtherFrame DEF startVars
  <2>2. perUser' <=> perUser
    BY <2>1 DEF perUser, settings
  <2>3. \A c \in Callers : began[c] <= edits /\ began[c] \in Nat /\ edits \in Nat
    BY DEF Base, InTurn, Typed
  <2>4. CASE Start
    <3>1. phase = "starting" /\ edits' = edits
      BY <2>4 DEF Start
    <3>2. \A c \in Callers : pc[c] = "idle"
      BY <3>1 DEF Base, InTurn
    <3> QED BY <2>1, <2>2, <3>1, <3>2 DEF Undisturbed
  <2>5. CASE EditFile
    <3>1. edits' = edits + 1
      BY <2>5 DEF EditFile
    <3> QED BY <2>1, <2>2, <2>3, <3>1 DEF Undisturbed
  <2>6. CASE Fail \/ Stop \/ UNCHANGED vars
    <3>1. UNCHANGED <<edits, declared, seen>>
      BY <2>6 DEF Fail, Stop, vars
    <3> QED BY <2>1, <2>2, <3>1 DEF Undisturbed
  <2> QED BY <1>2, <2>4, <2>5, <2>6
<1> QED BY <1>1, <1>2 DEF Next

\* A write goes without its link check for the registry's sake only if the
\* file was edited under it, or if each user has his own client.
THEOREM UncheckedAfterAnEdit == Spec => []UncheckedOnlyAfterAnEdit
<1> DEFINE AllUndisturbed == \A x \in Callers : Undisturbed(x)
<1>1. Init => AllUndisturbed
  BY DEF Init, Undisturbed, None
<1>2. Base /\ OwnClients /\ AllUndisturbed /\ [Next]_vars => AllUndisturbed'
  BY UndisturbedStep
<1>3. AllUndisturbed => UncheckedOnlyAfterAnEdit
  BY DEF Undisturbed, UncheckedOnlyAfterAnEdit
<1> HIDE DEF AllUndisturbed
<1> QED BY <1>1, <1>2, <1>3, BaseAlways, OwnClientsAlways, PTL DEF Spec

(***************************************************************************)
(* The client of a call.                                                   *)
(***************************************************************************)

LEMMA WhoIsMeant ==
    ASSUME NEW token
    PROVE  IdentityOf(token) = Who(settings, token)
BY DEF IdentityOf, Who

LEMMA EntrustedStep ==
    ASSUME Base, OwnClients, Copied, Entrusted, [Next]_vars
    PROVE  Entrusted'
<1> USE DEF startVars, registryVars, callVars
<1>1. ASSUME NEW c \in Callers, Call(c) PROVE Entrusted'
  <2>1. /\ UNCHANGED config
        /\ \A o \in Callers \ {c} : /\ pc'[o] = pc[o] /\ request'[o] = request[o]
                                   /\ client'[o] = client[o]
        /\ pc[c] # "idle" => request' = request
        /\ pc'[c] # "idle"
    BY <1>1, CallFrame DEF Base, Turns
  <2>2. (perUser' <=> perUser) /\ settings' = settings /\ trac' = trac
    BY <2>1 DEF perUser, settings, trac
  <2>3. ASSUME NEW o \in Callers \ {c}
        PROVE  /\ pc'[o] = "idle" => client'[o] = NoClient
               /\ pc'[o] # "idle" => request'[o].arg \in Arguments
               /\ client'[o] # NoClient =>
                     IF perUser' THEN client'[o] = UserClient(request[o].token)'
                     ELSE KeptFor(settings', trac', request'[o], client'[o])
    BY <2>1, <2>2 DEF Entrusted, UserClient
  <2>4. SUFFICES /\ request'[c].arg \in Arguments
                 /\ client'[c] # NoClient =>
                       IF perUser THEN client'[c] = UserClient(request'[c].token)
                       ELSE KeptFor(settings, trac, request'[c], client'[c])
    BY <2>1, <2>2, <2>3 DEF Entrusted, UserClient
  <2>5. CASE Receive(c)
    <3>1. client' = client /\ client[c] = NoClient
      BY <2>5 DEF Receive, Entrusted
    <3>2. request'[c].arg \in Arguments
      BY <2>5 DEF Receive, Base, Typed
    <3> QED BY <3>1, <3>2
  <2>6. ASSUME ~Receive(c)
        PROVE  /\ pc[c] # "idle" /\ request'[c] = request[c]
               /\ request[c].arg \in Arguments
    BY <1>1, <2>1, <2>6, CallFrame DEF Base, Turns, Entrusted
  <2>7. CASE ~Receive(c) /\ UNCHANGED client
    BY <2>6, <2>7 DEF Entrusted
  <2>8. CASE GetUserClient(c) /\ ~UNCHANGED client
    <3>1. pc[c] = "token" /\ Dispatch(c, UserClient(request[c].token))
          /\ request' = request
      BY <2>8 DEF GetUserClient
    <3>2. perUser /\ request[c].arg \in Arguments
      BY <3>1 DEF OwnClients, Entrusted
    <3>3. client'[c] = UserClient(request[c].token)
      BY <3>1, DispatchFacts DEF Base
    <3> QED BY <3>1, <3>2, <3>3
  <2>9. CASE ResolveClient(c) /\ ~UNCHANGED client
    <3> DEFINE found == Resolve(request[c].arg, IdentityOf(request[c].token),
                                trac, declared)
    <3>1. pc[c] = "fresh" /\ todo[c] = {} /\ request' = request
      BY <2>9 DEF ResolveClient, Describing
    <3>2. ~perUser /\ request[c].arg \in Arguments
      BY <3>1 DEF OwnClients, Entrusted
    <3>3. \/ Dispatch(c, NoClient)
          \/ found \notin {Unknown, NotAllowed} /\ Dispatch(c, ClientFor(found, clients))
      BY <2>9 DEF ResolveClient
    <3>4. CASE Dispatch(c, NoClient)
      <4>1. client'[c] = NoClient
        BY <3>4, DispatchFacts DEF Base
      <4> QED BY <3>1, <3>2, <4>1
    <3>5. CASE found \notin {Unknown, NotAllowed} /\ Dispatch(c, ClientFor(found, clients))
      <4> HIDE DEF found
      <4>1. client'[c] = ClientFor(found, clients)
        BY <3>5, DispatchFacts DEF Base
      <4>2. ClientKey(ClientFor(found, clients)) = ClientKey(found)
        BY DEF ClientFor
      <4>3. found = Resolve(request[c].arg, Who(settings, request[c].token), trac, declared)
        BY WhoIsMeant DEF found
      <4>4. declared \in (DeclaredFiles \ {Broken}) \cup {<<>>}
        BY DEF Copied
      <4>5. KeptFor(settings, trac, request[c], client'[c])
        BY <3>5, <4>1, <4>2, <4>3, <4>4 DEF KeptFor
      <4> QED BY <3>1, <3>2, <4>5
    <3> QED BY <3>3, <3>4, <3>5
  <2>10. Look(c) \/ Load(c) \/ Stamp(c) \/ Run(c) \/ DescribeOne(c) =>
            ~Receive(c) /\ UNCHANGED client
    <3>1. Look(c) \/ Load(c) \/ Stamp(c) \/ Run(c) \/ DescribeOne(c) =>
             pc[c] # "idle" /\ UNCHANGED client
      BY DEF Look, Load, Stamp, Run, DescribeOne
    <3>2. Receive(c) => pc[c] = "idle"
      BY DEF Receive
    <3> QED BY <3>1, <3>2
  <2>11. GetUserClient(c) \/ ResolveClient(c) => ~Receive(c)
    BY DEF GetUserClient, ResolveClient, Receive
  <2> QED BY <1>1, <2>5, <2>7, <2>8, <2>9, <2>10, <2>11 DEF Call
<1>2. CASE Fail \/ Start \/ Stop \/ EditFile \/ UNCHANGED vars
  <2>1. /\ UNCHANGED <<config, request, client>>
        /\ \A c \in Callers : pc'[c] = pc[c] \/ (pc[c] = "running" /\ pc'[c] = "done")
    BY <1>2, OtherFrame
  <2>2. (perUser' <=> perUser) /\ settings' = settings /\ trac' = trac
    BY <2>1 DEF perUser, settings, trac
  <2> QED BY <2>1, <2>2 DEF Entrusted, UserClient
<1> QED BY <1>1, <1>2 DEF Next

LEMMA EntrustedAlways == Spec => []Entrusted
<1>1. Init => Entrusted
  BY DEF Init, Entrusted
<1>2. Base /\ OwnClients /\ Copied /\ Entrusted /\ [Next]_vars => Entrusted'
  BY EntrustedStep
<1> QED BY <1>1, <1>2, BaseAlways, OwnClientsAlways, CopiedAlways, PTL DEF Spec

\* What an argument is resolved to is in the caller's scope and carries it.
LEMMA ResolvedInScope ==
    ASSUME NEW arg, NEW i, NEW t, NEW f,
           arg.form \in {"none", "name", "path", "url"},
           Resolve(arg, i, t, f) \notin {Unknown, NotAllowed}
    PROVE  /\ Resolve(arg, i, t, f).allowed = AllowedUrls(i, t)
           /\ Permitted(Resolve(arg, i, t, f).url, AllowedUrls(i, t))
<1> DEFINE found == ResolveUnenforced(arg, i, t, f)
<1>1. Resolve(arg, i, t, f) = found /\ found # Unknown
      /\ Permitted(found.url, AllowedUrls(i, t))
  BY DEF Resolve
<1>2. ASSUME NEW url PROVE AdHoc(t, url, i, AllowedUrls(i, t)).allowed = AllowedUrls(i, t)
  BY DEF AdHoc, Synthesize
<1>3. found.allowed = AllowedUrls(i, t)
  <2>1. CASE IsDefault(arg) /\ i = Anybody
    <3>1. arg.form \notin {"path", "url"}
      BY <2>1 DEF IsDefault
    <3>2. found = DefaultConfig(t)
      BY <2>1, <3>1 DEF ResolveUnenforced
    <3> QED BY <2>1, <3>2 DEF DefaultConfig, Synthesize, AllowedUrls
  <2>2. CASE IsDefault(arg) /\ i # Anybody
    <3>1. arg.form \notin {"path", "url"}
      BY <2>2 DEF IsDefault
    <3>2. found = AdHoc(t, t.url, i, AllowedUrls(i, t))
      BY <2>2, <3>1 DEF ResolveUnenforced
    <3> QED BY <1>2, <3>2
  <2>3. CASE ~IsDefault(arg) /\ arg.form = "name"
    <3>1. found = Declared(t, f[arg.name], i, AllowedUrls(i, t))
      BY <1>1, <2>3 DEF ResolveUnenforced
    <3> QED BY <3>1 DEF Declared, Synthesize
  <2>4. CASE arg.form = "path"
    <3>1. ~IsDefault(arg)
      BY <2>4 DEF IsDefault
    <3>2. found = AdHoc(t, [host |-> "", path |-> arg.path], i, AllowedUrls(i, t))
      BY <2>4, <3>1 DEF ResolveUnenforced
    <3> QED BY <1>2, <3>2
  <2>5. CASE arg.form = "url"
    <3>1. ~IsDefault(arg)
      BY <2>5 DEF IsDefault
    <3>2. found = AdHoc(t, arg.url, i, AllowedUrls(i, t))
      BY <1>1, <2>5, <3>1 DEF ResolveUnenforced
    <3> QED BY <1>2, <3>2
  <2> QED BY <2>1, <2>2, <2>3, <2>4, <2>5 DEF IsDefault
<1> QED BY <1>1, <1>3

\* Whose credentials they are: the identity's, or those the instances file
\* sets for the name; without an identity, the file's or the server's own.
LEMMA ResolvedCredentials ==
    ASSUME NEW arg, NEW i, NEW t, NEW f,
           arg.form \in {"none", "name", "path", "url"},
           i # Anybody => Unset \notin {i.username, i.password},
           Resolve(arg, i, t, f) \notin {Unknown, NotAllowed}
    PROVE  \/ i # Anybody /\ Resolve(arg, i, t, f).username = i.username
                          /\ Resolve(arg, i, t, f).password = i.password
           \/ i = Anybody /\ Resolve(arg, i, t, f).username = t.username
           \/ /\ arg.form = "name" /\ arg.name \in DOMAIN f
              /\ f[arg.name].username # Unset
              /\ Resolve(arg, i, t, f).username = f[arg.name].username
<1> DEFINE found == ResolveUnenforced(arg, i, t, f)
<1>1. Resolve(arg, i, t, f) = found /\ found # Unknown
  BY DEF Resolve
<1>2. ASSUME NEW url, NEW a, found = AdHoc(t, url, i, a)
      PROVE  \/ i # Anybody /\ found.username = i.username /\ found.password = i.password
             \/ i = Anybody /\ found.username = t.username
  BY <1>2 DEF AdHoc, Synthesize, Or
<1>3. CASE IsDefault(arg) /\ i = Anybody
  <2>1. arg.form \notin {"path", "url"}
    BY <1>3 DEF IsDefault
  <2>2. found = DefaultConfig(t)
    BY <1>3, <2>1 DEF ResolveUnenforced
  <2> QED BY <1>1, <1>3, <2>2 DEF DefaultConfig, Synthesize, Or
<1>4. CASE IsDefault(arg) /\ i # Anybody
  <2>1. arg.form \notin {"path", "url"}
    BY <1>4 DEF IsDefault
  <2>2. found = AdHoc(t, t.url, i, AllowedUrls(i, t))
    BY <1>4, <2>1 DEF ResolveUnenforced
  <2> QED BY <1>1, <1>2, <2>2
<1>5. CASE ~IsDefault(arg) /\ arg.form = "name"
  <2>1. arg.name \in DOMAIN f
    BY <1>1, <1>5 DEF ResolveUnenforced
  <2>2. found = Declared(t, f[arg.name], i, AllowedUrls(i, t))
    BY <1>1, <1>5 DEF ResolveUnenforced
  <2>3. CASE f[arg.name].username # Unset
    BY <1>1, <1>5, <2>1, <2>2, <2>3 DEF Declared, Synthesize, Or
  <2>4. CASE f[arg.name].username = Unset /\ i = Anybody
    BY <1>1, <2>2, <2>4 DEF Declared, Synthesize, Or
  <2>5. CASE f[arg.name].username = Unset /\ i # Anybody
    BY <1>1, <2>2, <2>5 DEF Declared, Synthesize, Or
  <2> QED BY <2>3, <2>4, <2>5
<1>6. CASE arg.form = "path"
  <2>1. ~IsDefault(arg)
    BY <1>6 DEF IsDefault
  <2>2. found = AdHoc(t, [host |-> "", path |-> arg.path], i, AllowedUrls(i, t))
    BY <1>6, <2>1 DEF ResolveUnenforced
  <2> QED BY <1>1, <1>2, <2>2
<1>7. CASE arg.form = "url"
  <2>1. ~IsDefault(arg)
    BY <1>7 DEF IsDefault
  <2>2. found = AdHoc(t, arg.url, i, AllowedUrls(i, t))
    BY <1>1, <1>7, <2>1 DEF ResolveUnenforced
  <2> QED BY <1>1, <1>2, <2>2
<1> QED BY <1>3, <1>4, <1>5, <1>6, <1>7 DEF IsDefault

\* The link probes of a call keep to its own caller's instances.
THEOREM ScopesAreKept == Spec => []ClientsKeepTheirScope
<1>1. Entrusted => ClientsKeepTheirScope
  <2> SUFFICES ASSUME Entrusted, NEW c \in Callers, client[c] # NoClient, ~perUser
               PROVE  LET allowed == AllowedUrls(IdentityOf(request[c].token), trac)
                      IN /\ client[c].allowed = allowed
                         /\ Permitted(client[c].url, allowed)
    BY DEF ClientsKeepTheirScope
  <2> DEFINE i == Who(settings, request[c].token)
             arg == request[c].arg
  <2>1. arg.form \in {"none", "name", "path", "url"}
    BY ServerAssumption DEF Entrusted
  <2>2. KeptFor(settings, trac, request[c], client[c])
    BY DEF Entrusted
  <2>3. PICK f \in (DeclaredFiles \ {Broken}) \cup {<<>>} :
           /\ Resolve(arg, i, trac, f) \notin {Unknown, NotAllowed}
           /\ ClientKey(client[c]) = ClientKey(Resolve(arg, i, trac, f))
    BY <2>2 DEF KeptFor
  <2> HIDE DEF i, arg
  <2>4. /\ client[c].url = Resolve(arg, i, trac, f).url
        /\ client[c].allowed = Resolve(arg, i, trac, f).allowed
    BY <2>3 DEF ClientKey
  <2>5. /\ client[c].allowed = AllowedUrls(i, trac)
        /\ Permitted(client[c].url, AllowedUrls(i, trac))
    BY <2>1, <2>3, <2>4, ResolvedInScope
  <2> QED BY <2>5, WhoIsMeant DEF i
<1> QED BY <1>1, EntrustedAlways, PTL

\* Calls work with their callers' own credentials, where the accounts the
\* operator named are apart.
THEOREM OwnCredentials == AccountsAreApart => (Spec => []CallsUseOwnCredentials)
<1> SUFFICES ASSUME AccountsAreApart PROVE Spec => []CallsUseOwnCredentials
  OBVIOUS
<1>1. Base /\ Entrusted => CallsUseOwnCredentials
  <2> SUFFICES ASSUME Base, Entrusted, NEW c \in Callers, client[c] # NoClient
               PROVE  LET i == IdentityOf(request[c].token)
                          pair(x) == <<x.username, x.password>>
                      IN IF perUser THEN client[c].token = request[c].token
                         ELSE IF i = Anybody
                         THEN pair(client[c]) \notin {pair(j) : j \in settings.identities}
                         ELSE \/ pair(client[c]) = pair(i)
                              \/ /\ request[c].arg.form = "name"
                                 /\ client[c].username \notin
                                      {j.username : j \in settings.identities}
                                        \cup {trac.username}
    BY DEF CallsUseOwnCredentials
  <2>1. CASE perUser
    <3>1. client[c] = UserClient(request[c].token)
      BY <2>1 DEF Entrusted
    <3>2. client[c].token = request[c].token
      BY <3>1 DEF UserClient
    <3> QED BY <2>1, <3>2
  <2>2. CASE ~perUser
    <3> DEFINE i == Who(settings, request[c].token)
               arg == request[c].arg
               users == {j.username : j \in settings.identities}
    <3>1. arg.form \in {"none", "name", "path", "url"}
      BY ServerAssumption DEF Entrusted
    <3>2. KeptFor(settings, trac, request[c], client[c])
      BY <2>2 DEF Entrusted
    <3>3. PICK f \in (DeclaredFiles \ {Broken}) \cup {<<>>} :
             /\ Resolve(arg, i, trac, f) \notin {Unknown, NotAllowed}
             /\ ClientKey(client[c]) = ClientKey(Resolve(arg, i, trac, f))
      BY <3>2 DEF KeptFor
    <3>4. /\ settings.identities = d.identities /\ trac = TracSettings(d)
          /\ d \in Deployments /\ IdentitiesAreSound(d.identities)
      <4>1. phase \in {"serving", "stopped"}
        BY DEF Base, Typed, InTurn, Entrusted
      <4>2. ServerSettings(d).identities = d.identities
        BY DEF ServerSettings
      <4> QED BY <4>1, <4>2 DEF Base, Settled, Configured, settings, trac, ServerStarts
    <3>5. trac.username \notin users
      BY <3>4 DEF AccountsAreApart
    <3>6. \A n \in DOMAIN f : f[n].username # Unset =>
             f[n].username \notin users \cup {trac.username}
      <4>1. CASE f \in DeclaredFiles \ {Broken}
        BY <4>1, <3>4 DEF AccountsAreApart
      <4>2. CASE f = <<>>
        BY <4>2
      <4> QED BY <4>1, <4>2
    <3>7. i # Anybody => i \in settings.identities
      BY DEF Who
    <3>8. i # Anybody => Unset \notin {i.username, i.password}
      BY <3>4, <3>7 DEF IdentitiesAreSound
    <3> HIDE DEF i, arg
    <3>9. /\ client[c].username = Resolve(arg, i, trac, f).username
          /\ client[c].password = Resolve(arg, i, trac, f).password
      BY <3>3 DEF ClientKey
    <3>10. \/ i # Anybody /\ client[c].username = i.username
                          /\ client[c].password = i.password
           \/ i = Anybody /\ client[c].username = trac.username
           \/ /\ arg.form = "name"
              /\ client[c].username \notin users \cup {trac.username}
      BY <3>1, <3>3, <3>6, <3>8, <3>9, ResolvedCredentials
    <3>11. CASE i = Anybody
      <4>1. client[c].username \notin users
        BY <3>5, <3>10, <3>11
      <4>2. <<client[c].username, client[c].password>> \notin
               {<<j.username, j.password>> : j \in settings.identities}
        BY <4>1
      <4> QED BY <2>2, <3>11, <4>2, WhoIsMeant DEF i
    <3>12. CASE i # Anybody
      BY <2>2, <3>10, <3>12, WhoIsMeant DEF i, arg
    <3> QED BY <3>11, <3>12
  <2> QED BY <2>1, <2>2
<1> QED BY <1>1, BaseAlways, EntrustedAlways, PTL

=============================================================================
