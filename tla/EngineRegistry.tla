--------------------------- MODULE EngineRegistry ---------------------------
(***************************************************************************)
(* Which engine runs a call, and the server that it may need for it.       *)
(*                                                                         *)
(* The choice of the engine is a line of JSON in the config directory      *)
(* (registry.py), that every process reads when it builds its state and    *)
(* `engine use` writes (core.py).  The state of a process is built once:   *)
(* what it has read and probed then is what it goes by.  An engine of      *)
(* level 2 (providers/llamacpp.py) starts a llama-server of its own when   *)
(* it is first used (providers/process.py).                                *)
(*                                                                         *)
(* A session is a process, a call one of its threads: an endpoint has      *)
(* many, a command one.                                                    *)
(***************************************************************************)
EXTENDS Integers, FiniteSets, TLC

CONSTANTS Sessions,
          Calls,
          Process,    \* [Calls -> Sessions]: the process a call runs in
          Hosts,      \* what a process may find: the engines it knows, and those installed
          Null

Engines == {"ollama", "llamacpp", "pal-native"}

\* What a process holds in memory: the choice, what it knows and has found, and
\* the engine of level 2: its server and the client that talks to one.
Memory == [active : Engines, known : SUBSET Engines, installed : SUBSET Engines,
           process : Calls \cup {Null}, client : Calls \cup {Null}]

ASSUME RegistryAssumption ==
    /\ Process \in [Calls -> Sessions]
    /\ Null \notin Calls \cup Engines \cup {"writing"} \cup Memory
    /\ \A host \in Hosts : host.installed \subseteq host.known /\ host.known \subseteq Engines

DEFAULT_ENGINE_ID == "ollama"
ControlLevel(e) == CASE e = "ollama" -> 1 [] e = "llamacpp" -> 2 [] e = "pal-native" -> 3

\* How long the line is that names the engine, up to a constant.
TextLength(e) == CASE e = "ollama" -> 6 [] e = "llamacpp" -> 8 [] e = "pal-native" -> 10

VARIABLES
    text,       \* registry.json: the engine that it names first, and its length
    settled,    \* history: the last choice that was written undisturbed, or "writing"
    heard,      \* history: the settled choice that a process has begun with
    session,    \* what a process holds in memory, or Null when it does not run
    servers,    \* the llama-servers that run, each named by the call that started it
    crossed,    \* history: the sessions in which two calls started a server at once
    call        \* each call: how far it is, and the engine it is for

registryVars == <<text, settled, heard, session, servers, crossed, call>>

choice == <<text, settled, heard>>

IdleCall == [pc |-> "idle", engine |-> Null]

RegistryInit ==
    /\ text = [id |-> DEFAULT_ENGINE_ID, len |-> 0]
    /\ settled = Null
    /\ heard = [s \in Sessions |-> Null]
    /\ session = [s \in Sessions |-> Null]
    /\ servers = {}
    /\ crossed = {}
    /\ call = [c \in Calls |-> IdleCall]

Here(c) == Process[c]
State(c) == session[Here(c)]
At(c, pc) == call[c].pc = pc
CallsOf(s) == {c \in Calls : Process[c] = s}

\* _load_active(): an absent, empty or torn file counts as no choice.
Configured == IF text.len = TextLength(text.id) THEN text.id ELSE DEFAULT_ENGINE_ID

\* _best_installed_id()
Best(installed) == CHOOSE e \in installed : \A f \in installed : ControlLevel(f) <= ControlLevel(e)

\* AppContext.active_engine(); Null is its KeyError.
ActiveEngine(state) ==
    CASE state.active \notin state.known -> Null
      [] state.active \in state.known /\ state.active \notin state.installed
            /\ state.installed # {} -> Best(state.installed)
      [] OTHER -> state.active

\* init_app(): the choice is read, and each engine is registered with what its
\* probe says.
Start(s) ==
    /\ session[s] = Null
    /\ \E host \in Hosts :
        session' = [session EXCEPT ![s] =
            [active |-> Configured, known |-> host.known, installed |-> host.installed,
             process |-> Null, client |-> Null]]
    /\ heard' = [heard EXCEPT ![s] = IF settled \in Engines THEN settled ELSE Null]
    /\ UNCHANGED <<text, settled, servers, crossed, call>>

\* The process ends, in good order or not: a choice half written stays so, and the
\* servers it leaves behind are no session's any more.
Exit(s) ==
    /\ session[s] # Null
    /\ session' = [session EXCEPT ![s] = Null]
    /\ heard' = [heard EXCEPT ![s] = Null]
    /\ servers' = servers \ CallsOf(s)
    /\ crossed' = crossed \ {s}
    /\ call' = [c \in Calls |-> IF Process[c] = s THEN IdleCall ELSE call[c]]
    /\ UNCHANGED <<text, settled>>

-----------------------------------------------------------------------------
(* engine use *)

\* select_engine(): the name or, for "auto", the best engine installed.
Eligible(state) ==
    state.known \cup IF state.installed = {} THEN {} ELSE {Best(state.installed)}

\* Seeded fault: the file is not emptied before it is written.
Opened_Kept == text

\* write_text() opens the file for writing, which empties it ...
Opened == [text EXCEPT !.len = 0]

\* set_active(), under the registry's own lock.
SelectBegin(c) ==
    LET s == Here(c) IN
    /\ State(c) # Null /\ At(c, "idle")
    /\ \A d \in CallsOf(s) : ~ At(d, "choosing")
    /\ \E e \in Eligible(State(c)) :
        /\ session' = [session EXCEPT ![s].active = e]
        /\ call' = [call EXCEPT ![c] = [pc |-> "choosing", engine |-> e]]
    /\ text' = Opened
    /\ settled' = IF \A d \in Calls : ~ At(d, "choosing") THEN "writing" ELSE Null
    /\ heard' = [heard EXCEPT ![s] = Null]
    /\ UNCHANGED <<servers, crossed>>

\* ... and the line is written at its start: what another writer has written there
\* in the meantime and is longer keeps its end.
SelectEnd(c) ==
    LET e == call[c].engine
        length == IF text.len > TextLength(e) THEN text.len ELSE TextLength(e)
    IN
    /\ At(c, "choosing")
    /\ text' = [id |-> e, len |-> length]
    /\ settled' = IF settled = "writing" THEN e ELSE Null
    /\ call' = [call EXCEPT ![c] = IdleCall]
    /\ UNCHANGED <<heard, session, servers, crossed>>

\* The write fails: the process goes by its choice, which is on no disk.
SelectFails(c) ==
    /\ At(c, "choosing")
    /\ settled' = Null
    /\ call' = [call EXCEPT ![c] = IdleCall]
    /\ UNCHANGED <<text, heard, session, servers, crossed>>

-----------------------------------------------------------------------------
(* chat() and list_models() *)

\* Seeded fault: each call starts a server.
MustStart_Always(c, e) == e = "llamacpp"

\* _ensure_started(): no client yet.
MustStart(c, e) == e = "llamacpp" /\ State(c).client = Null

\* The call goes to the active engine; when that is unknown it fails at once.
Use(c) ==
    LET e == ActiveEngine(State(c)) IN
    /\ State(c) # Null /\ At(c, "idle") /\ e # Null /\ ~ MustStart(c, e)
    /\ call' = [call EXCEPT ![c] = [pc |-> "streaming", engine |-> e]]
    /\ UNCHANGED <<choice, session, servers, crossed>>

\* ... which starts its server for it, unless model or program are missing.
UseAndStart(c) ==
    LET s == Here(c)
        e == ActiveEngine(State(c))
    IN
    /\ State(c) # Null /\ At(c, "idle") /\ e # Null /\ MustStart(c, e)
    /\ call' = [call EXCEPT ![c] = [pc |-> "starting", engine |-> e]]
    /\ session' = [session EXCEPT ![s].process = c]
    /\ servers' \in {servers, servers \cup {c}}
    /\ crossed' = IF \E d \in CallsOf(s) : At(d, "starting") THEN crossed \cup {s} ELSE crossed
    /\ UNCHANGED choice

\* The server answers.  The client is made for the process that the engine knows
\* by now.
ServerReady(c) ==
    /\ At(c, "starting") /\ c \in servers
    /\ session' = [session EXCEPT ![Here(c)].client = session[Here(c)].process]
    /\ call' = [call EXCEPT ![c].pc = "streaming"]
    /\ UNCHANGED <<choice, servers, crossed>>

\* Seeded fault: a server that is not ready in time is left running.
AfterFailure_Kept(c) == servers

\* _wait_until_ready() stops the server that it gives up on.
AfterFailure(c) == servers \ {c}

\* The server could not be run, has died, or is not ready in time.
ServerFails(c) ==
    /\ At(c, "starting")
    /\ servers' = AfterFailure(c)
    /\ call' = [call EXCEPT ![c] = IdleCall]
    /\ UNCHANGED <<choice, session, crossed>>

\* A server dies by itself.  No one restarts it.
ServerDies(c) ==
    /\ c \in servers
    /\ servers' = servers \ {c}
    /\ UNCHANGED <<choice, session, crossed, call>>

\* The engine's answer ends, whole or with an error.
AnswerEnds(c) ==
    /\ At(c, "streaming")
    /\ call' = [call EXCEPT ![c] = IdleCall]
    /\ UNCHANGED <<choice, session, servers, crossed>>

RegistryNext ==
    \/ \E c \in Calls :
        \/ SelectBegin(c) \/ SelectEnd(c) \/ SelectFails(c) \/ Use(c) \/ UseAndStart(c)
        \/ ServerReady(c) \/ ServerFails(c) \/ ServerDies(c) \/ AnswerEnds(c)
    \/ \E s \in Sessions : Start(s) \/ Exit(s)

RegistrySpec == RegistryInit /\ [][RegistryNext]_registryVars

-----------------------------------------------------------------------------
(* Properties *)

\* A choice that was written with no other writer about is the one that holds:
\* whoever begins after it, until someone chooses again, reads it, and sends its
\* calls to that engine when it has it installed.  Neither a writer that died
\* half-way nor writers that collided before it spoil it.
ChoiceHolds ==
    /\ settled \in Engines => Configured = settled
    /\ \A c \in Calls :
        (At(c, "streaming") \/ At(c, "starting")) /\ heard[Here(c)] \in State(c).installed
            => call[c].engine = heard[Here(c)]

\* Unless two calls began to start one at the same time, each llama-server that
\* runs for a session is the one its engine knows of: a call waits for it, or the
\* client talks to it.  No failure leaves a second one running.
ServerIsOwned ==
    \A c \in servers :
        Process[c] \notin crossed =>
            /\ State(c).process = c
            /\ State(c).client = c \/ At(c, "starting")
=============================================================================
