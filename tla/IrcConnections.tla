--------------------------- MODULE IrcConnections ---------------------------
(***************************************************************************)
(* One connection id of the IRC manager (crates/but-irc).  Settings        *)
(* changes and API calls start and remove the connection in tasks of their *)
(* own; a watcher task reconnects it; the message handler of each attempt  *)
(* writes the state the others read; a forwarder consumes its events.  An  *)
(* attempt takes the client out of the map, so that no lock is held while  *)
(* it waits for the network, and puts it back into whatever entry has the  *)
(* id by then.                                                             *)
(***************************************************************************)
EXTENDS Naturals, FiniteSets

CONSTANTS Task,     \* tasks that start or remove the connection; a client is named after its creator
          Watcher,  \* reconnection watchers, one for each entry that may be created
          May,      \* what a task may be asked to do
          Nobody

ASSUME IrcAssumption ==
  /\ Task \cap Watcher = {} /\ Nobody \notin Task \cup Watcher
  /\ May \in [Task -> SUBSET {"start", "api", "remove", "reconnect"}]

Actor == Task \cup Watcher

\* What a handler may write, and still write late when, having found itself current,
\* it waits for the lock while the next attempt begins.
LateWrites == [none |-> {}, registering |-> {"ready", "error", "disconnected"},
               live |-> {"error", "disconnected"}, ended |-> {"disconnected"},
               orphan |-> {}]

VARIABLES exists,     \* is there an entry for the id?
          slot,       \* its client, Nobody while an attempt has it
          watched,    \* its watcher_spawned
          pc, hand,   \* the step of an actor, and the client it took
          cmd,        \* what a task does
          failed,     \* did create_and_connect return an error?
          state,      \* ConnectionState of a client, shared with its handlers
          handler,    \* the handler of the current generation: in its loop before and
                      \* after RPL_WELCOME, or broken out of it by an error
          late,       \* what a handler of an earlier generation is about to write
          events,     \* who has the event receiver of a client
          spawner,    \* is a forwarder spawner registered?
          forwarding, \* has a spawned forwarder still to take the receiver?
          shutdown
clientVars == <<state, handler, late>>
entryVars == <<exists, slot, watched>>
vars == <<exists, slot, watched, pc, hand, cmd, failed, state, handler, late,
          events, spawner, forwarding, shutdown>>

\* Types; an entry's fields go with it.
TypeOK ==
  /\ exists \in BOOLEAN /\ watched \in BOOLEAN
  /\ slot \in Task \cup {Nobody}
  /\ ~exists => slot = Nobody /\ ~watched
  /\ pc \in [Actor -> {"unborn", "remove", "check", "create", "watch", "connect", "dial",
                       "restore", "register", "forward", "sleep", "mark", "done"}]
  /\ hand \in [Actor -> Task \cup {Nobody}]
  /\ cmd \in [Task -> {"start", "api", "remove", "reconnect", Nobody}]
  /\ failed \in [Actor -> BOOLEAN]
  /\ state \in [Task -> {"disconnected", "connecting", "negotiating", "ready", "reconnecting", "error"}]
  /\ handler \in [Task -> {"none", "registering", "live", "ended", "orphan"}]
  /\ late \in [Task -> {"nothing", "ready", "error", "disconnected"}]
  /\ events \in [Task -> {"client", "forwarder", "gone"}]
  /\ spawner \in BOOLEAN /\ forwarding \in BOOLEAN
  /\ shutdown \in {"no", "asked", "drained"}

Init ==
  /\ exists = FALSE /\ slot = Nobody /\ watched = FALSE
  /\ pc = [a \in Actor |-> "unborn"]
  /\ hand = [a \in Actor |-> Nobody]
  /\ cmd = [t \in Task |-> Nobody]
  /\ failed = [a \in Actor |-> FALSE]
  /\ state = [c \in Task |-> "disconnected"]
  /\ handler = [c \in Task |-> "none"]
  /\ late = [c \in Task |-> "nothing"]
  /\ events = [c \in Task |-> "client"]
  /\ spawner = FALSE /\ forwarding = FALSE
  /\ shutdown = "no"

Goto(a, step) == pc' = [pc EXCEPT ![a] = step]
Done(t) == Goto(t, "done") /\ cmd' = [cmd EXCEPT ![t] = Nobody]
Fail(a, value) == failed' = [failed EXCEPT ![a] = value]

\* A client that nobody holds any more takes a receiver nobody took with it.  Its
\* handler runs on as an orphan; nobody sees what it writes.
Dropped(c) ==
  IF c = Nobody THEN UNCHANGED <<clientVars, events>>
  ELSE /\ events' = [events EXCEPT ![c] = IF @ = "client" THEN "gone" ELSE @]
       /\ state' = [state EXCEPT ![c] = "disconnected"]
       /\ handler' = [handler EXCEPT ![c] = IF @ \in {"registering", "live"} THEN "orphan" ELSE "none"]
       /\ late' = [late EXCEPT ![c] = "nothing"]

-----------------------------------------------------------------------------
(* Tasks: on_settings_changed, auto_connect_on_startup, commands::connect     *)
(* and commands::disconnect.                                                 *)

Begin(t, command) ==
  /\ pc[t] = "unborn"
  /\ cmd' = [cmd EXCEPT ![t] = command]
  /\ Goto(t, IF command \in {"remove", "reconnect"} THEN "remove" ELSE "check")
  /\ UNCHANGED <<entryVars, hand, failed, clientVars, events, spawner, forwarding, shutdown>>

\* IrcManager::remove.  QUIT is sent to a client that is there; the server then ends
\* the stream, which StreamEnds may do at any time.
Remove(t) ==
  /\ pc[t] = "remove"
  /\ exists' = FALSE /\ slot' = Nobody /\ watched' = FALSE
  /\ Dropped(slot)
  /\ IF cmd[t] = "reconnect" THEN Goto(t, "check") /\ UNCHANGED cmd ELSE Done(t)
  /\ UNCHANGED <<hand, failed, spawner, forwarding, shutdown>>

\* create_and_connect leaves an existing connection alone, in whatever state.
Check(t) ==
  /\ pc[t] = "check"
  /\ Goto(t, IF exists THEN "register" ELSE "create")
  /\ UNCHANGED <<entryVars, hand, cmd, failed, clientVars, events, spawner, forwarding, shutdown>>

Create(t) ==
  /\ pc[t] = "create"
  /\ IF exists
     THEN Goto(t, "register") /\ Fail(t, TRUE) /\ UNCHANGED entryVars
     ELSE Goto(t, "watch") /\ exists' = TRUE /\ slot' = t /\ watched' = FALSE /\ UNCHANGED failed
  /\ UNCHANGED <<hand, cmd, clientVars, events, spawner, forwarding, shutdown>>

\* ensure_reconnection_watcher.
EnsureWatcher(t) ==
  /\ pc[t] = "watch"
  /\ IF exists /\ ~watched
     THEN /\ watched' = TRUE
          /\ \E w \in Watcher :
               pc[w] = "unborn" /\ pc' = [pc EXCEPT ![t] = "connect", ![w] = "sleep"]
     ELSE Goto(t, "connect") /\ UNCHANGED watched
  /\ UNCHANGED <<exists, slot, hand, cmd, failed, clientVars, events, spawner, forwarding, shutdown>>

\* The end of start_connection registers the spawner also when connecting failed;
\* commands::connect does not register it, and gives up when connecting failed.
Register(t) ==
  /\ pc[t] = "register"
  /\ spawner' = (spawner \/ cmd[t] # "api")
  /\ IF cmd[t] = "api" /\ failed[t] THEN Done(t) ELSE Goto(t, "forward") /\ UNCHANGED cmd
  /\ Fail(t, FALSE)
  /\ UNCHANGED <<entryVars, hand, clientVars, events, forwarding, shutdown>>

\* spawn_event_forwarder takes the receiver, if the entry has a client that has it.
TakeEvents ==
  events' = IF exists /\ slot # Nobody /\ events[slot] = "client"
            THEN [events EXCEPT ![slot] = "forwarder"] ELSE events

Forward(t) ==
  /\ pc[t] = "forward"
  /\ TakeEvents
  /\ Done(t)
  /\ UNCHANGED <<entryVars, hand, failed, clientVars, spawner, forwarding, shutdown>>

-----------------------------------------------------------------------------
(* connect, by a task or by a watcher.                                       *)

Active(c) == state[c] \in {"ready", "connecting", "negotiating"}

\* IrcManager::connect takes the client; IrcClient::connect has nothing to do when it
\* is active, and else begins a new generation, whose channel is new if the old one
\* has lost its receiver.
Attempt(a) ==
  /\ pc[a] = "connect"
  /\ exists /\ slot # Nobody
  /\ hand' = [hand EXCEPT ![a] = slot]
  /\ slot' = Nobody
  /\ Fail(a, FALSE)
  /\ IF Active(slot)
     THEN Goto(a, "restore") /\ UNCHANGED <<clientVars, events>>
     ELSE /\ Goto(a, "dial")
          /\ state' = [state EXCEPT ![slot] = "connecting"]
          /\ \/ UNCHANGED late
             \/ \E value \in LateWrites[handler[slot]] :
                  late[slot] = "nothing" /\ late' = [late EXCEPT ![slot] = value]
          /\ handler' = [handler EXCEPT ![slot] = "none"]
          /\ events' = IF events[slot] = "gone" THEN [events EXCEPT ![slot] = "client"] ELSE events
  /\ UNCHANGED <<exists, watched, cmd, spawner, forwarding, shutdown>>

\* The entry is gone, or somebody else is connecting it.
AttemptFails(a) ==
  /\ pc[a] = "connect"
  /\ ~exists \/ slot = Nobody
  /\ Goto(a, IF a \in Task THEN "register" ELSE "sleep")
  /\ Fail(a, a \in Task)
  /\ UNCHANGED <<entryVars, hand, cmd, clientVars, events, spawner, forwarding, shutdown>>

\* The network, the TLS handshake or the capability negotiation fails.
DialFails(a) ==
  /\ pc[a] = "dial"
  /\ state' = [state EXCEPT ![hand[a]] = "error"]
  /\ Fail(a, TRUE)
  /\ Goto(a, "restore")
  /\ UNCHANGED <<entryVars, hand, cmd, handler, late, events, spawner, forwarding, shutdown>>

\* NICK and USER are sent, and the handler of this generation starts.
DialSucceeds(a) ==
  /\ pc[a] = "dial"
  /\ state' = [state EXCEPT ![hand[a]] = "negotiating"]
  /\ handler' = [handler EXCEPT ![hand[a]] = "registering"]
  /\ Goto(a, "restore")
  /\ UNCHANGED <<entryVars, hand, cmd, failed, late, events, spawner, forwarding, shutdown>>

\* Mutant: the client is put back as if the entry could not have gone.
PutsBackAlways(a) == TRUE

\* Mutant: the client is only put back after a successful attempt.
PutsBackIfConnected(a) == exists /\ ~failed[a]

\* The client goes back into the entry that has the id now, if one has.
PutsBack(a) == exists

\* Mutant: the watcher counts on the forwarder there was.
NeverSpawns(a) == FALSE

\* A watcher that succeeded calls the spawner.
Spawns(a) == a \in Watcher /\ ~failed[a] /\ spawner

Restore(a) ==
  /\ pc[a] = "restore"
  /\ IF PutsBack(a)
     THEN slot' = hand[a] /\ Dropped(slot)
     ELSE UNCHANGED slot /\ Dropped(hand[a])
  /\ hand' = [hand EXCEPT ![a] = Nobody]
  /\ Goto(a, IF a \in Task THEN "register" ELSE "sleep")
  /\ forwarding' = (forwarding \/ Spawns(a))
  /\ Fail(a, failed[a] /\ a \in Task)
  /\ UNCHANGED <<exists, watched, cmd, spawner, shutdown>>

\* The task that the spawner starts.
RunForwarder ==
  /\ forwarding
  /\ forwarding' = FALSE
  /\ TakeEvents
  /\ UNCHANGED <<entryVars, pc, hand, cmd, failed, clientVars, spawner, shutdown>>

-----------------------------------------------------------------------------
(* The reconnection watcher, spawn_reconnection_watcher.                      *)

\* It stops when the connection is gone or its client cannot be asked.
WakeToStop(w) ==
  /\ pc[w] = "sleep"
  /\ ~exists \/ slot = Nobody
  /\ Goto(w, "done")
  /\ UNCHANGED <<entryVars, hand, cmd, failed, clientVars, events, spawner, forwarding, shutdown>>

\* Mutant: a connection that is being negotiated is left to itself.
NeverStuck(c) == FALSE

\* For 30 seconds.
Stuck(c) == state[c] \in {"connecting", "negotiating"}

WakeToReconnect(w) ==
  /\ pc[w] = "sleep"
  /\ exists /\ slot # Nobody
  /\ \/ state[slot] \in {"disconnected", "error"} /\ UNCHANGED state
     \/ Stuck(slot) /\ state' = [state EXCEPT ![slot] = "error"]
  /\ Goto(w, "mark")
  /\ UNCHANGED <<entryVars, hand, cmd, failed, handler, late, events, spawner, forwarding, shutdown>>

\* set_state(Reconnecting), then the back-off.
Mark(w) ==
  /\ pc[w] = "mark"
  /\ state' = IF exists /\ slot # Nobody THEN [state EXCEPT ![slot] = "reconnecting"] ELSE state
  /\ Goto(w, "connect")
  /\ UNCHANGED <<entryVars, hand, cmd, failed, handler, late, events, spawner, forwarding, shutdown>>

\* Both sleeps of the watcher also wait for the shutdown.
WatcherStops(w) ==
  /\ pc[w] \in {"sleep", "connect"}
  /\ shutdown # "no"
  /\ Goto(w, "done")
  /\ UNCHANGED <<entryVars, hand, cmd, failed, clientVars, events, spawner, forwarding, shutdown>>

-----------------------------------------------------------------------------
(* The message handler of an attempt, spawn_message_handler.  Handlers of      *)
(* earlier attempts no longer write, but for a write under way.              *)

HandlerMoves(c, from, to, written) ==
  /\ handler[c] \in from
  /\ handler' = [handler EXCEPT ![c] = to]
  /\ state' = [state EXCEPT ![c] = written]
  /\ UNCHANGED <<entryVars, pc, hand, cmd, failed, late, events, spawner, forwarding, shutdown>>

Welcome(c) == HandlerMoves(c, {"registering"}, "live", "ready")

\* The stream fails, or the server closes it, by itself or upon QUIT.
StreamFails(c) == HandlerMoves(c, {"registering", "live"}, "ended", "error")
StreamEnds(c) == HandlerMoves(c, {"registering", "live", "orphan"}, "none", "disconnected")

\* Mutant: the handler does not subscribe to the shutdown.
HandlerStopsUnread(c) ==
  /\ events[c] = "gone"
  /\ HandlerMoves(c, {"registering", "live", "orphan"}, "none", "disconnected")

\* The handler stops: an event finds no receiver, or the shutdown is broadcast.
HandlerStops(c) ==
  /\ events[c] = "gone" \/ shutdown # "no"
  /\ HandlerMoves(c, {"registering", "live", "orphan"}, "none", "disconnected")

\* After an error it leaves its loop as well.
Close(c) == HandlerMoves(c, {"ended"}, "none", "disconnected")

\* A newer attempt began while the handler waited for the lock.
WriteLate(c) ==
  /\ late[c] # "nothing"
  /\ late' = [late EXCEPT ![c] = "nothing"]
  /\ state' = [state EXCEPT ![c] = late[c]]
  /\ UNCHANGED <<entryVars, pc, hand, cmd, failed, handler, events, spawner, forwarding, shutdown>>

\* A forwarder ends early and drops the receiver.
ForwarderDies(c) ==
  /\ events[c] = "forwarder"
  /\ events' = [events EXCEPT ![c] = "gone"]
  /\ UNCHANGED <<entryVars, pc, hand, cmd, failed, clientVars, spawner, forwarding, shutdown>>

-----------------------------------------------------------------------------
\* shutdown and shutdown_now broadcast, then drain the connections; shutdown_now does
\* not when the lock is busy.
Shutdown ==
  /\ shutdown = "no"
  /\ shutdown' = "asked"
  /\ UNCHANGED <<entryVars, pc, hand, cmd, failed, clientVars, events, spawner, forwarding>>

Drain ==
  /\ shutdown = "asked"
  /\ shutdown' = "drained"
  /\ exists' = FALSE /\ slot' = Nobody /\ watched' = FALSE
  /\ Dropped(slot)
  /\ UNCHANGED <<pc, hand, cmd, failed, spawner, forwarding>>

TaskStep(t) ==
  Remove(t) \/ Check(t) \/ Create(t) \/ EnsureWatcher(t) \/ Register(t) \/ Forward(t)
ConnectStep(a) ==
  Attempt(a) \/ AttemptFails(a) \/ DialFails(a) \/ DialSucceeds(a) \/ Restore(a)
WatcherStep(w) ==
  WakeToStop(w) \/ WakeToReconnect(w) \/ Mark(w) \/ WatcherStops(w)
Environment(c) == Welcome(c) \/ StreamFails(c) \/ StreamEnds(c) \/ ForwarderDies(c)

Next ==
  \/ \E t \in Task :
       \/ \E command \in May[t] : Begin(t, command)
       \/ TaskStep(t) \/ Close(t) \/ HandlerStops(t) \/ WriteLate(t) \/ Environment(t)
  \/ \E a \in Actor : ConnectStep(a)
  \/ \E w \in Watcher : WatcherStep(w)
  \/ RunForwarder \/ Shutdown \/ Drain

Spec == Init /\ [][Next]_vars

\* Tasks, watchers and handlers run; the runtime drops no future.  A dial ends one way
\* or the other, and of endlessly many dials not every one fails, nor is every one that
\* succeeds left without a welcome; any one of them may be.  A forwarder that is spawned
\* again and again runs at some time before the watcher, which sleeps first, has taken
\* the client again.
Fairness ==
  /\ \A t \in Task :
       /\ WF_vars(TaskStep(t) \/ ConnectStep(t))
       /\ WF_vars(HandlerStops(t) \/ Close(t))
  /\ WF_vars(\E c \in Task : WriteLate(c))
  /\ \A w \in Watcher : WF_vars(WatcherStep(w) \/ ConnectStep(w)) /\ SF_vars(WatcherStops(w))
  /\ SF_vars(\E a \in Actor : DialSucceeds(a))
  /\ []<><<\E a \in Actor : DialSucceeds(a)>>_vars => []<><<\E c \in Task : Welcome(c)>>_vars
  /\ SF_vars(slot # Nobody /\ RunForwarder)

FairSpec == Spec /\ Fairness

-----------------------------------------------------------------------------
Watching == \E w \in Watcher : pc[w] \in {"sleep", "mark", "connect", "dial", "restore"}
\* The clients of the connection: the one in the entry and those being connected.
Held == {c \in Task : c = slot \/ \E a \in Actor : hand[a] = c}

\* An entry without its client (connect took it) is being connected: whoever finds it
\* so, and leaves it alone, can rely on the client coming back.
AbsentClientReturns == exists /\ slot = Nobody => \E a \in Actor : hand[a] # Nobody

Connected == \E c \in Held : state[c] = "ready"

(***************************************************************************)
(* The watcher is spawned "even if the initial connect fails", to ensure   *)
(* "recovery from transient network errors at startup"; whoever finds a    *)
(* connection without its client leaves it alone, since "the reconnection  *)
(* watcher will handle it".  So a connection that was given a watcher gets *)
(* ready, unless it is removed or everything is shut down.  It does not: a *)
(* watcher that wakes while an attempt has the client stops for good, and  *)
(* watcher_spawned keeps another from being spawned.                       *)
(***************************************************************************)
ConnectionGetsReady == exists /\ watched ~> Connected \/ ~exists \/ shutdown # "no"

\* What is left of it: a watcher that never stops gets the connection ready again and
\* again, whatever attempts, handlers and other tasks do to its state and its client in
\* between.
WatcherConnects == <>[]Watching => []<>(Connected \/ ~exists)

\* What WriteLate may leave behind: nobody is connected, and nobody will notice.
Misreported == \E c \in Held : state[c] = "ready" /\ handler[c] = "none"

\* The reader of a connection's events may fail to take them or end early
\* (spawn_event_forwarder); once a spawner is registered, a connection that is watched
\* does not stay without a reader, unless its state is misreported.  One whose watcher has
\* stopped may (ConnectionGetsReady).
EventsGetRead ==
  exists /\ Watching /\ spawner ~>
    (\E c \in Held : events[c] = "forwarder") \/ Misreported \/ ~exists \/ ~Watching

\* The broadcast of request_shutdown ends every watcher and every handler, also those
\* of connections that were not drained, and those that start after it.
ShutdownEndsAll ==
  shutdown # "no" ~>
    [](~Watching /\ \A c \in Task : handler[c] \in {"none", "ended"})
==============================================================================
