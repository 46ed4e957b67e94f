------------------------ MODULE IrcConnections_proofs ------------------------
(***************************************************************************)
(* An entry of the IRC manager is never left without its client, for any   *)
(* tasks and watchers, and however often the connection is removed and     *)
(* created again while attempts are under way.                             *)
(***************************************************************************)
EXTENDS IrcConnections, TLAPS

\* Who is dialling, or about to put the client back, has it; nobody else has it.
HandIsBusy == \A a \in Actor : (pc[a] \in {"dial", "restore"}) <=> (hand[a] # Nobody)

IInv == TypeOK /\ HandIsBusy /\ AbsentClientReturns

-----------------------------------------------------------------------------
\* What becomes of a client that is dropped keeps the types.
LEMMA DroppedTypes ==
  ASSUME TypeOK, NEW c \in Task \cup {Nobody}, Dropped(c)
  PROVE  /\ state' \in [Task -> {"disconnected", "connecting", "negotiating", "ready",
                                 "reconnecting", "error"}]
         /\ handler' \in [Task -> {"none", "registering", "live", "ended", "orphan"}]
         /\ late' \in [Task -> {"nothing", "ready", "error", "disconnected"}]
         /\ events' \in [Task -> {"client", "forwarder", "gone"}]
<1>1. CASE c = Nobody
  BY <1>1 DEF Dropped, clientVars, TypeOK
<1>2. CASE c # Nobody
  BY <1>2 DEF Dropped, TypeOK
<1> QED BY <1>1, <1>2

\* Every step keeps the invariant.  Only Attempt empties an entry that exists, and
\* the client it takes is in its hand until Restore puts it into the entry.
LEMMA InductiveStep == IInv /\ [Next]_vars => IInv'
<1> SUFFICES ASSUME IInv, [Next]_vars PROVE IInv'
  OBVIOUS
<1> USE IrcAssumption
    DEF IInv, TypeOK, HandIsBusy, AbsentClientReturns, Actor, Goto, Done, Fail,
        entryVars, clientVars
<1>1. ASSUME NEW t \in Task, NEW command \in May[t], Begin(t, command) PROVE IInv'
  <2>1. command \in {"start", "api", "remove", "reconnect"}
    OBVIOUS
  <2> QED BY <1>1, <2>1 DEF Begin
<1>2. ASSUME NEW t \in Task, Remove(t) PROVE IInv'
  <2>1. Dropped(slot)
    BY <1>2 DEF Remove
  <2>2. /\ pc' \in [Actor -> {"unborn", "remove", "check", "create", "watch", "connect",
                              "dial", "restore", "register", "forward", "sleep", "mark", "done"}]
        /\ cmd' \in [Task -> {"start", "api", "remove", "reconnect", Nobody}]
        /\ HandIsBusy'
    BY <1>2 DEF Remove
  <2> QED BY <1>2, <2>1, <2>2, DroppedTypes DEF Remove
<1>3. ASSUME NEW t \in Task, Check(t) PROVE IInv'
  BY <1>3 DEF Check
<1>16. ASSUME NEW t \in Task, Create(t) PROVE IInv'
  <2>1. CASE exists
    <3>1. /\ UNCHANGED <<exists, slot, watched, hand, cmd, state, handler, late, events,
                         spawner, forwarding, shutdown>>
          /\ pc' = [pc EXCEPT ![t] = "register"] /\ failed' = [failed EXCEPT ![t] = TRUE]
          /\ pc[t] = "create"
      BY <1>16, <2>1, Zenon DEF Create
    <3> QED BY <3>1
  <2>2. CASE ~exists
    <3>1. exists' = TRUE /\ watched' = FALSE /\ slot' = t
      BY <1>16, <2>2, Zenon DEF Create
    <3>2. exists' \in BOOLEAN /\ watched' \in BOOLEAN
      BY <3>1, Zenon
    <3> QED BY <1>16, <2>2, <3>1, <3>2 DEF Create
  <2> QED BY <2>1, <2>2
<1>4. ASSUME NEW t \in Task, EnsureWatcher(t) PROVE IInv'
  <2>1. CASE exists /\ ~watched
    <3>1. PICK w \in Watcher :
            pc[w] = "unborn" /\ pc' = [pc EXCEPT ![t] = "connect", ![w] = "sleep"]
      BY <1>4, <2>1 DEF EnsureWatcher
    <3> QED BY <1>4, <2>1, <3>1 DEF EnsureWatcher
  <2>2. CASE ~(exists /\ ~watched)
    BY <1>4, <2>2 DEF EnsureWatcher
  <2> QED BY <2>1, <2>2
<1>5. ASSUME NEW t \in Task, Register(t) PROVE IInv'
  <2>1. spawner' \in BOOLEAN
    BY <1>5 DEF Register
  <2> QED BY <1>5, <2>1 DEF Register
<1>17. ASSUME NEW t \in Task, Forward(t) PROVE IInv'
  BY <1>17 DEF Forward, TakeEvents
<1>6. ASSUME NEW a \in Actor, Attempt(a) PROVE IInv'
  <2>1. slot \in Task /\ hand' = [hand EXCEPT ![a] = slot] /\ slot' = Nobody
    BY <1>6 DEF Attempt
  <2>2. state' \in [Task -> {"disconnected", "connecting", "negotiating", "ready",
                             "reconnecting", "error"}]
    BY <1>6, <2>1 DEF Attempt
  <2>3. late' \in [Task -> {"nothing", "ready", "error", "disconnected"}]
    <3>1. LateWrites[handler[slot]] \subseteq {"ready", "error", "disconnected"} \/ UNCHANGED late
      BY <1>6, <2>1 DEF Attempt, LateWrites
    <3> QED BY <1>6, <2>1, <3>1 DEF Attempt
  <2>4. /\ handler' \in [Task -> {"none", "registering", "live", "ended", "orphan"}]
        /\ events' \in [Task -> {"client", "forwarder", "gone"}]
    BY <1>6, <2>1 DEF Attempt
  <2>5. /\ pc' \in [Actor -> {"unborn", "remove", "check", "create", "watch", "connect",
                              "dial", "restore", "register", "forward", "sleep", "mark", "done"}]
        /\ failed' \in [Actor -> BOOLEAN]
        /\ HandIsBusy' /\ AbsentClientReturns'
    BY <1>6, <2>1 DEF Attempt
  <2> QED BY <1>6, <2>1, <2>2, <2>3, <2>4, <2>5 DEF Attempt
<1>7. ASSUME NEW a \in Actor, AttemptFails(a) PROVE IInv'
  BY <1>7 DEF AttemptFails
<1>18. ASSUME NEW a \in Actor, DialFails(a) PROVE IInv'
  BY <1>18 DEF DialFails
<1>19. ASSUME NEW a \in Actor, DialSucceeds(a) PROVE IInv'
  BY <1>19 DEF DialSucceeds
<1>8. ASSUME NEW a \in Actor, Restore(a) PROVE IInv'
  <2>1. hand[a] \in Task
    BY <1>8 DEF Restore
  <2>2. /\ pc' \in [Actor -> {"unborn", "remove", "check", "create", "watch", "connect",
                              "dial", "restore", "register", "forward", "sleep", "mark", "done"}]
        /\ failed' \in [Actor -> BOOLEAN] /\ forwarding' \in BOOLEAN
        /\ hand' \in [Actor -> Task \cup {Nobody}]
        /\ HandIsBusy'
    BY <1>8 DEF Restore, Spawns
  <2>3. CASE exists
    <3>1. slot' = hand[a] /\ Dropped(slot)
      BY <1>8, <2>3 DEF Restore, PutsBack
    <3> QED BY <1>8, <2>1, <2>2, <2>3, <3>1, DroppedTypes DEF Restore
  <2>4. CASE ~exists
    <3>1. slot' = slot /\ Dropped(hand[a])
      BY <1>8, <2>4 DEF Restore, PutsBack
    <3> QED BY <1>8, <2>1, <2>2, <2>4, <3>1, DroppedTypes DEF Restore
  <2> QED BY <2>3, <2>4
<1>9. CASE RunForwarder
  BY <1>9 DEF RunForwarder, TakeEvents
<1>10. ASSUME NEW w \in Watcher, WatcherStep(w) PROVE IInv'
  BY <1>10 DEF WatcherStep, WakeToStop, WakeToReconnect, Mark, WatcherStops
<1>11. ASSUME NEW c \in Task,
              Close(c) \/ HandlerStops(c) \/ Welcome(c) \/ StreamFails(c) \/ StreamEnds(c)
       PROVE  IInv'
  BY <1>11 DEF Close, HandlerStops, Welcome, StreamFails, StreamEnds, HandlerMoves
<1>12. ASSUME NEW c \in Task, WriteLate(c) \/ ForwarderDies(c) PROVE IInv'
  BY <1>12 DEF WriteLate, ForwarderDies
<1>13. CASE Shutdown
  BY <1>13 DEF Shutdown
<1>14. CASE Drain
  <2>1. Dropped(slot)
    BY <1>14 DEF Drain
  <2> QED BY <1>14, <2>1, DroppedTypes DEF Drain
<1>15. CASE UNCHANGED vars
  BY <1>15 DEF vars
<1> QED
  BY <1>1, <1>2, <1>3, <1>4, <1>5, <1>6, <1>7, <1>8, <1>9, <1>10, <1>11, <1>12, <1>13,
     <1>14, <1>15, <1>16, <1>17, <1>18, <1>19
  DEF Next, TaskStep, ConnectStep, Environment

LEMMA Inductive == Spec => []IInv
<1>1. Init => IInv
  <2>1. Init => TypeOK
    <3> SUFFICES ASSUME Init PROVE TypeOK
      OBVIOUS
    <3>1. /\ exists \in BOOLEAN /\ watched \in BOOLEAN
          /\ spawner \in BOOLEAN /\ forwarding \in BOOLEAN
      BY Zenon DEF Init
    <3> QED BY <3>1 DEF Init, TypeOK
  <2>2. Init => HandIsBusy /\ AbsentClientReturns
    BY DEF Init, HandIsBusy, AbsentClientReturns
  <2> QED BY <2>1, <2>2 DEF IInv
<1> QED BY <1>1, InductiveStep, PTL DEF Spec

\* The types of the connection, its clients, tasks and watchers.
THEOREM TypeCorrect == Spec => []TypeOK
<1>1. IInv => TypeOK
  BY DEF IInv
<1> QED BY <1>1, Inductive, PTL

\* create_and_connect and the watcher leave an entry without a client alone; they are
\* right to, since somebody is connecting it whenever they find it so.
THEOREM AbsentClientReturnsHolds == Spec => []AbsentClientReturns
<1>1. IInv => AbsentClientReturns
  BY DEF IInv
<1> QED BY <1>1, Inductive, PTL
==============================================================================
