------------------------ MODULE RuntimeLifecycleProofs ------------------------
(***************************************************************************)
(* For any users, operations and connections, on every transport: every    *)
(* slot holds what belongs in it, no dispatch task escapes its handle, and *)
(* a connection is served as long as no two calls overlap.                 *)
(***************************************************************************)
EXTENDS RuntimeLifecycle, TLAPS

\* What the proof needs of types and slots: the handle and the handles taken
\* out of the slot are dispatch tasks, and those not yet spawned do nothing.
Slots ==
  /\ disp \in [Dispatchers -> DispatcherStates]
  /\ user \in [Users -> UserStates]
  /\ mine \in [Users -> Nat]
  /\ conn \in Nat /\ opened \in Nat /\ spawned \in Nat
  /\ handle \in Dispatchers \cup {None}
  /\ \A u \in Users : user[u] = "abort" => mine[u] \in Dispatchers
  /\ \A d \in Dispatchers : d > spawned => disp[d] = "none"

LifecycleInv == Slots /\ NoOrphanTask

\* A fresh runtime has no dispatch task.
LEMMA LifecycleInit == Init => LifecycleInv
BY DEF Init, LifecycleInv, Slots, NoOrphanTask, DispatcherStates, UserStates, None

\* A user that holds no handle and takes none goes on: the tasks and who holds
\* them stay as they are.
LEMMA HoldsNoHandle ==
  ASSUME LifecycleInv, UNCHANGED tasks,
         NEW u \in Users, user[u] # "abort",
         NEW state \in UserStates \ {"abort"}, NEW what \in Nat, Goto(u, state, what),
         conn' \in Nat, opened' \in Nat
  PROVE  LifecycleInv'
<1>. USE DEF LifecycleInv, Slots, NoOrphanTask, Goto, tasks, UserStates
<1>1. Slots'
  OBVIOUS
<1>2. ASSUME NEW v \in Users, user[v] = "abort"
      PROVE  user'[v] = "abort" /\ mine'[v] = mine[v]
  BY <1>2
<1>3. NoOrphanTask'
  BY <1>2
<1>. QED  BY <1>1, <1>3

\* The steps of connect keep Slots and NoOrphanTask: a task is only replaced in
\* the slot when it has ended.
LEMMA ConnectSteps ==
  ASSUME LifecycleInv, NEW u \in Users,
         \/ ConnectAlready(u) \/ ConnectOpens(u) \/ ConnectFails(u)
         \/ SetRx(u) \/ EnsureDispatchTask(u)
  PROVE  LifecycleInv'
<1>. USE LifecycleAssumption DEF LifecycleInv, Slots, NoOrphanTask, DispatcherStates, UserStates,
       Dispatchers, Connections, None, Call, Goto, tasks, transport
<1>1. CASE ConnectAlready(u)
  BY <1>1 DEF ConnectAlready
<1>2. CASE ConnectOpens(u)
  BY <1>2 DEF ConnectOpens
<1>3. CASE ConnectFails(u)
  BY <1>3 DEF ConnectFails
<1>4. CASE SetRx(u)
  BY <1>4 DEF SetRx
<1>5. CASE EnsureDispatchTask(u)
  <2>1. CASE UNCHANGED tasks
    BY <1>5, <2>1, HoldsNoHandle DEF EnsureDispatchTask
  <2>2. CASE ~ UNCHANGED tasks
    <3>1. /\ ~TaskRunning /\ spawned < MaxDispatchers /\ spawned' = spawned + 1
          /\ handle' = spawned' /\ disp' = [disp EXCEPT ![spawned'] = "ready"]
          /\ spawned' \in Dispatchers
      BY <1>5, <2>2 DEF EnsureDispatchTask
    <3>2. \A v \in Users : user[v] = "abort" => user'[v] = "abort" /\ mine'[v] = mine[v]
      BY <1>5 DEF EnsureDispatchTask
    <3>3. Slots'
      BY <1>5, <3>1 DEF EnsureDispatchTask
    <3>4. ASSUME NEW d \in Dispatchers, disp'[d] \in {"ready", "recv"}, d # handle'
          PROVE  disp[d] \in {"ready", "recv"} /\ d # handle
      BY <3>1, <3>4 DEF TaskRunning
    <3>5. NoOrphanTask'
      BY <3>2, <3>4
    <3>. QED  BY <3>3, <3>5
  <2>. QED  BY <2>1, <2>2
<1>. QED  BY <1>1, <1>2, <1>3, <1>4, <1>5

\* The steps of disconnect keep them: the handle a user takes out of the slot
\* stays with that user until the task has been aborted.
LEMMA DisconnectSteps ==
  ASSUME LifecycleInv, NEW u \in Users,
         \/ TakeHandle(u) \/ AbortTask(u) \/ TakeConnection(u)
         \/ CloseConnection(u) \/ ClearRx(u)
  PROVE  LifecycleInv'
<1>. DEFINE Elsewhere == {"idle", "take", "close", "clearRx"}
<1>1. ASSUME NEW state \in Elsewhere, NEW what \in Nat, Goto(u, state, what),
             user[u] # "abort", UNCHANGED tasks, conn' \in Nat, opened' \in Nat
      PROVE  LifecycleInv'
  <2>1. state \in UserStates \ {"abort"}
    BY DEF UserStates
  <2>. QED  BY <1>1, <2>1, HoldsNoHandle
<1>2. None \in Nat /\ conn \in Nat /\ opened \in Nat /\ mine[u] \in Nat
  BY DEF LifecycleInv, Slots, None
<1>3. CASE TakeHandle(u)
  <2>1. user[u] = "idle" /\ handle' = None /\ UNCHANGED <<conn, opened, spawned, disp, rx>>
    BY <1>3 DEF TakeHandle, Call, transport
  <2>2. CASE handle = None
    <3>1. Goto(u, "take", None) /\ UNCHANGED tasks
      BY <1>3, <2>1, <2>2 DEF TakeHandle, tasks
    <3>. QED  BY <1>1, <1>2, <2>1, <3>1
  <2>3. CASE handle # None
    <3>1. Goto(u, "abort", handle) /\ handle \in Dispatchers
      BY <1>3, <2>3 DEF TakeHandle, LifecycleInv, Slots
    <3>2. Slots'
      BY <2>1, <3>1, LifecycleAssumption
         DEF LifecycleInv, Slots, Goto, UserStates, Dispatchers, None
    <3>3. user'[u] = "abort" /\ mine'[u] = handle
      BY <3>1 DEF Goto, LifecycleInv, Slots
    <3>4. \A v \in Users : user[v] = "abort" => user'[v] = "abort" /\ mine'[v] = mine[v]
      BY <2>1, <3>1 DEF Goto, LifecycleInv, Slots
    <3>5. NoOrphanTask'
      BY <2>1, <3>3, <3>4 DEF LifecycleInv, NoOrphanTask
    <3>. QED  BY <3>2, <3>5 DEF LifecycleInv
  <2>. QED  BY <2>2, <2>3
<1>4. CASE AbortTask(u)
  BY <1>4, LifecycleAssumption
     DEF AbortTask, AbortedTo, LifecycleInv, Slots, NoOrphanTask, DispatcherStates,
         UserStates, Dispatchers, None, Goto, transport
<1>5. CASE TakeConnection(u)
  <2>1. /\ user[u] = "take" /\ conn' = None /\ UNCHANGED <<opened, tasks>>
        /\ \/ Goto(u, "close", conn)
           \/ Goto(u, "clearRx", None)
           \/ Goto(u, "idle", None)
    BY <1>5 DEF TakeConnection
  <2>. QED  BY <1>1, <1>2, <2>1
<1>6. CASE CloseConnection(u)
  <2>1. /\ user[u] = "close" /\ UNCHANGED <<conn, opened, tasks>>
        /\ Goto(u, "idle", None) \/ Goto(u, "clearRx", None)
    BY <1>6 DEF CloseConnection
  <2>. QED  BY <1>1, <1>2, <2>1
<1>7. CASE ClearRx(u)
  <2>1. /\ user[u] = "clearRx" /\ UNCHANGED <<conn, opened, tasks>>
        /\ Goto(u, "idle", None)
    BY <1>7 DEF ClearRx
  <2>. QED  BY <1>1, <1>2, <2>1
<1>. QED  BY <1>3, <1>4, <1>5, <1>6, <1>7

\* Dispatch tasks and readers touch neither the slot nor the users; a task
\* that starts to receive was running before.
LEMMA TaskSteps ==
  ASSUME LifecycleInv,
         \/ \E d \in Dispatchers : DispatcherStep(d)
         \/ \E k \in Connections : ReaderFails(k)
         \/ UNCHANGED vars
  PROVE  LifecycleInv'
<1>. USE DEF LifecycleInv, Slots, NoOrphanTask, DispatcherStates, UserStates, tasks, transport, vars
<1>1. ASSUME NEW d \in Dispatchers, DispatcherStep(d)
      PROVE  LifecycleInv'
  BY <1>1 DEF DispatcherStep, StartRecv, NothingToRecv, GetMessage, ChannelEnds, Finish
<1>2. ASSUME NEW k \in Connections, ReaderFails(k)
      PROVE  LifecycleInv'
  BY <1>2 DEF ReaderFails
<1>3. CASE UNCHANGED vars
  BY <1>3
<1>. QED  BY <1>1, <1>2, <1>3

\* A dispatch task that runs is in the dispatch_task slot, or in the hands of
\* a disconnect about to abort it, however connects and disconnects on clones
\* interleave: two tasks never compete for the messages of one runtime.
THEOREM NoTaskEscapes == Spec => []NoOrphanTask
<1>1. LifecycleInv /\ [Next]_vars => LifecycleInv'
  BY ConnectSteps, DisconnectSteps, TaskSteps DEF Next, UserStep
<1>2. LifecycleInv => NoOrphanTask
  BY DEF LifecycleInv
<1>. QED  BY LifecycleInit, <1>1, <1>2, PTL DEF Spec

-----------------------------------------------------------------------------

\* As long as no two calls have overlapped: one user at most is inside connect
\* or disconnect; a dispatch task is only installed over a connection; connect
\* waits for the receive-channel lock holding the connection it has just
\* opened, with no task installed; disconnect has emptied what it is past.
Sequential ==
  /\ \A u, v \in Users : user[u] # "idle" /\ user[v] # "idle" => u = v
  /\ handle # None => conn # None
  /\ \A u \in Users :
       /\ user[u] = "ensure" => conn # None
       /\ user[u] = "setRx" => conn = mine[u] /\ handle = None
       /\ user[u] \in {"abort", "take", "close", "clearRx"} => handle = None
       /\ user[u] \in {"close", "clearRx"} => conn = None

\* The connection's channel is with the installed task, or in the slot for it
\* or for the task about to be spawned.
ChannelAtHand ==
  \/ handle # None /\ disp[handle] = "ready" /\ slot = conn
  \/ handle # None /\ disp[handle] = "recv" /\ rx[handle] = conn /\ (TakesChannel \/ slot = conn)
  \/ handle = None /\ slot = conn /\ \E u \in Users : user[u] = "ensure"

\* So it is with a connection whose reader runs, and which nobody is about to
\* fill in or to take down.
ChannelHeld ==
  conn # None /\ reader[conn] = "alive"
  /\ (\A u \in Users : user[u] \notin {"setRx", "abort", "take"}) => ChannelAtHand

Undisturbed == ~overlap => Sequential /\ ChannelHeld

-----------------------------------------------------------------------------

\* TypeOK says what a user holds by where it is; the proof also needs that mine
\* is a function.
Typed == TypeOK /\ mine \in [Users -> Nat]

LEMMA LifecycleTypesInit == Init => Typed
<1>. SUFFICES ASSUME Init PROVE Typed
  OBVIOUS
<1>. USE LifecycleAssumption DEF Init
<1>0. overlap \in BOOLEAN
  OBVIOUS
<1>1. /\ backend \in Backends
      /\ conn \in Connections \cup {None} /\ slot \in Connections \cup {None}
      /\ handle \in Dispatchers \cup {None}
      /\ opened \in 0 .. MaxConnections /\ spawned \in 0 .. MaxDispatchers
      /\ reader \in [Connections -> ReaderStates]
      /\ disp \in [Dispatchers -> DispatcherStates]
      /\ rx \in [Dispatchers -> Connections \cup {None}]
      /\ user \in [Users -> UserStates] /\ mine \in [Users -> Nat]
      /\ calls \in [Users -> 0 .. MaxOperations]
  BY DEF ReaderStates, DispatcherStates, UserStates, None
<1>2. ASSUME NEW u \in Users
      PROVE  mine[u] \in CASE user[u] \in {"setRx", "close"} -> Connections
                            [] user[u] = "abort" -> Dispatchers
                            [] OTHER -> {None}
  <2>1. user[u] = "idle" /\ mine[u] = None
    OBVIOUS
  <2>. QED  BY <2>1
<1>. QED  BY <1>0, <1>1, <1>2 DEF Typed, TypeOK

\* Moving one user keeps the types of user and mine.
LEMMA GotoTypes ==
  ASSUME Typed, NEW u \in Users, NEW state \in UserStates, NEW what \in Nat,
         Goto(u, state, what),
         what \in CASE state \in {"setRx", "close"} -> Connections
                    [] state = "abort" -> Dispatchers
                    [] OTHER -> {None}
  PROVE  /\ user' \in [Users -> UserStates]
         /\ mine' \in [Users -> Nat]
         /\ \A v \in Users :
              mine'[v] \in CASE user'[v] \in {"setRx", "close"} -> Connections
                             [] user'[v] = "abort" -> Dispatchers
                             [] OTHER -> {None}
<1>1. /\ user' = [user EXCEPT ![u] = state] /\ mine' = [mine EXCEPT ![u] = what]
      /\ user \in [Users -> UserStates] /\ mine \in [Users -> Nat]
  BY DEF Goto, Typed, TypeOK
<1>2. ASSUME NEW v \in Users
      PROVE  mine'[v] \in CASE user'[v] \in {"setRx", "close"} -> Connections
                            [] user'[v] = "abort" -> Dispatchers
                            [] OTHER -> {None}
  <2>1. CASE v = u
    BY <1>1, <2>1
  <2>2. CASE v # u
    <3>1. user'[v] = user[v] /\ mine'[v] = mine[v]
      BY <1>1, <2>2
    <3>. QED  BY <3>1 DEF Typed, TypeOK
  <2>. QED  BY <2>1, <2>2
<1>. QED  BY <1>1, <1>2

LEMMA UserTypes ==
  ASSUME Typed, NEW u \in Users, UserStep(u)
  PROVE  Typed'
<1>. USE LifecycleAssumption
<1>1. /\ None \in Nat /\ Connections \subseteq Nat /\ Dispatchers \subseteq Nat
      /\ conn \in Connections \cup {None} /\ handle \in Dispatchers \cup {None}
      /\ user[u] \in {"setRx", "close"} => mine[u] \in Connections
      /\ user[u] = "abort" => mine[u] \in Dispatchers
  BY DEF Typed, TypeOK, None, Connections, Dispatchers
<1>2. /\ user' \in [Users -> UserStates] /\ mine' \in [Users -> Nat]
      /\ \A v \in Users :
           mine'[v] \in CASE user'[v] \in {"setRx", "close"} -> Connections
                          [] user'[v] = "abort" -> Dispatchers
                          [] OTHER -> {None}
  <2>1. ASSUME NEW state \in UserStates \ {"setRx", "close", "abort"}, Goto(u, state, None)
        PROVE  <1>2
    BY <1>1, <2>1, GotoTypes
  <2>2. ASSUME NEW state \in {"setRx", "close"}, NEW k \in Connections, Goto(u, state, k)
        PROVE  <1>2
    BY <1>1, <2>2, GotoTypes DEF UserStates
  <2>3. ASSUME NEW d \in Dispatchers, Goto(u, "abort", d)
        PROVE  <1>2
    BY <1>1, <2>3, GotoTypes DEF UserStates
  <2>4. CASE ConnectAlready(u) \/ SetRx(u) \/ EnsureDispatchTask(u) \/ AbortTask(u) \/ ClearRx(u)
    BY <2>1, <2>4 DEF ConnectAlready, SetRx, EnsureDispatchTask, AbortTask, ClearRx, UserStates
  <2>5. CASE ConnectOpens(u)
    <3>1. opened' \in Connections /\ Goto(u, "setRx", opened')
      BY <2>5 DEF ConnectOpens, Typed, TypeOK, Connections
    <3>. QED  BY <2>2, <3>1
  <2>6. CASE ConnectFails(u)
    BY <2>6 DEF ConnectFails, Typed, TypeOK
  <2>7. CASE TakeHandle(u)
    BY <1>1, <2>1, <2>3, <2>7 DEF TakeHandle, UserStates
  <2>8. CASE TakeConnection(u)
    BY <1>1, <2>1, <2>2, <2>8 DEF TakeConnection, UserStates
  <2>9. CASE CloseConnection(u)
    BY <2>1, <2>9 DEF CloseConnection, UserStates
  <2>. QED  BY <2>4, <2>5, <2>6, <2>7, <2>8, <2>9 DEF UserStep
<1>3. overlap' \in BOOLEAN /\ calls' \in [Users -> 0 .. MaxOperations]
  <2>1. (overlap' = overlap /\ calls' = calls) \/ Call(u)
    BY DEF UserStep, ConnectAlready, ConnectOpens, ConnectFails, SetRx, EnsureDispatchTask,
         TakeHandle, AbortTask, TakeConnection, CloseConnection, ClearRx
  <2>2. CASE Call(u)
    <3>1. overlap' \in BOOLEAN
      BY <2>2 DEF Call
    <3>2. /\ calls \in [Users -> 0 .. MaxOperations] /\ calls[u] > 0
          /\ calls' = [calls EXCEPT ![u] = calls[u] - 1]
      BY <2>2 DEF Call, Typed, TypeOK
    <3>. QED  BY <3>1, <3>2
  <2>. QED  BY <2>1, <2>2 DEF Typed, TypeOK
<1>4. /\ backend' \in Backends /\ opened' \in 0 .. MaxConnections
      /\ conn' \in Connections \cup {None} /\ slot' \in Connections \cup {None}
  BY <1>1 DEF Typed, TypeOK, UserStep, ConnectAlready, ConnectOpens, ConnectFails, SetRx,
       EnsureDispatchTask, TakeHandle, AbortTask, TakeConnection, CloseConnection, ClearRx,
       transport, Connections
<1>5. reader' \in [Connections -> ReaderStates]
  BY <1>1 DEF Typed, TypeOK, UserStep, ConnectAlready, ConnectOpens, ConnectFails, SetRx,
       EnsureDispatchTask, TakeHandle, AbortTask, TakeConnection, CloseConnection, ClearRx,
       transport, ReaderStates
<1>6. /\ handle' \in Dispatchers \cup {None} /\ spawned' \in 0 .. MaxDispatchers
      /\ disp' \in [Dispatchers -> DispatcherStates]
      /\ rx' \in [Dispatchers -> Connections \cup {None}]
  BY <1>1 DEF Typed, TypeOK, UserStep, ConnectAlready, ConnectOpens, ConnectFails, SetRx,
       EnsureDispatchTask, TakeHandle, AbortTask, AbortedTo, TakeConnection, CloseConnection,
       ClearRx, tasks, DispatcherStates, Dispatchers
<1>. QED  BY <1>2, <1>3, <1>4, <1>5, <1>6 DEF Typed, TypeOK

LEMMA TaskTypes ==
  ASSUME Typed,
         \/ \E d \in Dispatchers : DispatcherStep(d)
         \/ \E k \in Connections : ReaderFails(k)
         \/ UNCHANGED vars
  PROVE  Typed'
<1>1. /\ user' = user /\ mine' = mine /\ calls' = calls /\ overlap' = overlap
      /\ backend' = backend /\ conn' = conn /\ opened' = opened
      /\ handle' = handle /\ spawned' = spawned
  BY DEF DispatcherStep, StartRecv, NothingToRecv, GetMessage, ChannelEnds, Finish,
       ReaderFails, transport, tasks, vars
<1>2. /\ reader' \in [Connections -> ReaderStates]
      /\ slot' \in Connections \cup {None}
      /\ disp' \in [Dispatchers -> DispatcherStates]
      /\ rx' \in [Dispatchers -> Connections \cup {None}]
  <2>1. ASSUME NEW d \in Dispatchers, DispatcherStep(d)
        PROVE  <1>2
    BY <2>1 DEF Typed, TypeOK, DispatcherStep, StartRecv, NothingToRecv, GetMessage, ChannelEnds,
         Finish, SlotAfterRecv, transport, DispatcherStates
  <2>2. ASSUME NEW k \in Connections, ReaderFails(k)
        PROVE  <1>2
    BY <2>2 DEF Typed, TypeOK, ReaderFails, tasks, ReaderStates
  <2>3. CASE UNCHANGED vars
    BY <2>3 DEF Typed, TypeOK, vars, transport, tasks
  <2>. QED  BY <2>1, <2>2, <2>3
<1>. QED  BY <1>1, <1>2 DEF Typed, TypeOK

\* Every slot holds what belongs in it: in particular disconnect closes a
\* connection it took out of the slot, and awaits a task that was spawned.
THEOREM LifecycleTypes == Spec => []TypeOK
<1>1. Typed /\ [Next]_vars => Typed'
  BY UserTypes, TaskTypes DEF Next
<1>2. Typed => TypeOK
  BY DEF Typed
<1>. QED  BY LifecycleTypesInit, <1>1, <1>2, PTL DEF Spec
-----------------------------------------------------------------------------

LEMMA SequentialInit == Init => Undisturbed
BY DEF Init, Undisturbed, Sequential, ChannelHeld, None

\* A call that nothing overlaps begins with everybody idle.
LEMMA CallAlone ==
  ASSUME Undisturbed, NEW u \in Users, Call(u), ~overlap'
  PROVE  Sequential /\ ChannelHeld /\ \A v \in Users : user[v] = "idle"
BY DEF Call, Undisturbed

\* The steps of connect.  Fill first: a new connection meets no dispatch task.
LEMMA ConnectAlone ==
  ASSUME Typed, Undisturbed, ~overlap', NEW u \in Users,
         \/ ConnectAlready(u) \/ ConnectOpens(u) \/ ConnectFails(u)
         \/ SetRx(u) \/ EnsureDispatchTask(u)
  PROVE  Sequential' /\ ChannelHeld'
<1>. USE LifecycleAssumption
     DEF Goto, Typed, TypeOK, Sequential, ChannelHeld, ChannelAtHand, TakesChannel, transport, tasks
<1>1. CASE ConnectAlready(u)
  <2>1. Sequential /\ ChannelHeld /\ \A v \in Users : user[v] = "idle"
    BY <1>1, CallAlone DEF ConnectAlready
  <2>. QED  BY <1>1, <2>1 DEF ConnectAlready
<1>2. CASE ConnectOpens(u)
  <2>1. Sequential /\ ChannelHeld /\ \A v \in Users : user[v] = "idle"
    BY <1>2, CallAlone DEF ConnectOpens
  <2>. QED  BY <1>2, <2>1 DEF ConnectOpens, None
<1>3. CASE ConnectFails(u)
  <2>1. Sequential /\ ChannelHeld /\ \A v \in Users : user[v] = "idle"
    BY <1>3, CallAlone DEF ConnectFails
  <2>. QED  BY <1>3, <2>1 DEF ConnectFails
<1>4. CASE SetRx(u)
  <2>1. Sequential /\ ChannelHeld /\ mine[u] \in Connections
    BY <1>4 DEF SetRx, Undisturbed
  <2>2. /\ user[u] = "setRx" /\ conn = mine[u] /\ handle = None /\ conn # None
        /\ UNCHANGED <<conn, reader, handle, backend>> /\ slot' = conn
        /\ user' = [user EXCEPT ![u] = "ensure"] /\ mine' = [mine EXCEPT ![u] = None]
    BY <1>4, <2>1 DEF SetRx, None, Connections
  <2>3. Sequential'
    BY <2>1, <2>2
  <2>4. ChannelHeld'
    BY <2>1, <2>2
  <2>. QED  BY <2>3, <2>4
<1>5. CASE EnsureDispatchTask(u)
  <2>1. Sequential /\ ChannelHeld
    BY <1>5 DEF EnsureDispatchTask, Undisturbed
  <2>2. /\ user[u] = "ensure" /\ conn # None
        /\ UNCHANGED <<conn, reader, slot, backend, rx>>
        /\ user' = [user EXCEPT ![u] = "idle"] /\ mine' = [mine EXCEPT ![u] = None]
    BY <1>5, <2>1 DEF EnsureDispatchTask
  <2>3. \A v \in Users : v # u => user[v] = "idle"
    BY <2>1, <2>2
  <2>4. \A v \in Users : user'[v] = "idle"
    BY <2>2, <2>3
  <2>5. Sequential'
    BY <2>2, <2>4
  <2>6. CASE TaskRunning /\ UNCHANGED tasks
    BY <2>1, <2>2, <2>3, <2>6 DEF TaskRunning
  <2>7. CASE ~TaskRunning /\ spawned < MaxDispatchers /\ spawned' = spawned + 1
             /\ handle' = spawned' /\ disp' = [disp EXCEPT ![spawned'] = "ready"]
    <3>1. handle' \in Dispatchers /\ handle' # None /\ disp'[handle'] = "ready"
      BY <2>7 DEF Dispatchers, None
    <3>2. reader[conn] = "alive" => slot = conn
      BY <2>1, <2>2, <2>3, <2>7 DEF TaskRunning
    <3>. QED  BY <2>2, <2>5, <3>1, <3>2
  <2>. QED  BY <1>5, <2>5, <2>6, <2>7 DEF EnsureDispatchTask
<1>. QED  BY <1>1, <1>2, <1>3, <1>4, <1>5

\* The steps of disconnect.  Empty first: the task goes before the connection,
\* so that no task is left in the slot over an empty transport.
LEMMA DisconnectAlone ==
  ASSUME Typed, Undisturbed, ~overlap', NEW u \in Users,
         \/ TakeHandle(u) \/ AbortTask(u) \/ TakeConnection(u)
         \/ CloseConnection(u) \/ ClearRx(u)
  PROVE  Sequential' /\ ChannelHeld'
<1>. USE DEF Goto, Typed, TypeOK, Sequential, ChannelHeld, ChannelAtHand, TakesChannel, transport, tasks
<1>1. CASE TakeHandle(u)
  <2>1. Sequential /\ ChannelHeld /\ \A v \in Users : user[v] = "idle"
    BY <1>1, CallAlone DEF TakeHandle
  <2>2. user'[u] \in {"abort", "take"} /\ \A v \in Users : v # u => user'[v] = "idle"
    BY <1>1, <2>1 DEF TakeHandle
  <2>. QED  BY <1>1, <2>1, <2>2 DEF TakeHandle
<1>2. CASE AbortTask(u)
  <2>1. Sequential /\ ChannelHeld
    BY <1>2 DEF AbortTask, Undisturbed
  <2>2. user[u] = "abort" /\ user'[u] = "take" /\ \A v \in Users : v # u => user'[v] = user[v]
    BY <1>2 DEF AbortTask
  <2>. QED  BY <1>2, <2>1, <2>2 DEF AbortTask
<1>3. CASE TakeConnection(u)
  <2>1. Sequential /\ ChannelHeld
    BY <1>3 DEF TakeConnection, Undisturbed
  <2>2. /\ user[u] = "take" /\ conn' = None /\ handle' = None
        /\ user'[u] \in {"close", "clearRx", "idle"} /\ \A v \in Users : v # u => user'[v] = "idle"
    BY <1>3, <2>1 DEF TakeConnection
  <2>. QED  BY <2>2
<1>4. CASE CloseConnection(u)
  <2>1. Sequential /\ ChannelHeld
    BY <1>4 DEF CloseConnection, Undisturbed
  <2>2. /\ user[u] = "close" /\ conn' = None /\ handle' = None
        /\ user'[u] \in {"clearRx", "idle"} /\ \A v \in Users : v # u => user'[v] = "idle"
    BY <1>4, <2>1 DEF CloseConnection
  <2>. QED  BY <2>2
<1>5. CASE ClearRx(u)
  <2>1. Sequential /\ ChannelHeld
    BY <1>5 DEF ClearRx, Undisturbed
  <2>2. /\ user[u] = "clearRx" /\ conn' = None /\ handle' = None
        /\ user'[u] = "idle" /\ \A v \in Users : v # u => user'[v] = "idle"
    BY <1>5, <2>1 DEF ClearRx
  <2>. QED  BY <2>2
<1>. QED  BY <1>1, <1>2, <1>3, <1>4, <1>5

\* The dispatch tasks and the readers.  Only the installed task receives while
\* nobody disconnects, so it alone moves the channel in and out of its slot.
LEMMA TasksAlone ==
  ASSUME Typed, NoOrphanTask, Undisturbed, ~overlap',
         \/ \E d \in Dispatchers : DispatcherStep(d)
         \/ \E k \in Connections : ReaderFails(k)
         \/ UNCHANGED vars
  PROVE  Sequential' /\ ChannelHeld'
<1>1. /\ user' = user /\ mine' = mine /\ overlap' = overlap
      /\ backend' = backend /\ conn' = conn /\ handle' = handle
  BY DEF DispatcherStep, StartRecv, NothingToRecv, GetMessage, ChannelEnds, Finish,
       ReaderFails, transport, tasks, vars
<1>2. Sequential /\ ChannelHeld
  BY <1>1 DEF Undisturbed
<1>3. Sequential'
  BY <1>1, <1>2 DEF Sequential
<1>4. ChannelHeld'
  <2>1. SUFFICES ASSUME conn # None, reader'[conn] = "alive",
                        \A u \in Users : user[u] \notin {"setRx", "abort", "take"}
                 PROVE  ChannelAtHand'
    BY <1>1 DEF ChannelHeld
  <2>2. reader[conn] = "alive" /\ reader \in [Connections -> ReaderStates]
        /\ conn \in Connections
    <3>1. conn \in Connections /\ reader \in [Connections -> ReaderStates]
      BY <2>1 DEF Typed, TypeOK
    <3>. QED  BY <2>1, <3>1 DEF DispatcherStep, StartRecv, NothingToRecv, GetMessage, ChannelEnds,
                   Finish, ReaderFails, vars, transport
  <2>3. ChannelAtHand
    BY <1>2, <2>1, <2>2 DEF ChannelHeld
  <2>4. ASSUME NEW d \in Dispatchers, DispatcherStep(d)
        PROVE  ChannelAtHand'
    <3>1. disp \in [Dispatchers -> DispatcherStates]
          /\ rx \in [Dispatchers -> Connections \cup {None}]
      BY DEF Typed, TypeOK
    <3>2. disp[d] \in {"ready", "recv"} => d = handle /\ handle # None
      BY <2>1 DEF NoOrphanTask, Dispatchers, None
    <3>3. CASE StartRecv(d)
      BY <2>2, <2>3, <3>1, <3>2, <3>3 DEF StartRecv, ChannelAtHand, TakesChannel
    <3>4. CASE NothingToRecv(d)
      BY <2>1, <2>2, <2>3, <3>1, <3>2, <3>4 DEF NothingToRecv, ChannelAtHand
    <3>5. CASE GetMessage(d)
      BY <2>2, <2>3, <3>1, <3>2, <3>5 DEF GetMessage, ChannelAtHand, SlotAfterRecv, TakesChannel
    <3>6. CASE ChannelEnds(d)
      BY <2>2, <2>3, <3>1, <3>2, <3>6 DEF ChannelEnds, ChannelAtHand
    <3>7. CASE Finish(d)
      BY <2>2, <2>3, <3>1, <3>7 DEF Finish, ChannelAtHand, TakesChannel, transport
    <3>. QED  BY <2>4, <3>3, <3>4, <3>5, <3>6, <3>7 DEF DispatcherStep
  <2>5. CASE \E k \in Connections : ReaderFails(k)
    BY <2>3, <2>5 DEF ReaderFails, ChannelAtHand, TakesChannel, tasks
  <2>6. CASE UNCHANGED vars
    BY <2>3, <2>6 DEF ChannelAtHand, TakesChannel, vars, transport, tasks
  <2>. QED  BY <2>4, <2>5, <2>6
<1>. QED  BY <1>3, <1>4

\* As long as no call of connect or disconnect overlapped another, whatever
\* fails in between, a connection whose reader runs is received from: what
\* is_connected reports is of use to the caller, on every transport.
THEOREM SequentialCallsServed == Spec => []ServedUnlessOverlapped
<1>1. Typed /\ LifecycleInv /\ Undisturbed /\ [Next]_vars => Undisturbed'
  <2>1. SUFFICES ASSUME Typed, NoOrphanTask, Undisturbed, [Next]_vars, ~overlap'
                 PROVE  Sequential' /\ ChannelHeld'
    BY DEF LifecycleInv, Undisturbed
  <2>2. ASSUME NEW u \in Users, UserStep(u)
        PROVE  Sequential' /\ ChannelHeld'
    BY <2>1, <2>2, ConnectAlone, DisconnectAlone DEF UserStep
  <2>3. CASE \/ \E d \in Dispatchers : DispatcherStep(d)
             \/ \E k \in Connections : ReaderFails(k)
             \/ UNCHANGED vars
    BY <2>1, <2>3, TasksAlone
  <2>. QED  BY <2>1, <2>2, <2>3 DEF Next
<1>2. Undisturbed => ServedUnlessOverlapped
  BY DEF Undisturbed, ChannelHeld, ChannelAtHand, ServedUnlessOverlapped, ConnectedIsServed, Quiescent
<1>3. Typed /\ [Next]_vars => Typed'
  BY UserTypes, TaskTypes DEF Next
<1>4. LifecycleInv /\ [Next]_vars => LifecycleInv'
  BY ConnectSteps, DisconnectSteps, TaskSteps DEF Next, UserStep
<1>. QED
  BY SequentialInit, LifecycleTypesInit, LifecycleInit, <1>1, <1>2, <1>3, <1>4, PTL DEF Spec
=============================================================================
