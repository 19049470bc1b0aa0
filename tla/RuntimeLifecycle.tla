--------------------------- MODULE RuntimeLifecycle ---------------------------
(***************************************************************************)
(* connect and disconnect on clones of one RemoteRuntime (runtime.rs), by  *)
(* several tasks at once, over each of the three transports.               *)
(*                                                                         *)
(* Two places hold what a connection needs: the transport's connection     *)
(* slot with its receive-channel slot (two locks), and the runtime's       *)
(* dispatch_task slot (a third).  connect fills them one after the other,  *)
(* disconnect empties them one after the other, in the other order.  Each  *)
(* critical section is one step.                                           *)
(*                                                                         *)
(* The transports differ in who owns the receive channel while the         *)
(* dispatch task waits on it: WiFi and serial hold the slot's lock, rusb   *)
(* takes the channel out of the slot and puts it back.                     *)
(***************************************************************************)
EXTENDS Naturals

CONSTANTS
  Users,          \* tasks that hold a clone of the RemoteRuntime
  Backends,       \* the transports of this instance
  MaxOperations,  \* bound on connect and disconnect calls per user
  MaxConnections, \* bound on connections opened
  MaxDispatchers  \* bound on dispatch tasks spawned

ASSUME LifecycleAssumption ==
  /\ Backends \subseteq {"wifi", "serial", "rusb"}
  /\ MaxOperations \in Nat /\ MaxConnections \in Nat /\ MaxDispatchers \in Nat

Connections == 1 .. MaxConnections
Dispatchers == 1 .. MaxDispatchers
None == 0

VARIABLES
  backend,   \* the transport this runtime is built on, never changed
  conn,      \* the transport's connection slot: a connection or None
  opened,    \* connections opened so far
  reader,    \* [Connections -> state of the reader task]
  slot,      \* the transport's message_rx slot: whose channel, or None
  handle,    \* the dispatch_task slot: a dispatcher or None
  spawned,   \* dispatchers spawned so far
  disp,      \* [Dispatchers -> where each one is]
  rx,        \* [Dispatchers -> the connection whose channel it waits on]
  user,      \* [Users -> where each one is in connect or disconnect]
  mine,      \* [Users -> what it took out of a slot and works on]
  calls,     \* [Users -> operations it may still call]
  overlap    \* history: a call has begun while another was in progress

transport == <<backend, conn, opened, reader, slot>>
tasks == <<handle, spawned, disp, rx>>
vars == <<transport, tasks, user, mine, calls, overlap>>

ReaderStates == {"none", "alive", "failed", "stopped"}
DispatcherStates == {"none", "ready", "recv", "ending", "ended"}
UserStates == {"idle", "setRx", "ensure", "abort", "take", "close", "clearRx"}

TypeOK ==
  /\ backend \in Backends
  /\ conn \in Connections \cup {None}
  /\ opened \in 0 .. MaxConnections
  /\ reader \in [Connections -> ReaderStates]
  /\ slot \in Connections \cup {None}
  /\ handle \in Dispatchers \cup {None}
  /\ spawned \in 0 .. MaxDispatchers
  /\ disp \in [Dispatchers -> DispatcherStates]
  /\ rx \in [Dispatchers -> Connections \cup {None}]
  /\ user \in [Users -> UserStates]
  /\ \A u \in Users :
       mine[u] \in CASE user[u] \in {"setRx", "close"} -> Connections
                     [] user[u] = "abort" -> Dispatchers
                     [] OTHER -> {None}
  /\ calls \in [Users -> 0 .. MaxOperations]
  /\ overlap \in BOOLEAN

Init ==
  /\ backend \in Backends
  /\ conn = None /\ opened = 0 /\ slot = None
  /\ reader = [k \in Connections |-> "none"]
  /\ handle = None /\ spawned = 0
  /\ disp = [d \in Dispatchers |-> "none"]
  /\ rx = [d \in Dispatchers |-> None]
  /\ user = [u \in Users |-> "idle"]
  /\ mine = [u \in Users |-> None]
  /\ calls = [u \in Users |-> MaxOperations]
  /\ overlap = FALSE

TakesChannel == backend = "rusb"

\* WiFi and serial hold the lock of message_rx while they wait for a message;
\* rusb locks it for an assignment only.
RxLockFree == TakesChannel \/ \A d \in Dispatchers : disp[d] # "recv"

Goto(u, state, what) ==
  /\ user' = [user EXCEPT ![u] = state]
  /\ mine' = [mine EXCEPT ![u] = what]

Call(u) ==
  /\ user[u] = "idle" /\ calls[u] > 0
  /\ calls' = [calls EXCEPT ![u] = @ - 1]
  /\ overlap' = (overlap \/ \E v \in Users : user[v] # "idle")

(***************************************************************************)
(* RemoteRuntime::connect                                                  *)
(***************************************************************************)

\* connection.connect() finds a connection in the slot and returns Ok.
ConnectAlready(u) ==
  /\ Call(u) /\ conn # None
  /\ Goto(u, "ensure", None)
  /\ UNCHANGED <<transport, tasks>>

\* It opens one, starts its reader, fills the connection slot and unlocks it.
ConnectOpens(u) ==
  /\ Call(u) /\ conn = None /\ opened < MaxConnections
  /\ opened' = opened + 1
  /\ conn' = opened'
  /\ reader' = [reader EXCEPT ![opened'] = "alive"]
  /\ Goto(u, "setRx", opened')
  /\ UNCHANGED <<backend, slot, tasks>>

\* It fails to open one: connect returns the error.
ConnectFails(u) ==
  /\ Call(u) /\ conn = None
  /\ UNCHANGED <<transport, tasks, user, mine>>

\* Then, under the other lock, the receive channel goes into its slot.
SetRx(u) ==
  /\ user[u] = "setRx" /\ RxLockFree
  /\ slot' = mine[u]
  /\ Goto(u, "ensure", None)
  /\ UNCHANGED <<backend, conn, opened, reader, tasks, calls, overlap>>

\* The dispatch_task slot has a task that is not finished.
TaskRunning == handle # None /\ disp[handle] # "ended"

\* ensure_dispatch_task
EnsureDispatchTask(u) ==
  /\ user[u] = "ensure"
  /\ \/ TaskRunning /\ UNCHANGED tasks
     \/ /\ ~TaskRunning /\ spawned < MaxDispatchers
        /\ spawned' = spawned + 1
        /\ handle' = spawned'
        /\ disp' = [disp EXCEPT ![spawned'] = "ready"]
        /\ UNCHANGED rx
  /\ Goto(u, "idle", None)
  /\ UNCHANGED <<transport, calls, overlap>>

(***************************************************************************)
(* RemoteRuntime::disconnect                                               *)
(***************************************************************************)

\* stop_dispatch_task takes the handle out of the slot...
TakeHandle(u) ==
  /\ Call(u)
  /\ handle' = None
  /\ IF handle = None THEN Goto(u, "take", None) ELSE Goto(u, "abort", handle)
  /\ UNCHANGED <<transport, spawned, disp, rx>>

\* Mutant: the handle is dropped, not aborted and awaited; the task goes on.
AbortedNever(d) == disp[d]

\* ...and, with the slot unlocked, aborts the task and waits for its end.
AbortedTo(d) == "ended"

\* Mutant: the task is awaited, but nobody aborted it.
AwaitTask(u) ==
  /\ user[u] = "abort" /\ disp[mine[u]] = "ended"
  /\ Goto(u, "take", None)
  /\ UNCHANGED <<transport, tasks, calls, overlap>>

AbortTask(u) ==
  /\ user[u] = "abort" /\ disp[mine[u]] \in {"ready", "recv", "ended"}
  /\ disp' = [disp EXCEPT ![mine[u]] = AbortedTo(mine[u])]
  /\ Goto(u, "take", None)
  /\ UNCHANGED <<transport, handle, spawned, rx, calls, overlap>>

\* Mutant: what disconnect took out of the slot is closed unchecked.
TakeConnectionUnchecked(u) ==
  /\ user[u] = "take"
  /\ conn' = None
  /\ Goto(u, "close", conn)
  /\ UNCHANGED <<backend, opened, reader, slot, tasks, calls, overlap>>

\* connection.disconnect() empties the connection slot.  With nothing in it,
\* the USB transports return an error and WiFi goes on.
TakeConnection(u) ==
  /\ user[u] = "take"
  /\ conn' = None
  /\ \/ conn # None /\ Goto(u, "close", conn)
     \/ conn = None /\ backend = "wifi" /\ Goto(u, "clearRx", None)
     \/ conn = None /\ backend # "wifi" /\ Goto(u, "idle", None)
  /\ UNCHANGED <<backend, opened, reader, slot, tasks, calls, overlap>>

\* Mutant: the connection is dropped, its reader is not stopped.
CloseConnectionLeavesReader(u) ==
  /\ user[u] = "close"
  /\ Goto(u, "clearRx", None)
  /\ UNCHANGED <<transport, tasks, calls, overlap>>

\* It stops the reader.  The error of a reader that failed ends the serial
\* transport's disconnect here.
CloseConnection(u) ==
  /\ user[u] = "close"
  /\ reader' = [reader EXCEPT ![mine[u]] = "stopped"]
  /\ IF backend = "serial" /\ reader[mine[u]] = "failed"
       THEN Goto(u, "idle", None)
       ELSE Goto(u, "clearRx", None)
  /\ UNCHANGED <<backend, conn, opened, slot, tasks, calls, overlap>>

\* Last, it empties the receive-channel slot.
ClearRx(u) ==
  /\ user[u] = "clearRx" /\ RxLockFree
  /\ slot' = None
  /\ Goto(u, "idle", None)
  /\ UNCHANGED <<backend, conn, opened, reader, tasks, calls, overlap>>

(***************************************************************************)
(* The dispatch tasks, as far as recv_message goes, and the readers        *)
(***************************************************************************)

\* recv_message finds a channel and waits on it.
StartRecv(d) ==
  /\ disp[d] = "ready" /\ RxLockFree /\ slot # None
  /\ disp' = [disp EXCEPT ![d] = "recv"]
  /\ rx' = [rx EXCEPT ![d] = slot]
  /\ slot' = IF TakesChannel THEN None ELSE slot
  /\ UNCHANGED <<backend, conn, opened, reader, handle, spawned, user, mine, calls, overlap>>

\* It finds none and returns Err; the task is about to end.
NothingToRecv(d) ==
  /\ disp[d] = "ready" /\ RxLockFree /\ slot = None
  /\ disp' = [disp EXCEPT ![d] = "ending"]
  /\ UNCHANGED <<transport, handle, spawned, rx, user, mine, calls, overlap>>

\* Mutant: rusb does not put the channel back.
SlotAfterRecvEmpty(k) == IF TakesChannel THEN None ELSE slot

\* The slot after recv on connection k's channel has returned.
SlotAfterRecv(k) == IF TakesChannel THEN k ELSE slot

\* A message arrives and is dispatched (RemoteRuntime).
GetMessage(d) ==
  /\ disp[d] = "recv" /\ reader[rx[d]] = "alive"
  /\ disp' = [disp EXCEPT ![d] = "ready"]
  /\ slot' = SlotAfterRecv(rx[d])
  /\ UNCHANGED <<backend, conn, opened, reader, handle, spawned, rx, user, mine, calls, overlap>>

\* The reader is gone: recv_message returns Err.
ChannelEnds(d) ==
  /\ disp[d] = "recv" /\ reader[rx[d]] # "alive"
  /\ disp' = [disp EXCEPT ![d] = "ending"]
  /\ slot' = SlotAfterRecv(rx[d])
  /\ UNCHANGED <<backend, conn, opened, reader, handle, spawned, rx, user, mine, calls, overlap>>

\* The task returns; from now on is_finished is true.
Finish(d) ==
  /\ disp[d] = "ending"
  /\ disp' = [disp EXCEPT ![d] = "ended"]
  /\ UNCHANGED <<transport, handle, spawned, rx, user, mine, calls, overlap>>

\* The WiFi and serial readers end by themselves on an error; rusb's ignores
\* read errors.
ReaderFails(k) ==
  /\ backend # "rusb" /\ reader[k] = "alive"
  /\ reader' = [reader EXCEPT ![k] = "failed"]
  /\ UNCHANGED <<backend, conn, opened, slot, tasks, user, mine, calls, overlap>>

-----------------------------------------------------------------------------

UserStep(u) ==
  \/ ConnectAlready(u) \/ ConnectOpens(u) \/ ConnectFails(u)
  \/ SetRx(u) \/ EnsureDispatchTask(u)
  \/ TakeHandle(u) \/ AbortTask(u) \/ TakeConnection(u) \/ CloseConnection(u) \/ ClearRx(u)

DispatcherStep(d) ==
  StartRecv(d) \/ NothingToRecv(d) \/ GetMessage(d) \/ ChannelEnds(d) \/ Finish(d)

Next ==
  \/ \E u \in Users : UserStep(u)
  \/ \E d \in Dispatchers : DispatcherStep(d)
  \/ \E k \in Connections : ReaderFails(k)

Spec == Init /\ [][Next]_vars

\* The tasks are scheduled; messages need not arrive, calls need not be made.
Continue(u) ==
  SetRx(u) \/ EnsureDispatchTask(u) \/ AbortTask(u) \/ TakeConnection(u)
  \/ CloseConnection(u) \/ ClearRx(u)

FairSpec ==
  /\ Spec
  /\ \A u \in Users : WF_vars(Continue(u))
  /\ \A d \in Dispatchers :
       WF_vars(StartRecv(d) \/ NothingToRecv(d) \/ ChannelEnds(d) \/ Finish(d))

(***************************************************************************)
(* Properties                                                              *)
(***************************************************************************)

Quiescent == \A u \in Users : user[u] = "idle"

\* When nobody is inside connect or disconnect, a connection whose reader
\* runs has a dispatch task that receives from it: what is_connected reports
\* is of use to the caller.
ConnectedIsServed ==
  Quiescent /\ conn # None /\ reader[conn] = "alive" =>
    /\ handle # None
    /\ \/ disp[handle] = "ready" /\ slot = conn
       \/ disp[handle] = "recv" /\ rx[handle] = conn

\* It is so as long as no call of connect or disconnect overlapped another,
\* on the same clone or on others.
ServedUnlessOverlapped == ~overlap => ConnectedIsServed

\* No dispatch task outlives its handle, overlaps or not: one that runs is in
\* the slot, or somebody is about to abort it.
NoOrphanTask ==
  \A d \in Dispatchers : disp[d] \in {"ready", "recv"} =>
    d = handle \/ \E u \in Users : user[u] = "abort" /\ mine[u] = d

\* A dispatch task left without its connection ends, overlaps or not.
UnconnectedTaskEnds ==
  \A d \in Dispatchers :
    disp[d] \in {"ready", "recv"} /\ conn = None ~> disp[d] = "ended" \/ conn # None

\* connect and disconnect return, unless they overlap: a disconnect may wait
\* for the receive-channel lock of a connection opened meanwhile.
OperationsReturn == \A u \in Users : user[u] # "idle" ~> user[u] = "idle" \/ overlap

\* A connect that finds a connection leaves it only if that connection works.
ConnectEstablishes ==
  [][\A u \in Users : user[u] = "idle" /\ user'[u] = "ensure" => reader[conn] = "alive"]_vars
=============================================================================
