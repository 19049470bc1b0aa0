---------------------------- MODULE WifiEnvironment ----------------------------
(***************************************************************************)
(* WifiEnvironment (wifi.rs): the discovery task that reconciles the       *)
(* connected runtimes with what each mDNS round finds, the exclusions that *)
(* other tasks add and remove meanwhile, and the event channel the         *)
(* application reads.                                                      *)
(*                                                                         *)
(* The std mutexes around the exclusions and the connected runtimes are    *)
(* held for one critical section each: one step.  The task awaits while it *)
(* connects, disconnects and sends; there it can be aborted.  A caller of  *)
(* exclude_host_id may give up while it awaits the disconnect.             *)
(***************************************************************************)
EXTENDS Naturals, Sequences, SequencesExt

CONSTANTS
  Hosts,        \* hosts that answer mDNS queries
  Tokens,       \* those with a saved token, protocol and auth as required
  Callers,      \* tasks that may be inside exclude_host_id
  MissLimit,    \* WIFI_DISCOVERY_MISSES_BEFORE_LEFT, 3 in the code
  EventCap,     \* WIFI_RUNTIME_EVENT_CHANNEL_SIZE, 16 in the code
  MaxRuntimes   \* bound on the connections made to each host

ASSUME WifiEnvironmentAssumption ==
  /\ Tokens \subseteq Hosts
  /\ MissLimit \in Nat \ {0} /\ EventCap \in Nat \ {0} /\ MaxRuntimes \in Nat \ {0}

\* The n-th connection made to a host.
Runtime == [host : Hosts, nth : 1 .. MaxRuntimes]
NoRuntime == [nth |-> 0]
RuntimeEvent == [kind : {"arrived", "left"}, rt : Runtime]

VARIABLES
  excluded,   \* excluded_host_ids
  connected,  \* connected_runtimes, each with its missed_discoveries
  events,     \* the runtime event channel
  opened,     \* [Hosts -> connections made to it so far]
  up,         \* the runtimes whose connection is open
  task,       \* where the discovery task is; "dropped" with the environment
  snapshot,   \* its copy of the exclusions
  todo,       \* devices of this round it has yet to look at
  joining,    \* the host it is connecting to, if any
  seen,       \* seen_host_ids
  leaving,    \* missing_runtimes it has yet to disconnect
  out,        \* the events of this round it has yet to send
  caller,     \* [Callers -> where each one is in exclude_host_id]
  told,       \* history: the events the application got
  unsent,     \* history: events dropped by a full channel or an abort
  abandoned   \* history: runtimes an abort left open, or half-way to disconnection

taskVars == <<task, snapshot, todo, joining, seen, leaving, out>>
history == <<told, unsent, abandoned>>
vars == <<excluded, connected, events, opened, up, taskVars, caller, history>>

Entry == [rt : Runtime, missed : 0 .. MissLimit - 1]
Idle == [at |-> "idle", rt |-> NoRuntime]

TypeOK ==
  /\ excluded \subseteq Hosts
  /\ connected \subseteq Entry
  /\ events \in Seq(RuntimeEvent) /\ Len(events) <= EventCap
  /\ opened \in [Hosts -> 0 .. MaxRuntimes]
  /\ up \subseteq Runtime
  /\ task \in {"off", "idle", "check", "connect", "close", "send", "dropped"}
  /\ snapshot \subseteq Hosts /\ todo \subseteq Hosts /\ joining \subseteq Hosts /\ seen \subseteq Hosts
  /\ leaving \subseteq Runtime
  /\ out \in Seq(RuntimeEvent)
  /\ \A c \in Callers : caller[c].at \in {"idle", "remove", "disconnect", "report"}
  /\ told \subseteq RuntimeEvent /\ unsent \subseteq RuntimeEvent
  /\ abandoned \subseteq Runtime

Runtimes == {e.rt : e \in connected}

\* Mutant: entries are compared with the runtime about to be made.
HasEntryOfRuntime(h) == \E e \in connected : e.rt = [host |-> h, nth |-> opened[h] + 1]

HasEntry(h) == \E e \in connected : e.rt.host = h

Arrived(rt) == [kind |-> "arrived", rt |-> rt]
Left(rt) == [kind |-> "left", rt |-> rt]

\* with_timeout_and_excluded_host_ids discovers once and connects; the
\* application knows those runtimes from runtimes().
Init ==
  \E ex \in SUBSET Hosts : \E found \in SUBSET (Tokens \ ex) :
    LET rts == {[host |-> h, nth |-> 1] : h \in found} IN
      /\ excluded = ex
      /\ connected = {[rt |-> r, missed |-> 0] : r \in rts}
      /\ opened = [h \in Hosts |-> IF h \in found THEN 1 ELSE 0]
      /\ up = rts
      /\ told = {Arrived(r) : r \in rts}
      /\ events = <<>> /\ out = <<>>
      /\ task = "off" /\ snapshot = {} /\ todo = {} /\ joining = {} /\ seen = {} /\ leaving = {}
      /\ caller = [c \in Callers |-> Idle]
      /\ unsent = {} /\ abandoned = {}

(***************************************************************************)
(* start_discovery, stop_discovery, drop and next_runtime_event.  The      *)
(* first three have the environment to themselves: nobody is inside        *)
(* exclude_host_id.                                                        *)
(***************************************************************************)

NobodyInside == \A c \in Callers : caller[c] = Idle

StartDiscovery ==
  /\ task = "off" /\ NobodyInside
  /\ task' = "idle"
  /\ UNCHANGED <<excluded, connected, events, opened, up,
                 snapshot, todo, joining, seen, leaving, out, caller, history>>

\* The task is aborted at an await; what it was about to do is not done.
StopDiscovery ==
  /\ task \in {"idle", "connect", "close", "send"} /\ NobodyInside
  /\ task' = "off"
  /\ snapshot' = {} /\ todo' = {} /\ joining' = {} /\ seen' = {} /\ leaving' = {} /\ out' = <<>>
  /\ unsent' = unsent \cup ToSet(out)
  /\ abandoned' = abandoned \cup leaving
  /\ UNCHANGED <<excluded, connected, events, opened, up, caller, told>>

\* Drop asks for the abort and does not wait for it: a connect that succeeds
\* on another thread meanwhile makes a runtime that nobody closes.  What was
\* listed is disconnected: tokens were needed to list anything, so it was made
\* by awaits of tokio's sockets and timers and has kept the handle of a runtime.
DropEnvironment ==
  /\ task \in {"off", "idle", "connect", "close", "send"} /\ NobodyInside
  /\ task' = "dropped"
  /\ snapshot' = {} /\ todo' = {} /\ joining' = {} /\ seen' = {} /\ leaving' = {} /\ out' = <<>>
  /\ \E late \in SUBSET joining :
       LET rts == {[host |-> h, nth |-> opened[h] + 1] : h \in late} IN
         /\ \A h \in late : opened[h] < MaxRuntimes
         /\ opened' = [h \in Hosts |-> IF h \in late THEN opened[h] + 1 ELSE opened[h]]
         /\ up' = (up \ Runtimes) \cup rts
         /\ unsent' = unsent \cup ToSet(out) \cup {Arrived(rt) : rt \in rts}
         /\ abandoned' = abandoned \cup leaving \cup rts
  /\ UNCHANGED <<excluded, connected, events, caller, told>>

\* Nobody has the environment any more.
Gone == task = "dropped" /\ UNCHANGED vars

NextEvent ==
  /\ task \notin {"off", "dropped"} /\ events # <<>>
  /\ events' = Tail(events)
  /\ told' = told \cup {Head(events)}
  /\ UNCHANGED <<excluded, connected, opened, up, taskVars, caller, unsent, abandoned>>

(***************************************************************************)
(* The discovery task                                                      *)
(***************************************************************************)

\* discover returns some devices; the exclusions are copied.  (A discovery
\* that fails changes nothing.)
Discover ==
  /\ task = "idle"
  /\ \E devices \in SUBSET Hosts : todo' = devices
  /\ snapshot' = excluded
  /\ task' = "check"
  /\ UNCHANGED <<excluded, connected, events, opened, up, joining, seen, leaving, out, caller, history>>

\* Mutant: only exclude_host_id itself minds the exclusions.
SkippedWithoutToken(h) == h \notin Tokens

Skipped(h) == h \in snapshot \/ h \notin Tokens

\* The next device: skipped, already connected, or to be connected to.
CheckDevice(h) ==
  /\ task = "check" /\ h \in todo
  /\ todo' = todo \ {h}
  /\ IF Skipped(h)
       THEN UNCHANGED <<seen, connected, joining, task>>
       ELSE /\ seen' = seen \cup {h}
            /\ connected' = {IF e.rt.host = h THEN [e EXCEPT !.missed = 0] ELSE e : e \in connected}
            /\ joining' = IF HasEntry(h) THEN {} ELSE {h}
            /\ task' = IF HasEntry(h) THEN "check" ELSE "connect"
  /\ UNCHANGED <<excluded, events, opened, up, snapshot, leaving, out, caller, history>>

\* runtime.connect() succeeds.
ConnectDevice(h) ==
  /\ task = "connect" /\ h \in joining /\ opened[h] < MaxRuntimes
  /\ opened' = [opened EXCEPT ![h] = @ + 1]
  /\ LET rt == [host |-> h, nth |-> opened'[h]] IN
       /\ up' = up \cup {rt}
       /\ IF HasEntry(h)
            THEN UNCHANGED <<connected, out>>
            ELSE /\ connected' = connected \cup {[rt |-> rt, missed |-> 0]}
                 /\ out' = Append(out, Arrived(rt))
  /\ task' = "check" /\ joining' = {}
  /\ UNCHANGED <<excluded, events, snapshot, todo, seen, leaving, caller, history>>

\* It fails.
ConnectDeviceFails ==
  /\ task = "connect"
  /\ task' = "check" /\ joining' = {}
  /\ UNCHANGED <<excluded, connected, events, opened, up, snapshot, todo, seen, leaving, out,
                 caller, history>>

\* Mutant: a runtime leaves with the miss after the limit.
TooManyLate(missed) == missed > MissLimit

TooMany(missed) == missed >= MissLimit

\* After the last device the runtimes not seen in this round are counted.
CountMisses ==
  /\ task = "check" /\ todo = {}
  /\ LET missed(e) == IF e.rt.host \in seen THEN 0 ELSE e.missed + 1
         gone == {e \in connected : TooMany(missed(e))}
     IN /\ leaving' = {e.rt : e \in gone}
        /\ connected' = {[e EXCEPT !.missed = missed(e)] : e \in connected \ gone}
  /\ task' = "close" /\ snapshot' = {} /\ seen' = {}
  /\ UNCHANGED <<excluded, events, opened, up, todo, joining, out, caller, history>>

\* Mutant: a missing runtime is reported and dropped without disconnect.
CloseMissingWithoutDisconnect(rt) ==
  /\ task = "close" /\ rt \in leaving
  /\ leaving' = leaving \ {rt}
  /\ out' = Append(out, Left(rt))
  /\ UNCHANGED <<excluded, connected, events, opened, up, task, snapshot, todo, joining, seen,
                 caller, history>>

\* runtime.disconnect() of a missing runtime; over WiFi it does not fail.
CloseMissing(rt) ==
  /\ task = "close" /\ rt \in leaving
  /\ leaving' = leaving \ {rt}
  /\ up' = up \ {rt}
  /\ out' = Append(out, Left(rt))
  /\ UNCHANGED <<excluded, connected, events, opened, task, snapshot, todo, joining, seen,
                 caller, history>>

AllClosed ==
  /\ task = "close" /\ leaving = {}
  /\ task' = "send"
  /\ UNCHANGED <<excluded, connected, events, opened, up, snapshot, todo, joining, seen,
                 leaving, out, caller, history>>

\* Mutant: an event that does not fit into the channel is dropped silently.
SendOrDrop ==
  /\ task = "send" /\ out # <<>>
  /\ events' = IF Len(events) < EventCap THEN Append(events, Head(out)) ELSE events
  /\ out' = Tail(out)
  /\ UNCHANGED <<excluded, connected, opened, up, task, snapshot, todo, joining, seen,
                 leaving, caller, history>>

\* send(event).await waits for room in the channel.
SendEvent ==
  /\ task = "send" /\ out # <<>> /\ Len(events) < EventCap
  /\ events' = Append(events, Head(out))
  /\ out' = Tail(out)
  /\ UNCHANGED <<excluded, connected, opened, up, task, snapshot, todo, joining, seen,
                 leaving, caller, history>>

EndRound ==
  /\ task = "send" /\ out = <<>>
  /\ task' = "idle"
  /\ UNCHANGED <<excluded, connected, events, opened, up, snapshot, todo, joining, seen,
                 leaving, out, caller, history>>

(***************************************************************************)
(* exclude_host_id, remove_excluded_host_id                                *)
(***************************************************************************)

Goto(c, where, rt) == caller' = [caller EXCEPT ![c] = [at |-> where, rt |-> rt]]

\* The host is excluded, unless it already was.
Exclude(c, h) ==
  /\ task # "dropped" /\ caller[c] = Idle /\ h \notin excluded
  /\ excluded' = excluded \cup {h}
  /\ Goto(c, "remove", [host |-> h, nth |-> 0])
  /\ UNCHANGED <<connected, events, opened, up, taskVars, history>>

\* Its runtime is taken out of the connected runtimes, if it has one.
ExcludeRemoves(c) ==
  /\ caller[c].at = "remove"
  /\ LET gone == {e \in connected : e.rt.host = caller[c].rt.host} IN
       /\ connected' = connected \ gone
       /\ \/ gone = {} /\ caller' = [caller EXCEPT ![c] = Idle]
          \/ \E e \in gone : Goto(c, "disconnect", e.rt)
  /\ UNCHANGED <<excluded, events, opened, up, taskVars, history>>

\* Mutant: the runtime is reported, not disconnected.
ExcludeDisconnectsNothing(c) ==
  /\ caller[c].at = "disconnect"
  /\ Goto(c, "report", caller[c].rt)
  /\ UNCHANGED <<excluded, connected, events, opened, up, taskVars, history>>

ExcludeDisconnects(c) ==
  /\ caller[c].at = "disconnect"
  /\ up' = up \ {caller[c].rt}
  /\ Goto(c, "report", caller[c].rt)
  /\ UNCHANGED <<excluded, connected, events, opened, taskVars, history>>

\* exclude_host_id is dropped in the disconnect; nothing is reported.
DropExclude(c) ==
  LET rt == caller[c].rt IN
    /\ caller[c].at = "disconnect"
    /\ caller' = [caller EXCEPT ![c] = Idle]
    /\ unsent' = unsent \cup {Left(rt)}
    /\ \/ up' = up \ {rt} /\ UNCHANGED abandoned
       \/ abandoned' = abandoned \cup {rt} /\ UNCHANGED up
    /\ UNCHANGED <<excluded, connected, events, opened, taskVars, told>>

\* try_send: the event is dropped when the channel is full.
ExcludeReports(c) ==
  /\ caller[c].at = "report"
  /\ LET event == Left(caller[c].rt) IN
       \/ /\ Len(events) < EventCap
          /\ events' = Append(events, event)
          /\ UNCHANGED unsent
       \/ /\ Len(events) >= EventCap
          /\ unsent' = unsent \cup {event}
          /\ UNCHANGED events
  /\ caller' = [caller EXCEPT ![c] = Idle]
  /\ UNCHANGED <<excluded, connected, opened, up, taskVars, told, abandoned>>

RemoveExclusion(h) ==
  /\ task # "dropped" /\ h \in excluded
  /\ excluded' = excluded \ {h}
  /\ UNCHANGED <<connected, events, opened, up, taskVars, caller, history>>

-----------------------------------------------------------------------------

TaskStep ==
  \/ Discover
  \/ \E h \in Hosts : CheckDevice(h) \/ ConnectDevice(h)
  \/ ConnectDeviceFails \/ CountMisses
  \/ \E rt \in Runtime : CloseMissing(rt)
  \/ AllClosed \/ SendEvent \/ EndRound

ExcludeStep(c) ==
  \/ \E h \in Hosts : Exclude(c, h)
  \/ ExcludeRemoves(c) \/ ExcludeDisconnects(c) \/ DropExclude(c) \/ ExcludeReports(c)

AppStep ==
  \/ StartDiscovery \/ StopDiscovery \/ DropEnvironment \/ Gone \/ NextEvent
  \/ \E h \in Hosts : RemoveExclusion(h)

Next == TaskStep \/ AppStep \/ \E c \in Callers : ExcludeStep(c)

Spec == Init /\ [][Next]_vars

\* The discovery task and the callers of exclude_host_id are scheduled,
\* discover succeeds now and then, and the application reads its events.  A
\* connect need not end: nothing bounds the handshake (wifi.rs, 771 and 807 to
\* 813), and a device that accepts and then says nothing holds the task up.
FairSpec ==
  /\ Spec
  /\ WF_vars(task # "connect" /\ TaskStep) /\ WF_vars(NextEvent)
  /\ \A c \in Callers : WF_vars(ExcludeRemoves(c) \/ ExcludeDisconnects(c) \/ ExcludeReports(c))

(***************************************************************************)
(* Properties                                                              *)
(***************************************************************************)

\* A host has at most one runtime in the connected list, whatever the order
\* of discoveries, misses and exclusions.
OneRuntimePerHost ==
  \A d, e \in connected : d.rt.host = e.rt.host => d = e

\* Every open connection is in somebody's care: in the connected list, or
\* about to be closed.  The only ones nobody will close are those an abort of
\* the task or of an exclusion left half-way; no others survive the drop.
NoConnectionLeaks ==
  \A rt \in up :
    \/ rt \in abandoned
    \/ task # "dropped" /\ rt \in Runtimes \cup leaving
    \/ \E c \in Callers : caller[c].at = "disconnect" /\ caller[c].rt = rt

\* A runtime reported as gone is disconnected, and is not in the list.
LeftIsGone ==
  \A event \in told \cup ToSet(events) :
    event.kind = "left" => event.rt \notin up \cup Runtimes

\* Every arrival is reported, pending, or one of those known to be lost; the
\* same for every departure: no change of the connected list goes unreported.
EveryChangeReported ==
  LET reports == told \cup ToSet(events) \cup ToSet(out) \cup unsent
      handled == {caller[c].rt : c \in {d \in Callers : caller[d].at \in {"disconnect", "report"}}}
  IN \A h \in Hosts : \A n \in 1 .. opened[h] :
       LET rt == [host |-> h, nth |-> n] IN
         /\ Arrived(rt) \in reports
         /\ \/ rt \in Runtimes \cup leaving \cup abandoned \cup handled
            \/ Left(rt) \in reports

\* An excluded host is never kept: what a discovery round adds on a stale
\* copy of the exclusions goes away again while discovery runs, unless the
\* task hangs for ever in the connect to some device.
ExcludedLeaves ==
  \/ \A h \in Hosts :
       h \in excluded /\ HasEntry(h) ~>
         ~HasEntry(h) \/ h \notin excluded \/ task \in {"off", "dropped"}
  \/ <>[](task = "connect")

\* The application is told of an arrival before the departure: an Arrived
\* event is about a runtime that has not left yet.
ArrivedThenLeft ==
  [][\A rt \in Runtime : Arrived(rt) \in told' \ told => Left(rt) \notin told]_vars
=============================================================================
