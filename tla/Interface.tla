------------------------------ MODULE Interface ------------------------------
(***************************************************************************)
(* Control and enumeration of CAN interfaces: mcanbus/src/iface.rs, and    *)
(* the two tools of socketcan-mcp that show interfaces.                    *)
(*                                                                         *)
(* A call names an interface by a string.  Each of its steps is a system   *)
(* call of its own, and between them other calls, and the kernel's devices *)
(* coming, going, changing name and state, take their turns.  A netlink    *)
(* request is carried out when it is sent; only its answer can still get   *)
(* lost.  Interface indices are never used again.                          *)
(*                                                                         *)
(* Any of these system calls may fail, up to MaxFaults times in a          *)
(* behaviour; /sys itself is there.  The bitrate, which a child process    *)
(* reports, is left out.                                                   *)
(***************************************************************************)
EXTENDS Integers, Sequences, SequencesExt, FiniteSets

CONSTANTS
    Threads,    \* threads that make calls
    Indices,    \* interface indices, each borne by one device at most
    Names,      \* interface names
    Ops,        \* the calls that are made
    Initial,    \* the devices there are at first: index -> device
    Nothing,    \* no device, no answer, Rust's None
    MaxCalls,   \* bound on the calls of a behaviour
    MaxEvents,  \* bound on the changes of the devices that no call makes
    MaxFaults   \* bound on the system calls that fail or are interrupted

Kinds == {"can", "vcan", "bond"}

\* What there is to know of a device; starts counts how often it was set up.
Devices == [name: Names, kind: Kinds, up: BOOLEAN, raw: 0..5, starts: Nat]

ASSUME OpsAssumption ==
    Ops \subseteq {"set_up", "set_down", "cycle", "state", "is_up", "list",
                   "summary"}
ASSUME BoundsAssumption == {MaxCalls, MaxEvents, MaxFaults} \subseteq Nat
ASSUME InitialAssumption ==
    /\ DOMAIN Initial \subseteq Indices
    /\ \A i \in DOMAIN Initial :
         /\ Initial[i] \in Devices
         /\ \A j \in DOMAIN Initial \ {i} : Initial[j].name # Initial[i].name

VARIABLES
    dev,      \* index -> device, or Nothing
    born,     \* the indices that have been given out
    events,   \* changes of devices so far
    calls,    \* calls so far
    faults,   \* faults so far
    pc,       \* what each thread does next
    call,     \* its call: the operation, the name given and its local state
    reply,    \* the answer waiting in its netlink socket
    fds,      \* its open netlink sockets
    result,   \* what its last call returned
    \* history, read by no action
    during,   \* the states of the devices during its last call
    unread,   \* the names its last list was told nothing about by the system
    marred    \* some call set a device down or did not succeed

kernelVars == <<dev, born, events>>
callVars == <<pc, call, result, marred>>
vars == <<kernelVars, calls, faults, callVars, reply, fds, during, unread>>

-----------------------------------------------------------------------------
(* The kernel's devices.                                                   *)

Present == {i \in Indices : dev[i] # Nothing}
Bearers(n) == {i \in Present : dev[i].name = n}

\* enum can_state of linux/can/netlink.h.
ERROR_ACTIVE == 0
BUS_OFF == 3
STOPPED == 4

States == <<"ErrorActive", "ErrorWarning", "ErrorPassive", "BusOff",
            "Stopped", "Sleeping">>

\* CanState::from_raw.
FromRaw(v) == IF v \in 0..5 THEN States[v + 1] ELSE Nothing

\* A netlink socket in which no answer waits.
NoAnswer == [err |-> "EAGAIN"]

\* A device set up starts its controller; one that is up stays as it is.
SetUp(d) ==
    IF d.up THEN d
    ELSE [d EXCEPT !.up = TRUE, !.raw = ERROR_ACTIVE, !.starts = @ + 1]

SetDown(d) == [d EXCEPT !.up = FALSE, !.raw = STOPPED]

\* A netlink attribute: its type and its value, which may be nested ones.
Attr(type, value) == [type |-> type, value |-> value]

IFLA_IFNAME == 3
IFLA_LINKINFO == 18
IFLA_INFO_KIND == 1
IFLA_INFO_DATA == 2
IFLA_CAN_STATE == 4

\* The answer to RTM_GETLINK.  Other kinds have attributes of the same numbers
\* in their data: a bonding device's number 4 is a delay.
InfoData(kind, raw) ==
    <<Attr(1, 0), Attr(IFLA_CAN_STATE, IF kind = "can" THEN raw ELSE 0)>>

LinkInfo(kind, raw) ==
    IF kind = "vcan"
    THEN <<Attr(IFLA_INFO_KIND, kind)>>
    ELSE <<Attr(IFLA_INFO_KIND, kind),
           Attr(IFLA_INFO_DATA, InfoData(kind, raw))>>

Link(d) ==
    <<Attr(IFLA_IFNAME, d.name),
      Attr(IFLA_LINKINFO, LinkInfo(d.kind, d.raw))>>

\* Rust's None is told from every value that may be there instead.
ASSUME NothingAssumption ==
    /\ Nothing \notin Indices /\ Nothing \notin Devices
    /\ Nothing \notin 0..5 /\ Nothing \notin {"up", "down"}
    /\ \A kind \in Kinds, raw \in 0..5 :
         Nothing \notin {InfoData(kind, raw), LinkInfo(kind, raw)}

-----------------------------------------------------------------------------
(* Reading a netlink answer.                                               *)

\* nl_find_attr: the value of the first attribute of the type.
FindAttr(attrs, type) ==
    LET match == {i \in DOMAIN attrs : attrs[i].type = type}
    IN  IF match = {} THEN Nothing
        ELSE attrs[CHOOSE i \in match : \A j \in match : i <= j].value

\* MUTANT: the kind of the device is not looked at.
CanStateRawOfAnyKind(attrs) ==
    LET info == FindAttr(attrs, IFLA_LINKINFO)
        data == IF info = Nothing THEN Nothing
                ELSE FindAttr(info, IFLA_INFO_DATA)
    IN  IF data = Nothing THEN Nothing ELSE FindAttr(data, IFLA_CAN_STATE)

\* get_can_state_raw, from the attributes on.
CanStateRaw(attrs) ==
    LET info == FindAttr(attrs, IFLA_LINKINFO)
        data == IF info = Nothing THEN Nothing
                ELSE IF FindAttr(info, IFLA_INFO_KIND) # "can" THEN Nothing
                ELSE FindAttr(info, IFLA_INFO_DATA)
    IN  IF data = Nothing THEN Nothing ELSE FindAttr(data, IFLA_CAN_STATE)

-----------------------------------------------------------------------------
\* What is_up, state and list tell; a summary tells the first two.
NoValue == [up |-> Nothing, state |-> Nothing, list |-> {}]

NoResult == [op |-> "none", name |-> Nothing, ok |-> TRUE, value |-> NoValue]

\* A call: what it is, the interface it names, the index it works on, the
\* netlink request it makes, the directory entries a list has still to look at,
\* and what it has found out.
Calling(o, n, w) ==
    [op |-> o, name |-> n, idx |-> Nothing, want |-> w, todo |-> {},
     value |-> NoValue]

NoCall == Calling("none", Nothing, "get")

Init ==
    /\ dev = [i \in Indices |-> IF i \in DOMAIN Initial THEN Initial[i]
                                ELSE Nothing]
    /\ born = DOMAIN Initial
    /\ events = 0 /\ calls = 0 /\ faults = 0
    /\ pc = [t \in Threads |-> "idle"]
    /\ call = [t \in Threads |-> NoCall]
    /\ reply = [t \in Threads |-> NoAnswer]
    /\ fds = [t \in Threads |-> 0]
    /\ result = [t \in Threads |-> NoResult]
    /\ during = [t \in Threads |-> {}]
    /\ unread = [t \in Threads |-> {}]
    /\ marred = FALSE

-----------------------------------------------------------------------------
(* The environment: what happens to devices without a call.                *)

Event ==
    /\ events < MaxEvents
    /\ events' = events + 1
    /\ UNCHANGED <<calls, faults, callVars, reply, fds>>

\* A device is plugged in: it takes a new index and is down.
Plug ==
    /\ Event
    /\ \E i \in Indices \ born, n \in Names, k \in Kinds :
         /\ Bearers(n) = {}
         /\ born' = born \cup {i}
         /\ dev' = [dev EXCEPT ![i] =
                      [name |-> n, kind |-> k, up |-> FALSE, raw |-> STOPPED,
                       starts |-> 0]]

Unplug ==
    /\ Event
    /\ \E i \in Present : dev' = [dev EXCEPT ![i] = Nothing]
    /\ UNCHANGED born

Rename ==
    /\ Event
    /\ \E i \in Present, n \in Names :
         Bearers(n) = {} /\ dev' = [dev EXCEPT ![i].name = n]
    /\ UNCHANGED born

\* The controller leaves the bus after too many errors.
BusOff ==
    /\ Event
    /\ \E i \in Present :
         /\ dev[i].kind = "can" /\ dev[i].up
         /\ dev' = [dev EXCEPT ![i].raw = BUS_OFF]
    /\ UNCHANGED born

-----------------------------------------------------------------------------
(* Calls.                                                                  *)

Return(t, ok, value) ==
    /\ pc' = [pc EXCEPT ![t] = "idle"]
    /\ call' = [call EXCEPT ![t] = NoCall]
    /\ result' = [result EXCEPT ![t] =
                    [op |-> call[t].op, name |-> call[t].name, ok |-> ok,
                     value |-> value]]
    /\ marred' = (marred \/ ~ok \/ call[t].op = "set_down")

\* A step that does not end the call, and its locals afterwards.
GoOn(t, step, locals) ==
    /\ pc' = [pc EXCEPT ![t] = step]
    /\ call' = [call EXCEPT ![t] = locals]
    /\ UNCHANGED <<result, marred>>

\* An error ends the call; iface_summary shows it as null and goes on.
Fail(t) ==
    IF call[t].op # "summary" THEN Return(t, FALSE, NoValue)
    ELSE IF pc[t] \in {"open_flags", "read_flags"} THEN GoOn(t, "index", call[t])
    ELSE Return(t, TRUE, call[t].value)

\* What is_up has found out; iface_summary goes on to the state.
TellUp(t, up) ==
    LET value == [call[t].value EXCEPT !.up = up]
    IN  IF call[t].op = "summary"
        THEN GoOn(t, "index", [call[t] EXCEPT !.value = value])
        ELSE Return(t, TRUE, value)

Fault == faults < MaxFaults /\ faults' = faults + 1
NoFault == UNCHANGED faults

FirstStep(o) ==
    IF o \in {"is_up", "summary"} THEN "open_flags"
    ELSE IF o = "list" THEN "read_dir" ELSE "index"

\* A cycle begins with the request to set the device down.
FirstWant(o) ==
    IF o = "set_up" THEN "up"
    ELSE IF o \in {"set_down", "cycle"} THEN "down" ELSE "get"

Begin(t) ==
    /\ pc[t] = "idle" /\ calls < MaxCalls
    /\ calls' = calls + 1
    /\ \E o \in Ops, n \in Names :
         GoOn(t, FirstStep(o), Calling(o, n, FirstWant(o)))
    /\ UNCHANGED <<kernelVars, faults, reply, fds>>

\* MUTANT: the index 0 of a name that no device bears is taken for an index.
IndexUnchecked(t) ==
    /\ pc[t] = "index"
    /\ \/ /\ NoFault /\ Bearers(call[t].name) = {}
          /\ GoOn(t, "socket", [call[t] EXCEPT !.idx = Nothing])
       \/ /\ NoFault
          /\ \E i \in Bearers(call[t].name) :
               GoOn(t, "socket", [call[t] EXCEPT !.idx = i])
       \/ Fault /\ Fail(t)
    /\ UNCHANGED <<kernelVars, calls, reply, fds>>

\* index(): if_nametoindex.
Index(t) ==
    /\ pc[t] = "index"
    /\ \/ NoFault /\ Bearers(call[t].name) = {} /\ Fail(t)
       \/ /\ NoFault
          /\ \E i \in Bearers(call[t].name) :
               GoOn(t, "socket", [call[t] EXCEPT !.idx = i])
       \/ Fault /\ Fail(t)
    /\ UNCHANGED <<kernelVars, calls, reply, fds>>

\* socket() of the netlink request.
NlSocket(t) ==
    /\ pc[t] = "socket"
    /\ \/ /\ NoFault
          /\ fds' = [fds EXCEPT ![t] = @ + 1]
          /\ GoOn(t, "bind", call[t])
       \/ Fault /\ Fail(t) /\ UNCHANGED fds
    /\ UNCHANGED <<kernelVars, calls, reply>>

CloseFd(t) == fds' = [fds EXCEPT ![t] = @ - 1]

\* MUTANT: a netlink socket that cannot be bound is not closed.
NlBindLeaves(t) ==
    /\ pc[t] = "bind"
    /\ \/ NoFault /\ GoOn(t, "sendto", call[t])
       \/ Fault /\ Fail(t)
    /\ UNCHANGED <<kernelVars, calls, reply, fds>>

NlBind(t) ==
    /\ pc[t] = "bind"
    /\ \/ NoFault /\ GoOn(t, "sendto", call[t]) /\ UNCHANGED fds
       \/ Fault /\ CloseFd(t) /\ Fail(t)
    /\ UNCHANGED <<kernelVars, calls, reply>>

\* What the kernel answers, and what it does to the device first.
KernelAnswer(i, want) ==
    IF dev[i] = Nothing THEN [err |-> "ENODEV"]
    ELSE IF want = "get" THEN [err |-> "none", attrs |-> Link(dev[i])]
    ELSE [err |-> "none"]

KernelActs(i, want) ==
    IF dev[i] = Nothing \/ want = "get" THEN UNCHANGED dev
    ELSE dev' = [dev EXCEPT ![i] = IF want = "up" THEN SetUp(@) ELSE SetDown(@)]

\* sendto(): the kernel carries the request out, or refuses it, and queues its
\* answer; or nothing is sent.
NlSend(t) ==
    LET i == call[t].idx
        want == call[t].want
    IN  /\ pc[t] = "sendto"
        /\ \/ /\ NoFault
              /\ KernelActs(i, want)
              /\ reply' = [reply EXCEPT ![t] = KernelAnswer(i, want)]
              /\ GoOn(t, "recv", call[t]) /\ UNCHANGED fds
           \/ /\ Fault /\ want # "get"
              /\ reply' = [reply EXCEPT ![t] = [err |-> "EPERM"]]
              /\ GoOn(t, "recv", call[t]) /\ UNCHANGED <<dev, fds>>
           \/ /\ Fault /\ CloseFd(t)
              /\ Fail(t) /\ UNCHANGED <<dev, reply>>
        /\ UNCHANGED <<born, events, calls>>

\* What follows an answer without an error.
Acknowledged(t) ==
    IF call[t].want = "get"
    THEN LET raw == CanStateRaw(reply[t].attrs)
             state == IF raw = Nothing THEN Nothing ELSE FromRaw(raw)
         IN  Return(t, TRUE, [call[t].value EXCEPT !.state = state])
    ELSE IF call[t].op = "cycle" /\ call[t].want = "down"
    THEN GoOn(t, "sleep", call[t])
    ELSE Return(t, TRUE, NoValue)

\* MUTANT: the error code of the answer to a change is not looked at.
NlRecvIgnoresError(t) ==
    /\ pc[t] = "recv"
    /\ CloseFd(t)
    /\ reply' = [reply EXCEPT ![t] = NoAnswer]
    /\ LET fine == reply[t].err = "none" \/ call[t].want # "get"
       IN  \/ NoFault /\ fine /\ Acknowledged(t)
           \/ NoFault /\ ~fine /\ Fail(t)
           \/ Fault /\ Fail(t)
    /\ UNCHANGED <<kernelVars, calls>>

\* recv() and close(): an interrupted recv hides what the kernel has done.
NlRecv(t) ==
    /\ pc[t] = "recv"
    /\ CloseFd(t)
    /\ reply' = [reply EXCEPT ![t] = NoAnswer]
    /\ \/ NoFault /\ reply[t].err = "none" /\ Acknowledged(t)
       \/ NoFault /\ reply[t].err # "none" /\ Fail(t)
       \/ Fault /\ Fail(t)
    /\ UNCHANGED <<kernelVars, calls>>

\* MUTANT: the second half of cycle looks the name up again.
SleepThenResolve(t) ==
    /\ pc[t] = "sleep"
    /\ GoOn(t, "index", [call[t] EXCEPT !.want = "up"])
    /\ UNCHANGED <<kernelVars, calls, faults, reply, fds>>

\* The settling time of cycle is over: the index found at first is used again.
Sleep(t) ==
    /\ pc[t] = "sleep"
    /\ GoOn(t, "socket", [call[t] EXCEPT !.want = "up"])
    /\ UNCHANGED <<kernelVars, calls, faults, reply, fds>>

-----------------------------------------------------------------------------
(* is_up: /sys/class/net/<name>/flags.                                     *)

OpenFlags(t) ==
    /\ pc[t] = "open_flags"
    /\ \/ NoFault /\ Bearers(call[t].name) = {} /\ TellUp(t, Nothing)
       \/ /\ NoFault
          /\ \E i \in Bearers(call[t].name) :
               GoOn(t, "read_flags", [call[t] EXCEPT !.idx = i])
       \/ Fault /\ Fail(t)
    /\ UNCHANGED <<kernelVars, calls, reply, fds>>

\* The open file of a device that is gone cannot be read.
ReadFlags(t) ==
    LET d == dev[call[t].idx]
    IN  /\ pc[t] = "read_flags"
        /\ \/ NoFault /\ d = Nothing /\ Fail(t)
           \/ /\ NoFault /\ d # Nothing
              /\ TellUp(t, IF d.up THEN "up" ELSE "down")
           \/ Fault /\ Fail(t)
        /\ UNCHANGED <<kernelVars, calls, reply, fds>>

-----------------------------------------------------------------------------
(* list_can_interfaces: the directory is read at once, then one file of    *)
(* each entry.                                                             *)

ReadDir(t) ==
    /\ pc[t] = "read_dir"
    /\ \/ /\ NoFault
          /\ GoOn(t, "exists",
                  [call[t] EXCEPT !.todo = {dev[i].name : i \in Present}])
       \/ Fault /\ Fail(t)
    /\ UNCHANGED <<kernelVars, calls, reply, fds>>

\* The next entry, unless its device is gone: exists() says the same of a file
\* that it cannot look at.  The directory may fail between two entries.
Exists(t) ==
    /\ pc[t] = "exists"
    /\ \/ NoFault /\ call[t].todo = {} /\ Return(t, TRUE, call[t].value)
       \/ \E n \in call[t].todo :
            LET next == [call[t] EXCEPT !.todo = @ \ {n}, !.name = n]
            IN  \/ /\ NoFault
                   /\ GoOn(t, IF Bearers(n) = {} THEN "exists" ELSE "read_type",
                           next)
                \/ Fault /\ GoOn(t, "exists", next)
       \/ Fault /\ Fail(t)
    /\ UNCHANGED <<kernelVars, calls, reply, fds>>

\* An interface of type ARPHRD_CAN bears the name.
IsCan(n) == \E i \in Bearers(n) : dev[i].kind \in {"can", "vcan"}

\* What is read of the type file settles whether the name is listed.
Listed(t) ==
    [call[t] EXCEPT
       !.value.list = IF IsCan(call[t].name) THEN @ \cup {call[t].name} ELSE @]

\* MUTANT: a file that is gone when it is read ends the enumeration.
ReadTypeStrict(t) ==
    /\ pc[t] = "read_type"
    /\ \/ NoFault /\ Bearers(call[t].name) = {} /\ Fail(t)
       \/ NoFault /\ Bearers(call[t].name) # {} /\ GoOn(t, "exists", Listed(t))
       \/ Fault /\ GoOn(t, "exists", call[t])
    /\ UNCHANGED <<kernelVars, calls, reply, fds>>

\* The type file: one that is gone by now, or cannot be read, counts as empty.
ReadType(t) ==
    /\ pc[t] = "read_type"
    /\ \/ NoFault /\ GoOn(t, "exists", Listed(t))
       \/ Fault /\ GoOn(t, "exists", call[t])
    /\ UNCHANGED <<kernelVars, calls, reply, fds>>

-----------------------------------------------------------------------------
Step(t) ==
    \/ Begin(t) \/ Index(t) \/ NlSocket(t) \/ NlBind(t) \/ NlSend(t)
    \/ NlRecv(t) \/ Sleep(t) \/ OpenFlags(t) \/ ReadFlags(t)
    \/ ReadDir(t) \/ Exists(t) \/ ReadType(t)

\* The names that a step of thread t was told nothing about, because a system
\* call of its list failed: that of the file, or all when the list ends with it.
Missed(t) ==
    IF \/ call[t].op # "list" \/ faults' = faults
       \/ (pc'[t] = pc[t] /\ call'[t] = call[t])
    THEN {}
    ELSE IF pc'[t] = "idle" THEN Names ELSE {call'[t].name}

\* The history: what the devices were like while a call was under way, and
\* what the system did not tell it.
Watch ==
    /\ during' = [t \in Threads |->
         IF pc[t] # "idle" THEN during[t] \cup {dev'}
         ELSE IF pc'[t] # "idle" THEN {dev'} ELSE during[t]]
    /\ unread' = [t \in Threads |->
         IF pc[t] # "idle" THEN unread[t] \cup Missed(t)
         ELSE IF pc'[t] # "idle" THEN {} ELSE unread[t]]

Next ==
    /\ \/ Plug \/ Unplug \/ Rename \/ BusOff
       \/ \E t \in Threads : Step(t)
    /\ Watch

Spec == Init /\ [][Next]_vars

-----------------------------------------------------------------------------
(* Properties.                                                             *)

\* The type invariant: no two devices bear one name, a request is only made
\* with an index that was given out, an answer waits only for its recv, and
\* "the fd is closed on every exit path" (iface.rs:195), and once.
TypeOK ==
    /\ dev \in [Indices -> Devices \cup {Nothing}]
    /\ Present \subseteq born /\ born \subseteq Indices
    /\ \A n \in Names : Cardinality(Bearers(n)) <= 1
    /\ \A t \in Threads :
         /\ pc[t] \in {"socket", "bind", "sendto", "recv", "sleep",
                       "read_flags"} => call[t].idx \in born
         /\ pc[t] = "recv" <=> reply[t] # NoAnswer
         /\ fds[t] = IF pc[t] \in {"bind", "sendto", "recv"} THEN 1 ELSE 0
         /\ pc[t] \in {"exists", "read_type"} => call[t].op = "list"

Returned(t, o) == pc[t] = "idle" /\ result[t].op = o /\ result[t].ok

\* Device i bore the name of the call at some time while the call ran.
Bore(t, i) ==
    \E w \in during[t] : w[i] # Nothing /\ w[i].name = result[t].name

\* "Bring down, settle ~150 ms, bring back up" (iface.rs:114): a cycle that
\* succeeds has restarted a device that bore the name, whatever other calls,
\* renamings and replacements did in between.
CycleRestarts ==
    \A t \in Threads : Returned(t, "cycle") =>
        \E i \in Indices : Bore(t, i) /\
            \E before, after \in during[t] :
                /\ before[i] # Nothing /\ after[i] # Nothing
                /\ before[i].starts < after[i].starts

\* Cycles that overlap leave no device down: while every call succeeded and
\* none was a set_down, a device that was up at first is up when the calls are
\* over.
CyclesEndUp ==
    (~marred /\ \A t \in Threads : pc[t] = "idle") =>
        \A i \in Present \cap DOMAIN Initial : Initial[i].up => dev[i].up

StateOf(d) == IF d.kind = "can" THEN FromRaw(d.raw) ELSE Nothing

StateWasTrue(t, v) ==
    \E i \in Indices : Bore(t, i)
        /\ \E w \in during[t] : w[i] # Nothing /\ StateOf(w[i]) = v

UpWasTrue(t, v) ==
    IF v = Nothing
    THEN \E w \in during[t] : \A i \in Indices :
           w[i] # Nothing => w[i].name # result[t].name
    ELSE \E i \in Indices : Bore(t, i)
           /\ \E w \in during[t] : w[i] # Nothing /\ w[i].up = (v = "up")

\* What is reported was so at some time during the call, of a device that bore
\* the name, and a state is reported of CAN controllers only ("Ok(None) when
\* the interface exists but is not a CAN device", iface.rs:125).  The parts of
\* a summary may be true at different times, and null may also be an error.
AnswersWereTrue ==
    \A t \in Threads :
        /\ Returned(t, "state") => StateWasTrue(t, result[t].value.state)
        /\ Returned(t, "is_up") => UpWasTrue(t, result[t].value.up)
        /\ Returned(t, "summary") =>
             LET v == result[t].value
             IN  /\ v.up # Nothing => UpWasTrue(t, v.up)
                 /\ v.state # Nothing => StateWasTrue(t, v.state)

\* "Enumerate all CAN-class interfaces visible" (iface.rs:158).  A device that
\* goes away while interfaces are listed does not fail the list, which fails
\* only when the directory cannot be read; every name listed was a CAN interface
\* at some time of the call; and one that was all the time is missed only when
\* a system call about its own type file failed, which the list does not tell.
ListIsComplete ==
    \A t \in Threads :
        (pc[t] = "idle" /\ result[t].op = "list") =>
            LET Can(w, n) == \E i \in Indices :
                    w[i] # Nothing /\ w[i].name = n
                    /\ w[i].kind \in {"can", "vcan"}
            IN  /\ ~result[t].ok => Names \subseteq unread[t]
                /\ \A n \in Names :
                     /\ n \in result[t].value.list => \E w \in during[t] : Can(w, n)
                     /\ (\A w \in during[t] : Can(w, n)) =>
                          n \in result[t].value.list \cup unread[t]
=============================================================================
