--------------------------- MODULE InterfaceProofs ---------------------------
(***************************************************************************)
(* Proofs about Interface, for every set of threads, names, indices and    *)
(* calls, any devices there are at first, and every bound.                 *)
(***************************************************************************)
EXTENDS Interface, SequenceTheorems, FiniteSetTheorems, TLAPS

-----------------------------------------------------------------------------
(* What the devices were like over a while: D is a set of their states.    *)

Snapshots == [Indices -> Devices \cup {Nothing}]

BoreIn(D, i, n) == \E w \in D : w[i] # Nothing /\ w[i].name = n

DownIn(D, i) == \E w \in D : w[i] # Nothing /\ ~w[i].up

RestartedIn(D, i) ==
    \E before, after \in D :
        /\ before[i] # Nothing /\ after[i] # Nothing
        /\ before[i].starts < after[i].starts

StateIn(D, n, v) ==
    \E i \in Indices : BoreIn(D, i, n)
        /\ \E w \in D : w[i] # Nothing /\ StateOf(w[i]) = v

UpIn(D, n, v) ==
    IF v = Nothing
    THEN \E w \in D : \A i \in Indices : w[i] # Nothing => w[i].name # n
    ELSE \E i \in Indices : BoreIn(D, i, n)
           /\ \E w \in D : w[i] # Nothing /\ w[i].up = (v = "up")

CanBear(w, n) ==
    \E i \in Indices :
        w[i] # Nothing /\ w[i].name = n /\ w[i].kind \in {"can", "vcan"}

-----------------------------------------------------------------------------
(* The inductive invariant.                                                *)

\* No two devices bear one name, and an index that is borne was given out.
DeviceInv ==
    /\ dev \in Snapshots
    /\ born \subseteq Indices /\ Present \subseteq born
    /\ DOMAIN Initial \subseteq born
    /\ \A i, j \in Present : dev[i].name = dev[j].name => i = j

ListSteps == {"read_dir", "exists", "read_type"}
FlagSteps == {"open_flags", "read_flags"}
NlSteps == {"socket", "bind", "sendto", "recv"}
Steps == {"idle", "index", "sleep"} \cup ListSteps \cup FlagSteps \cup NlSteps

\* The steps at which a call works on an index it has found.
IndexSteps == NlSteps \cup {"sleep", "read_flags"}

Values == [up: {"up", "down", Nothing}, state: {States[i] : i \in 1..6} \cup {Nothing},
           list: SUBSET Names]

CallRecords ==
    [op: Ops \cup {"none"}, name: Names \cup {Nothing},
     idx: Indices \cup {Nothing}, want: {"get", "up", "down"},
     todo: SUBSET Names, value: Values]

ThreadTypes ==
    /\ pc \in [Threads -> Steps]
    /\ call \in [Threads -> CallRecords]
    /\ DOMAIN reply = Threads /\ DOMAIN result = Threads
    /\ fds \in [Threads -> Int]
    /\ during \in [Threads -> SUBSET Snapshots]
    /\ marred \in BOOLEAN

\* While a device keeps its index it only gets more starts, and one that was
\* down has been started again if it is up.  An index is not borne again.
Newer(d, e) == d.starts <= e.starts /\ (~d.up /\ e.up => d.starts < e.starts)

HistoryInv ==
    \A t \in Threads :
        /\ pc[t] # "idle" => dev \in during[t]
        /\ \A w \in during[t], i \in Indices : w[i] # Nothing =>
             i \in born /\ (dev[i] # Nothing => Newer(w[i], dev[i]))

\* A call takes the steps of its operation, and holds a netlink socket from
\* socket() to the end of the request, with an answer at recv() only.
Shape(t) ==
    /\ pc[t] # "idle" => call[t].op \in Ops /\ call[t].name \in Names
    /\ pc[t] \in ListSteps <=> pc[t] # "idle" /\ call[t].op = "list"
    /\ pc[t] \in FlagSteps => call[t].op \in {"is_up", "summary"}
    /\ call[t].op = "is_up" => pc[t] \in {"idle"} \cup FlagSteps
    /\ pc[t] # "idle" /\ call[t].want = "get" =>
         call[t].op \in {"state", "is_up", "list", "summary"}
    /\ pc[t] # "idle" /\ call[t].want = "up" => call[t].op \in {"set_up", "cycle"}
    /\ pc[t] # "idle" /\ call[t].want = "down" =>
         call[t].op \in {"set_down", "cycle"}
    /\ call[t].op = "cycle" /\ call[t].want = "up" => pc[t] \in NlSteps
    /\ pc[t] = "sleep" => call[t].op = "cycle"
    /\ pc[t] \in IndexSteps => call[t].idx \in born
    /\ pc[t] = "recv" <=> reply[t] # NoAnswer
    /\ fds[t] = IF pc[t] \in {"bind", "sendto", "recv"} THEN 1 ELSE 0
    /\ pc[t] # "idle" => call[t].value.state = Nothing
    /\ pc[t] \in ListSteps => call[t].value.up = Nothing

\* The index that a call works on was that of a device of the name.
Found(t) ==
    pc[t] \in IndexSteps => BoreIn(during[t], call[t].idx, call[t].name)

\* How far a cycle has come: its device has been down, then restarted.
CycleInv(t) ==
    call[t].op = "cycle" =>
        /\ (\/ pc[t] = "recv" /\ call[t].want = "down" /\ reply[t].err = "none"
            \/ pc[t] = "sleep"
            \/ pc[t] \in {"socket", "bind", "sendto"} /\ call[t].want = "up")
           => DownIn(during[t], call[t].idx)
        /\ pc[t] = "recv" /\ call[t].want = "up" /\ reply[t].err = "none" =>
             RestartedIn(during[t], call[t].idx)

\* The answer that waits shows a device as it was.
AnswerInv(t) ==
    pc[t] = "recv" /\ call[t].want = "get" /\ reply[t].err = "none" =>
        \E w \in during[t] :
            /\ w[call[t].idx] # Nothing
            /\ reply[t].attrs = Link(w[call[t].idx])

\* What a summary has found out before it asks for the state.
SummaryInv(t) ==
    pc[t] # "idle" /\ call[t].value.up # Nothing =>
        UpIn(during[t], call[t].name, call[t].value.up)

\* Every name listed was that of a CAN interface, and one that was all the
\* time is listed, unread or still to be looked at.
ListInv(t) ==
    pc[t] \in ListSteps =>
        /\ \A n \in call[t].value.list : \E w \in during[t] : CanBear(w, n)
        /\ \A n \in Names : (\A w \in during[t] : CanBear(w, n)) =>
             \/ pc[t] = "read_dir"
             \/ pc[t] = "read_type" /\ n = call[t].name
             \/ n \in call[t].todo \cup call[t].value.list \cup unread[t]

\* What the properties say of a call that has returned: its result, the states
\* of the devices during it, and the names it was told nothing about.
ResultOf(r, D, U) ==
    /\ r.op = "cycle" /\ r.ok =>
         \E i \in Indices : BoreIn(D, i, r.name) /\ RestartedIn(D, i)
    /\ r.op = "state" /\ r.ok => StateIn(D, r.name, r.value.state)
    /\ r.op = "is_up" /\ r.ok => UpIn(D, r.name, r.value.up)
    /\ r.op = "summary" /\ r.ok =>
         /\ r.value.up # Nothing => UpIn(D, r.name, r.value.up)
         /\ r.value.state # Nothing => StateIn(D, r.name, r.value.state)
    /\ r.op = "list" =>
         /\ ~r.ok => Names \subseteq U
         /\ \A n \in Names :
              /\ n \in r.value.list => \E w \in D : CanBear(w, n)
              /\ (\A w \in D : CanBear(w, n)) => n \in r.value.list \cup U

ResultInv(t) == pc[t] = "idle" => ResultOf(result[t], during[t], unread[t])

ThreadInv(t) ==
    /\ Shape(t) /\ Found(t) /\ CycleInv(t) /\ AnswerInv(t) /\ SummaryInv(t)
    /\ ListInv(t) /\ ResultInv(t)

\* A call that will set device i up again, or mar the record.
Obliged(t, i) ==
    /\ call[t].op \in {"cycle", "set_down"} /\ call[t].idx = i
    /\ \/ pc[t] = "recv" /\ (call[t].want = "down" \/ reply[t].err # "none")
       \/ pc[t] = "sleep"
       \/ pc[t] \in {"socket", "bind", "sendto"} /\ call[t].want = "up"

\* A device that was up at first and is down is some call's to set up.
EndUpInv ==
    ~marred => \A i \in Present \cap DOMAIN Initial :
        Initial[i].up => dev[i].up \/ \E t \in Threads : Obliged(t, i)

IInv == /\ DeviceInv /\ ThreadTypes /\ HistoryInv /\ faults \in Nat
        /\ \A t \in Threads : ThreadInv(t)
        /\ EndUpInv

-----------------------------------------------------------------------------
(* Reading a netlink answer.                                               *)

\* The first attribute of a type is the one found.
LEMMA FirstFound ==
    ASSUME NEW attrs, NEW i \in DOMAIN attrs, DOMAIN attrs \subseteq Int,
           \A j \in DOMAIN attrs : attrs[j].type = attrs[i].type => i <= j
    PROVE  FindAttr(attrs, attrs[i].type) = attrs[i].value
<1> DEFINE match == {j \in DOMAIN attrs : attrs[j].type = attrs[i].type}
           first == CHOOSE k \in match : \A j \in match : k <= j
<1>1. i \in match /\ \A j \in match : i <= j
  OBVIOUS
<1>2. first \in match /\ \A j \in match : first <= j
  BY <1>1
<1>3. first = i
  BY <1>1, <1>2
<1> QED
  BY <1>1, <1>3 DEF FindAttr

LEMMA NotFound ==
    ASSUME NEW attrs, NEW type, \A j \in DOMAIN attrs : attrs[j].type # type
    PROVE  FindAttr(attrs, type) = Nothing
BY DEF FindAttr

\* What get_can_state_raw finds in an answer is the state of a CAN controller,
\* and nothing in one about another kind of device.
LEMMA StateRead ==
    ASSUME NEW d \in Devices
    PROVE  CanStateRaw(Link(d)) = IF d.kind = "can" THEN d.raw ELSE Nothing
<1> DEFINE info == LinkInfo(d.kind, d.raw)
           data == InfoData(d.kind, d.raw)
<1>1. d.kind \in Kinds /\ d.raw \in 0..5
  BY DEF Devices
<1>2. info # Nothing /\ data # Nothing
  BY <1>1, NothingAssumption
<1>3. FindAttr(Link(d), IFLA_LINKINFO) = info
  <2> DEFINE a == Link(d)
  <2>1. /\ DOMAIN a = 1..2
        /\ a[1].type = IFLA_IFNAME /\ a[2].type = IFLA_LINKINFO
        /\ a[2].value = info
    BY DEF Link, Attr
  <2>2. IFLA_IFNAME # IFLA_LINKINFO
    BY DEF IFLA_IFNAME, IFLA_LINKINFO
  <2> HIDE DEF a, info
  <2>3. FindAttr(a, a[2].type) = a[2].value
    BY <2>1, <2>2, FirstFound
  <2> QED
    BY <2>1, <2>3 DEF a
<1>4. FindAttr(info, IFLA_INFO_KIND) = d.kind
  <2> DEFINE b == info
  <2>1. /\ DOMAIN b \in {1..1, 1..2}
        /\ b[1].type = IFLA_INFO_KIND /\ b[1].value = d.kind
    BY DEF LinkInfo, Attr
  <2> HIDE DEF b, info
  <2>2. FindAttr(b, b[1].type) = b[1].value
    BY <2>1, FirstFound
  <2> QED
    BY <2>1, <2>2 DEF b
<1>5. d.kind = "can" => FindAttr(info, IFLA_INFO_DATA) = data
  <2> SUFFICES ASSUME d.kind = "can" PROVE FindAttr(info, IFLA_INFO_DATA) = data
    OBVIOUS
  <2> DEFINE b == info
  <2>1. /\ DOMAIN b = 1..2
        /\ b[1].type = IFLA_INFO_KIND /\ b[2].type = IFLA_INFO_DATA
        /\ b[2].value = data
    BY DEF LinkInfo, Attr
  <2>2. IFLA_INFO_KIND # IFLA_INFO_DATA
    BY DEF IFLA_INFO_KIND, IFLA_INFO_DATA
  <2> HIDE DEF b, info, data
  <2>3. FindAttr(b, b[2].type) = b[2].value
    BY <2>1, <2>2, FirstFound
  <2> QED
    BY <2>1, <2>3 DEF b
<1>6. d.kind = "can" => FindAttr(data, IFLA_CAN_STATE) = d.raw
  <2> SUFFICES ASSUME d.kind = "can" PROVE FindAttr(data, IFLA_CAN_STATE) = d.raw
    OBVIOUS
  <2> DEFINE b == data
  <2>1. /\ DOMAIN b = 1..2
        /\ b[1].type = 1 /\ b[2].type = IFLA_CAN_STATE /\ b[2].value = d.raw
    BY DEF InfoData, Attr
  <2> HIDE DEF b, data
  <2>3. FindAttr(b, b[2].type) = b[2].value
    BY <2>1, FirstFound DEF IFLA_CAN_STATE
  <2> QED
    BY <2>1, <2>3 DEF b
<1> HIDE DEF info, data
<1> QED
  BY <1>2, <1>3, <1>4, <1>5, <1>6 DEF CanStateRaw

\* So a state that is told is that of the device.
LEMMA StateTold ==
    ASSUME NEW d \in Devices
    PROVE  LET raw == CanStateRaw(Link(d))
           IN  StateOf(d) = IF raw = Nothing THEN Nothing ELSE FromRaw(raw)
<1>1. d.raw \in 0..5 /\ d.raw # Nothing
  BY NothingAssumption DEF Devices
<1> QED
  BY <1>1, StateRead DEF StateOf

-----------------------------------------------------------------------------
(* The devices, and the history.                                           *)

\* What a step does to the devices: they stay, one after the other, on their
\* indices, and a name or an index is only given to one device.
Later ==
    /\ DeviceInv'
    /\ born \subseteq born'
    /\ \A i \in Indices : dev[i] # Nothing /\ dev'[i] # Nothing =>
         Newer(dev[i], dev'[i])
    /\ \A i \in Indices : dev[i] = Nothing /\ dev'[i] # Nothing => i \notin born

LEMMA NewerReflexive ==
    ASSUME NEW d \in Devices PROVE Newer(d, d)
BY DEF Newer, Devices

LEMMA NewerTransitive ==
    ASSUME NEW d \in Devices, NEW e \in Devices, NEW f \in Devices,
           Newer(d, e), Newer(e, f)
    PROVE  Newer(d, f)
<1>1. d.starts \in Int /\ e.starts \in Int /\ f.starts \in Int
  BY DEF Devices
<1>2. d.starts <= e.starts /\ e.starts <= f.starts
  BY DEF Newer
<1>3. ASSUME ~d.up, f.up PROVE d.starts < f.starts
  <2>1. CASE e.up
    BY <1>1, <1>2, <1>3, <2>1 DEF Newer
  <2>2. CASE ~e.up
    BY <1>1, <1>2, <1>3, <2>2 DEF Newer
  <2> QED
    BY <2>1, <2>2
<1> QED
  BY <1>1, <1>2, <1>3 DEF Newer

LEMMA DeviceTypes ==
    ASSUME DeviceInv, NEW i \in Indices, dev[i] # Nothing
    PROVE  dev[i] \in Devices /\ i \in born /\ i \in Present
BY DEF DeviceInv, Snapshots, Present

LEMMA DevicesStay ==
    ASSUME DeviceInv, UNCHANGED <<dev, born>> PROVE Later
<1>1. DeviceInv'
  BY DEF DeviceInv, Present
<1>2. \A i \in Indices : dev[i] # Nothing => Newer(dev[i], dev[i])
  BY DeviceTypes, NewerReflexive
<1> QED
  BY <1>1, <1>2 DEF Later

\* One device changes, to one that is newer and bears a name of its own.
LEMMA OneChanges ==
    ASSUME DeviceInv, NEW i \in Indices, dev[i] # Nothing,
           NEW e \in Devices, Newer(dev[i], e),
           \/ e.name = dev[i].name
           \/ \A j \in Present : dev[j].name # e.name,
           dev' = [dev EXCEPT ![i] = e], born' = born
    PROVE  Later
<1>1. e # Nothing
  BY NothingAssumption
<1>2. /\ dev' \in Snapshots
      /\ \A j \in Indices : dev'[j] = IF j = i THEN e ELSE dev[j]
  BY DEF DeviceInv, Snapshots
<1>3. Present' = Present /\ i \in Present
  BY <1>1, <1>2 DEF Present
<1>4. \A j, k \in Present' : dev'[j].name = dev'[k].name => j = k
  <2> SUFFICES ASSUME NEW j \in Present, NEW k \in Present,
                      dev'[j].name = dev'[k].name
               PROVE  j = k
    BY <1>3
  <2>1. j \in Indices /\ k \in Indices
    BY DEF Present
  <2>2. dev[j].name = dev[k].name => j = k
    BY DEF DeviceInv
  <2>3. dev[i].name = dev[k].name => i = k
    BY <1>3 DEF DeviceInv
  <2>4. dev[j].name = dev[i].name => j = i
    BY <1>3 DEF DeviceInv
  <2> QED
    BY <1>2, <2>1, <2>2, <2>3, <2>4
<1>5. DeviceInv'
  BY <1>2, <1>3, <1>4 DEF DeviceInv
<1>6. \A j \in Indices : dev[j] # Nothing => Newer(dev[j], dev[j])
  BY DeviceTypes, NewerReflexive
<1> QED
  BY <1>2, <1>5, <1>6 DEF Later

LEMMA PlugStep == ASSUME DeviceInv, Plug PROVE Later
<1> PICK i \in Indices \ born, n \in Names, k \in Kinds :
       /\ Bearers(n) = {}
       /\ born' = born \cup {i}
       /\ dev' = [dev EXCEPT ![i] =
                    [name |-> n, kind |-> k, up |-> FALSE, raw |-> STOPPED,
                     starts |-> 0]]
  BY DEF Plug
<1> DEFINE e == [name |-> n, kind |-> k, up |-> FALSE, raw |-> STOPPED,
                 starts |-> 0]
<1>1. e \in Devices /\ e.name = n
  BY DEF Devices, STOPPED
<1>2. e # Nothing
  BY <1>1, NothingAssumption
<1>3. dev[i] = Nothing
  BY DEF DeviceInv, Present
<1>4. \A j \in Present : dev[j].name # n
  BY DEF Bearers
<1> HIDE DEF e
<1>5. /\ dev' \in Snapshots
      /\ \A j \in Indices : dev'[j] = IF j = i THEN e ELSE dev[j]
  BY <1>1 DEF DeviceInv, Snapshots, e
<1>6. Present' = Present \cup {i}
  BY <1>2, <1>5 DEF Present
<1>7. \A j, k2 \in Present' : dev'[j].name = dev'[k2].name => j = k2
  <2> SUFFICES ASSUME NEW j \in Present', NEW k2 \in Present',
                      dev'[j].name = dev'[k2].name
               PROVE  j = k2
    OBVIOUS
  <2>1. j \in Indices /\ k2 \in Indices
    BY DEF Present
  <2>2. j \in Present /\ k2 \in Present => (dev[j].name = dev[k2].name => j = k2)
    BY DEF DeviceInv
  <2> QED
    BY <1>1, <1>4, <1>5, <1>6, <2>1, <2>2
<1>8. DeviceInv'
  BY <1>5, <1>6, <1>7 DEF DeviceInv
<1>9. \A j \in Indices : dev[j] # Nothing => Newer(dev[j], dev[j])
  BY DeviceTypes, NewerReflexive
<1> QED
  BY <1>3, <1>5, <1>8, <1>9 DEF Later

LEMMA UnplugStep == ASSUME DeviceInv, Unplug PROVE Later
<1> PICK i \in Present : dev' = [dev EXCEPT ![i] = Nothing]
  BY DEF Unplug
<1>1. born' = born
  BY DEF Unplug
<1>2. /\ dev' \in Snapshots
      /\ \A j \in Indices : dev'[j] = IF j = i THEN Nothing ELSE dev[j]
  BY DEF DeviceInv, Snapshots
<1>3. Present' \subseteq Present \ {i}
  BY <1>2 DEF Present
<1>4. DeviceInv'
  <2>1. \A j \in Present' : dev'[j] = dev[j]
    BY <1>2, <1>3 DEF Present
  <2> QED
    BY <1>1, <1>2, <1>3, <2>1 DEF DeviceInv
<1>5. \A j \in Indices : dev[j] # Nothing => Newer(dev[j], dev[j])
  BY DeviceTypes, NewerReflexive
<1> QED
  BY <1>1, <1>2, <1>4, <1>5 DEF Later

LEMMA RenameStep == ASSUME DeviceInv, Rename PROVE Later
<1> PICK i \in Present, n \in Names :
       Bearers(n) = {} /\ dev' = [dev EXCEPT ![i].name = n]
  BY DEF Rename
<1> DEFINE e == [dev[i] EXCEPT !.name = n]
<1>1. i \in Indices /\ dev[i] # Nothing /\ dev[i] \in Devices
  BY DeviceTypes DEF Present
<1>2. e \in Devices /\ e.name = n /\ Newer(dev[i], e)
  BY <1>1 DEF Devices, Newer
<1>3. dev' = [dev EXCEPT ![i] = e] /\ born' = born
  BY DEF Rename
<1>4. \A j \in Present : dev[j].name # n
  BY DEF Bearers
<1> HIDE DEF e
<1> QED
  BY <1>1, <1>2, <1>3, <1>4, OneChanges

LEMMA BusOffStep == ASSUME DeviceInv, BusOff PROVE Later
<1> PICK i \in Present : dev' = [dev EXCEPT ![i].raw = BUS_OFF]
  BY DEF BusOff
<1> DEFINE e == [dev[i] EXCEPT !.raw = BUS_OFF]
<1>1. i \in Indices /\ dev[i] # Nothing /\ dev[i] \in Devices
  BY DeviceTypes DEF Present
<1>2. e \in Devices /\ e.name = dev[i].name /\ Newer(dev[i], e)
  BY <1>1 DEF Devices, Newer, BUS_OFF
<1>3. dev' = [dev EXCEPT ![i] = e] /\ born' = born
  BY DEF BusOff
<1> HIDE DEF e
<1> QED
  BY <1>1, <1>2, <1>3, OneChanges

\* A device set up is up and newer; one set down is down.
LEMMA SetLemma ==
    ASSUME NEW d \in Devices
    PROVE  /\ SetUp(d) \in Devices /\ Newer(d, SetUp(d)) /\ SetUp(d).up
           /\ SetUp(d).name = d.name
           /\ ~d.up => d.starts < SetUp(d).starts
           /\ SetDown(d) \in Devices /\ Newer(d, SetDown(d)) /\ ~SetDown(d).up
           /\ SetDown(d).name = d.name
<1>1. /\ d = [name |-> d.name, kind |-> d.kind, up |-> d.up, raw |-> d.raw,
               starts |-> d.starts]
      /\ d.name \in Names /\ d.kind \in Kinds /\ d.up \in BOOLEAN
      /\ d.raw \in 0..5 /\ d.starts \in Nat
  BY DEF Devices
<1>2. /\ SetDown(d) \in Devices /\ Newer(d, SetDown(d)) /\ ~SetDown(d).up
      /\ SetDown(d).name = d.name
  <2> DEFINE d1 == [d EXCEPT !.up = FALSE]
  <2>1. SetDown(d) = [d1 EXCEPT !.raw = STOPPED]
    BY DEF SetDown
  <2>2. d1 \in Devices /\ ~d1.up /\ d1.name = d.name /\ d1.starts = d.starts
    BY DEF Devices
  <2> HIDE DEF d1
  <2> QED
    BY <1>1, <2>1, <2>2 DEF Devices, STOPPED, Newer
<1>3. CASE d.up
  <2>1. SetUp(d) = d
    BY <1>3 DEF SetUp
  <2> QED
    BY <1>2, <1>3, <2>1, NewerReflexive
<1>4. CASE ~d.up
  <2> DEFINE d1 == [d EXCEPT !.up = TRUE]
             d2 == [d1 EXCEPT !.raw = ERROR_ACTIVE]
  <2>1. SetUp(d) = [d2 EXCEPT !.starts = @ + 1]
    BY <1>4 DEF SetUp
  <2>2. d1 \in Devices /\ d1.up /\ d1.name = d.name /\ d1.starts = d.starts
    BY DEF Devices
  <2> HIDE DEF d1
  <2>3. d2 \in Devices /\ d2.up /\ d2.name = d.name /\ d2.starts = d.starts
    BY <2>2 DEF Devices, ERROR_ACTIVE
  <2> HIDE DEF d2
  <2>4. /\ SetUp(d) \in Devices /\ SetUp(d).up /\ SetUp(d).name = d.name
        /\ SetUp(d).starts = d.starts + 1
    BY <1>1, <2>1, <2>3 DEF Devices
  <2> QED
    BY <1>1, <1>2, <1>4, <2>4 DEF Newer
<1> QED
  BY <1>3, <1>4

LEMMA KernelActsStep ==
    ASSUME DeviceInv, NEW i \in Indices, NEW want, KernelActs(i, want),
           born' = born
    PROVE  Later
<1>1. CASE UNCHANGED dev
  BY <1>1, DevicesStay
<1>2. CASE dev[i] # Nothing /\ want # "get"
  <2> DEFINE e == IF want = "up" THEN SetUp(dev[i]) ELSE SetDown(dev[i])
  <2>1. dev' = [dev EXCEPT ![i] = e]
    BY <1>2 DEF KernelActs
  <2>2. e \in Devices /\ Newer(dev[i], e) /\ e.name = dev[i].name
    BY <1>2, DeviceTypes, SetLemma
  <2> HIDE DEF e
  <2> QED
    BY <1>2, <2>1, <2>2, OneChanges
<1> QED
  BY <1>1, <1>2 DEF KernelActs

\* More of the past shows what less of it showed.
LEMMA Grow ==
    ASSUME NEW D, NEW E, D \subseteq E
    PROVE  /\ \A i, n : BoreIn(D, i, n) => BoreIn(E, i, n)
           /\ \A i : DownIn(D, i) => DownIn(E, i)
           /\ \A i : RestartedIn(D, i) => RestartedIn(E, i)
           /\ \A n, v : StateIn(D, n, v) => StateIn(E, n, v)
           /\ \A n, v : UpIn(D, n, v) => UpIn(E, n, v)
<1>1. \A i, n : BoreIn(D, i, n) => BoreIn(E, i, n)
  BY DEF BoreIn
<1>2. \A i : DownIn(D, i) => DownIn(E, i)
  BY DEF DownIn
<1>3. \A i : RestartedIn(D, i) => RestartedIn(E, i)
  BY DEF RestartedIn
<1>4. ASSUME NEW n, NEW v, StateIn(D, n, v) PROVE StateIn(E, n, v)
  BY <1>1, <1>4, Zenon DEF StateIn
<1>5. ASSUME NEW n, NEW v, UpIn(D, n, v) PROVE UpIn(E, n, v)
  <2>1. CASE v = Nothing
    BY <1>5, <2>1, Zenon DEF UpIn
  <2>2. CASE v # Nothing
    BY <1>1, <1>5, <2>2, Zenon DEF UpIn
  <2> QED
    BY <2>1, <2>2
<1> QED
  BY <1>1, <1>2, <1>3, <1>4, <1>5

LEMMA WatchLemma ==
    ASSUME Watch, NEW t \in Threads
    PROVE  /\ during'[t] = IF pc[t] # "idle" THEN during[t] \cup {dev'}
                        ELSE IF pc'[t] # "idle" THEN {dev'} ELSE during[t]
           /\ unread'[t] = IF pc[t] # "idle" THEN unread[t] \cup Missed(t)
                           ELSE IF pc'[t] # "idle" THEN {} ELSE unread[t]
BY DEF Watch

LEMMA HistoryStep ==
    ASSUME DeviceInv, ThreadTypes, HistoryInv, Later, Watch
    PROVE  HistoryInv' /\ during' \in [Threads -> SUBSET Snapshots]
<1>1. dev' \in Snapshots /\ born \subseteq born' /\ DeviceInv'
  BY DEF Later, DeviceInv
<1>2. during' \in [Threads -> SUBSET Snapshots]
  <2>1. \A t \in Threads : during[t] \in SUBSET Snapshots
    BY DEF ThreadTypes
  <2> QED
    BY <1>1, <2>1 DEF Watch
<1>3. ASSUME NEW t \in Threads, pc'[t] # "idle" PROVE dev' \in during'[t]
  BY <1>3, WatchLemma
<1>4. ASSUME NEW t \in Threads, NEW w \in during'[t], NEW i \in Indices,
             w[i] # Nothing
      PROVE  i \in born' /\ (dev'[i] # Nothing => Newer(w[i], dev'[i]))
  <2>1. CASE w = dev'
    <3>1. dev'[i] \in Devices /\ i \in born'
      BY <1>1, <1>4, <2>1 DEF DeviceInv, Snapshots, Present
    <3> QED
      BY <2>1, <3>1, NewerReflexive
  <2>2. CASE w \in during[t]
    <3>1. i \in born /\ (dev[i] # Nothing => Newer(w[i], dev[i]))
      BY <1>4, <2>2 DEF HistoryInv
    <3>2. w[i] \in Devices
      <4>1. during[t] \subseteq Snapshots
        BY DEF ThreadTypes
      <4> QED
        BY <1>4, <2>2, <4>1 DEF Snapshots
    <3>3. ASSUME dev'[i] # Nothing PROVE Newer(w[i], dev'[i])
      <4>1. dev[i] # Nothing /\ Newer(dev[i], dev'[i])
        BY <3>1, <3>3 DEF Later
      <4>2. dev[i] \in Devices /\ dev'[i] \in Devices
        BY <1>1, <3>3, <4>1, DeviceTypes DEF Snapshots
      <4> QED
        BY <3>1, <3>2, <4>1, <4>2, NewerTransitive
    <3> QED
      BY <1>1, <3>1, <3>3
  <2> QED
    BY <1>4, <2>1, <2>2, WatchLemma
<1> QED
  BY <1>2, <1>3, <1>4 DEF HistoryInv

-----------------------------------------------------------------------------
(* The threads that do not take the step.                                  *)

Stays(u) ==
    /\ pc'[u] = pc[u] /\ call'[u] = call[u] /\ reply'[u] = reply[u]
    /\ fds'[u] = fds[u] /\ result'[u] = result[u]

LEMMA StaysLemma ==
    ASSUME ThreadTypes, NEW u \in Threads, ThreadInv(u), Stays(u),
           born \subseteq born',
           (during'[u] = during[u] /\ unread'[u] = unread[u]) \/ Watch
    PROVE  ThreadInv(u)'
<1>1. /\ during[u] \subseteq during'[u]
      /\ pc[u] = "idle" => during'[u] = during[u]
      /\ unread'[u] = unread[u]
  BY WatchLemma DEF Stays, Missed
<1>2. Shape(u)'
  BY DEF ThreadInv, Shape, Stays
<1>3. Found(u)'
  BY <1>1, Grow DEF ThreadInv, Found, Stays
<1>4. CycleInv(u)'
  BY <1>1, Grow DEF ThreadInv, CycleInv, Stays
<1>5. AnswerInv(u)'
  BY <1>1 DEF ThreadInv, AnswerInv, Stays
<1>6. SummaryInv(u)'
  BY <1>1, Grow DEF ThreadInv, SummaryInv, Stays
<1>7. ListInv(u)'
  BY <1>1 DEF ThreadInv, ListInv, Stays
<1>8. ResultInv(u)'
  BY <1>1, Zenon DEF ThreadInv, ResultInv, Stays
<1> QED
  BY <1>2, <1>3, <1>4, <1>5, <1>6, <1>7, <1>8 DEF ThreadInv

-----------------------------------------------------------------------------
(* The thread that does.                                                   *)

\* The types of what a call writes, and what it leaves to the other threads.
Own(t) ==
    /\ pc' \in [Threads -> Steps]
    /\ call' \in [Threads -> CallRecords]
    /\ DOMAIN reply' = Threads /\ DOMAIN result' = Threads
    /\ fds' \in [Threads -> Int]
    /\ marred' \in BOOLEAN
    /\ \A u \in Threads \ {t} : Stays(u)

\* The part of it that Return and GoOn write.
Ours(t) ==
    /\ pc' \in [Threads -> Steps]
    /\ call' \in [Threads -> CallRecords]
    /\ DOMAIN result' = Threads
    /\ marred' \in BOOLEAN
    /\ \A u \in Threads \ {t} :
         pc'[u] = pc[u] /\ call'[u] = call[u] /\ result'[u] = result[u]

LEMMA NoCallType == NoCall \in CallRecords /\ NoCall.op = "none"
BY DEF NoCall, Calling, NoValue, CallRecords, Values

LEMMA ReturnLemma ==
    ASSUME ThreadTypes, NEW t \in Threads, NEW ok \in BOOLEAN, NEW value,
           Return(t, ok, value)
    PROVE  /\ Ours(t)
           /\ pc'[t] = "idle" /\ call'[t] = NoCall
           /\ result'[t] = [op |-> call[t].op, name |-> call[t].name,
                            ok |-> ok, value |-> value]
           /\ ~marred' => ~marred /\ ok /\ call[t].op # "set_down"
<1>1. pc' \in [Threads -> Steps] /\ pc'[t] = "idle"
  BY DEF Return, ThreadTypes, Steps
<1>2. call' \in [Threads -> CallRecords] /\ call'[t] = NoCall
  BY NoCallType DEF Return, ThreadTypes
<1>3. /\ DOMAIN result' = Threads
      /\ result'[t] = [op |-> call[t].op, name |-> call[t].name,
                       ok |-> ok, value |-> value]
  BY DEF Return, ThreadTypes
<1>4. /\ marred' \in BOOLEAN
      /\ ~marred' => ~marred /\ ok /\ call[t].op # "set_down"
  BY DEF Return, ThreadTypes
<1>5. ASSUME NEW u \in Threads \ {t}
      PROVE  pc'[u] = pc[u] /\ call'[u] = call[u] /\ result'[u] = result[u]
  BY DEF Return, ThreadTypes
<1> QED
  BY <1>1, <1>2, <1>3, <1>4, <1>5 DEF Ours

LEMMA GoOnLemma ==
    ASSUME ThreadTypes, NEW t \in Threads, NEW step \in Steps,
           NEW locals \in CallRecords, GoOn(t, step, locals)
    PROVE  /\ Ours(t)
           /\ pc'[t] = step /\ call'[t] = locals
           /\ marred' = marred
BY DEF GoOn, ThreadTypes, Ours

\* The call of a thread and its parts.
LEMMA CallTypes ==
    ASSUME ThreadTypes, NEW t \in Threads
    PROVE  /\ call[t] \in CallRecords /\ call[t].value \in Values
           /\ call[t].todo \subseteq Names /\ call[t].name \in Names \cup {Nothing}
           /\ call[t].idx \in Indices \cup {Nothing}
           /\ call[t].want \in {"get", "up", "down"}
           /\ call[t].op \in Ops \cup {"none"}
           /\ pc[t] \in Steps
<1>1. call[t] \in CallRecords /\ pc[t] \in Steps
  BY DEF ThreadTypes
<1> QED
  BY <1>1 DEF CallRecords

\* A call that returns.
LEMMA Ends ==
    ASSUME ThreadTypes, Watch, NEW t \in Threads, pc[t] # "idle",
           NEW ok \in BOOLEAN, NEW value, Return(t, ok, value),
           fds'[t] = 0, reply'[t] = NoAnswer,
           ResultOf([op |-> call[t].op, name |-> call[t].name, ok |-> ok,
                     value |-> value], during'[t], unread'[t])
    PROVE  Ours(t) /\ ThreadInv(t)'
<1>1. /\ Ours(t) /\ pc'[t] = "idle" /\ call'[t] = NoCall
      /\ result'[t] = [op |-> call[t].op, name |-> call[t].name,
                       ok |-> ok, value |-> value]
  BY ReturnLemma
<1>2. call'[t].op = "none"
  BY <1>1, NoCallType
<1>3. Shape(t)'
  BY <1>1, <1>2 DEF Shape, ListSteps, FlagSteps, IndexSteps, NlSteps
<1>4. Found(t)' /\ AnswerInv(t)' /\ SummaryInv(t)' /\ ListInv(t)'
  BY <1>1 DEF Found, AnswerInv, SummaryInv, ListInv, IndexSteps, NlSteps,
              ListSteps
<1>5. CycleInv(t)'
  BY <1>2 DEF CycleInv
<1>6. ResultInv(t)'
  BY <1>1 DEF ResultInv
<1> QED
  BY <1>1, <1>3, <1>4, <1>5, <1>6 DEF ThreadInv

\* What a step under way adds to the past of its call.
LEMMA Active ==
    ASSUME IInv, Watch, NEW t \in Threads, pc[t] # "idle"
    PROVE  /\ during'[t] = during[t] \cup {dev'}
           /\ during[t] \subseteq during'[t] /\ dev \in during'[t]
           /\ dev' \in during'[t] /\ dev \in during[t]
           /\ unread'[t] = unread[t] \cup Missed(t)
BY WatchLemma DEF IInv, HistoryInv

LEMMA Past ==
    ASSUME IInv, Watch, NEW t \in Threads, pc[t] # "idle"
    PROVE  LET D == during[t]
               E == during'[t]
           IN  /\ \A i, n : BoreIn(D, i, n) => BoreIn(E, i, n)
               /\ \A i : DownIn(D, i) => DownIn(E, i)
               /\ \A i : RestartedIn(D, i) => RestartedIn(E, i)
               /\ \A n, v : StateIn(D, n, v) => StateIn(E, n, v)
               /\ \A n, v : UpIn(D, n, v) => UpIn(E, n, v)
<1>1. during[t] \subseteq during'[t]
  BY Active
<1> QED
  BY <1>1, Grow

\* A call that goes on, with its cycle, answer and list left to show.
LEMMA Continues ==
    ASSUME IInv, Watch, NEW t \in Threads, pc[t] # "idle",
           NEW step \in Steps \ {"idle"}, NEW locals \in CallRecords,
           GoOn(t, step, locals),
           locals.name = call[t].name, locals.value.up = call[t].value.up,
           step \in IndexSteps => BoreIn(during'[t], locals.idx, locals.name),
           Shape(t)', CycleInv(t)', AnswerInv(t)', ListInv(t)'
    PROVE  Ours(t) /\ ThreadInv(t)'
<1>1. Ours(t) /\ pc'[t] = step /\ call'[t] = locals
  BY GoOnLemma DEF IInv
<1>2. Found(t)'
  BY <1>1 DEF Found
<1>3. SummaryInv(t)'
  <2>1. SummaryInv(t)
    BY DEF IInv, ThreadInv
  <2> QED
    BY <1>1, <2>1, Past DEF SummaryInv
<1>4. ResultInv(t)'
  BY <1>1 DEF ResultInv
<1> QED
  BY <1>1, <1>2, <1>3, <1>4 DEF ThreadInv

LEMMA Fails ==
    ASSUME IInv, Watch, NEW t \in Threads, pc[t] \notin {"idle"} \cup ListSteps,
           Fail(t), fds'[t] = 0, reply'[t] = NoAnswer
    PROVE  Ours(t) /\ ThreadInv(t)'
<1>1. ThreadTypes /\ Shape(t) /\ SummaryInv(t) /\ CycleInv(t)
  BY DEF IInv, ThreadInv
<1>2. call[t].op # "list" /\ call[t] \in CallRecords
  BY <1>1, CallTypes DEF Shape
<1>3. CASE call[t].op # "summary"
  <2>1. Return(t, FALSE, NoValue)
    BY <1>3 DEF Fail
  <2>2. ResultOf([op |-> call[t].op, name |-> call[t].name, ok |-> FALSE,
                  value |-> NoValue], during'[t], unread'[t])
    BY <1>2 DEF ResultOf
  <2> QED
    BY <1>1, <2>1, <2>2, Ends
<1>4. CASE call[t].op = "summary" /\ pc[t] \notin FlagSteps
  <2>1. Return(t, TRUE, call[t].value)
    BY <1>4 DEF Fail, FlagSteps
  <2>2. call[t].value.state = Nothing
    BY <1>1 DEF Shape
  <2>3. call[t].value.up # Nothing =>
          UpIn(during'[t], call[t].name, call[t].value.up)
    BY <1>1, Past DEF SummaryInv
  <2>4. ResultOf([op |-> call[t].op, name |-> call[t].name, ok |-> TRUE,
                  value |-> call[t].value], during'[t], unread'[t])
    BY <1>4, <2>2, <2>3 DEF ResultOf
  <2> QED
    BY <1>1, <2>1, <2>4, Ends
<1>5. CASE call[t].op = "summary" /\ pc[t] \in FlagSteps
  <2>1. GoOn(t, "index", call[t])
    BY <1>5 DEF Fail, FlagSteps
  <2>2. pc'[t] = "index" /\ call'[t] = call[t]
    BY <1>1, <1>2, <2>1, GoOnLemma DEF Steps
  <2>3. Shape(t)'
    BY <1>1, <1>5, <2>2 DEF Shape, ListSteps, FlagSteps, IndexSteps, NlSteps
  <2>4. CycleInv(t)' /\ AnswerInv(t)' /\ ListInv(t)'
    BY <1>5, <2>2 DEF CycleInv, AnswerInv, ListInv, ListSteps
  <2>5. "index" \in Steps \ {"idle"} /\ "index" \notin IndexSteps
    BY DEF Steps, IndexSteps, NlSteps
  <2> QED
    BY <1>2, <1>5, <2>1, <2>3, <2>4, <2>5, Continues
<1> QED
  BY <1>3, <1>4, <1>5

\* Ours, and the netlink socket.
LEMMA OwnLemma ==
    ASSUME ThreadTypes, NEW t \in Threads, Ours(t),
           \/ fds' = fds
           \/ fds' = [fds EXCEPT ![t] = @ + 1]
           \/ fds' = [fds EXCEPT ![t] = @ - 1],
           reply' = reply \/ \E r : reply' = [reply EXCEPT ![t] = r]
    PROVE  Own(t)
<1>1. fds' \in [Threads -> Int]
  BY DEF ThreadTypes
<1>2. DOMAIN reply' = Threads
  BY DEF ThreadTypes
<1>3. \A u \in Threads \ {t} : fds'[u] = fds[u] /\ reply'[u] = reply[u]
  BY DEF ThreadTypes
<1> QED
  BY <1>1, <1>2, <1>3 DEF Own, Ours, Stays

\* What a list is not told when a system call of it fails.
LEMMA MissedLemma ==
    ASSUME IInv, Watch, NEW t \in Threads, pc[t] \in ListSteps, Fault
    PROVE  /\ pc'[t] = "idle" => Names \subseteq unread'[t]
           /\ pc'[t] # "idle" /\ (pc'[t] # pc[t] \/ call'[t] # call[t]) =>
                unread'[t] = unread[t] \cup {call'[t].name}
<1>1. pc[t] # "idle" /\ call[t].op = "list"
  <2>1. Shape(t)
    BY DEF IInv, ThreadInv
  <2> QED
    BY <2>1 DEF Shape
<1>2. faults' # faults
  BY DEF IInv, Fault
<1>3. unread'[t] = unread[t] \cup Missed(t)
  BY <1>1, Active
<1> QED
  BY <1>1, <1>2, <1>3 DEF Missed

LEMMA ListFails ==
    ASSUME IInv, Watch, NEW t \in Threads, pc[t] \in ListSteps, Fault, Fail(t),
           UNCHANGED <<reply, fds>>
    PROVE  Own(t) /\ ThreadInv(t)'
<1>1. /\ ThreadTypes /\ Shape(t) /\ call[t].op = "list" /\ pc[t] # "idle"
  BY DEF IInv, ThreadInv, Shape
<1>2. fds'[t] = 0 /\ reply'[t] = NoAnswer
  BY <1>1 DEF Shape, ListSteps
<1>3. Return(t, FALSE, NoValue)
  BY <1>1 DEF Fail
<1>4. Names \subseteq unread'[t]
  BY <1>1, <1>3, ReturnLemma, MissedLemma DEF IInv, ThreadTypes
<1>5. ResultOf([op |-> call[t].op, name |-> call[t].name, ok |-> FALSE,
                value |-> NoValue], during'[t], unread'[t])
  BY <1>1, <1>4 DEF ResultOf, NoValue
<1>6. Ours(t) /\ ThreadInv(t)'
  BY <1>1, <1>2, <1>3, <1>5, Ends
<1> QED
  BY <1>1, <1>6, OwnLemma

LEMMA BeginStep ==
    ASSUME IInv, Watch, NEW t \in Threads, Begin(t)
    PROVE  Own(t) /\ ThreadInv(t)'
<1> PICK o \in Ops, n \in Names :
       GoOn(t, FirstStep(o), Calling(o, n, FirstWant(o)))
  BY DEF Begin
<1> DEFINE step == FirstStep(o)
           want == FirstWant(o)
           locals == Calling(o, n, want)
<1>1. /\ ThreadTypes /\ Shape(t) /\ pc[t] = "idle"
      /\ UNCHANGED <<dev, born, reply, fds>>
  BY DEF IInv, ThreadInv, Begin, kernelVars
<1>2. \/ o \in {"is_up", "summary"} /\ step = "open_flags" /\ want = "get"
      \/ o = "list" /\ step = "read_dir" /\ want = "get"
      \/ o = "set_up" /\ step = "index" /\ want = "up"
      \/ o \in {"set_down", "cycle"} /\ step = "index" /\ want = "down"
      \/ o = "state" /\ step = "index" /\ want = "get"
  <2>1. o \in {"set_up", "set_down", "cycle", "state", "is_up", "list",
               "summary"}
    BY OpsAssumption
  <2>2. CASE o \in {"is_up", "summary"}
    BY <2>2 DEF FirstStep, FirstWant
  <2>3. CASE o = "list"
    BY <2>3 DEF FirstStep, FirstWant
  <2>4. CASE o = "set_up"
    BY <2>4 DEF FirstStep, FirstWant
  <2>5. CASE o \in {"set_down", "cycle"}
    BY <2>5 DEF FirstStep, FirstWant
  <2>6. CASE o = "state"
    BY <2>6 DEF FirstStep, FirstWant
  <2> QED
    BY <2>1, <2>2, <2>3, <2>4, <2>5, <2>6
<1> HIDE DEF step, want
<1>3. step \in Steps /\ locals \in CallRecords
  BY <1>2 DEF Steps, ListSteps, FlagSteps, Calling, CallRecords, Values, NoValue
<1>4. /\ locals.op = o /\ locals.name = n /\ locals.want = want
      /\ locals.value.up = Nothing /\ locals.value.state = Nothing
      /\ locals.value.list = {}
  BY DEF Calling, NoValue
<1> HIDE DEF locals
<1>5. Ours(t) /\ pc'[t] = step /\ call'[t] = locals
  BY <1>1, <1>3, GoOnLemma DEF step, want, locals
<1>6. Shape(t)'
  BY <1>1, <1>2, <1>4, <1>5 DEF Shape, ListSteps, FlagSteps, IndexSteps, NlSteps
<1>7. Found(t)' /\ CycleInv(t)' /\ AnswerInv(t)' /\ SummaryInv(t)'
  BY <1>2, <1>4, <1>5 DEF Found, CycleInv, AnswerInv, SummaryInv, IndexSteps,
                          NlSteps
<1>8. ListInv(t)' /\ ResultInv(t)'
  BY <1>2, <1>4, <1>5 DEF ListInv, ResultInv, ListSteps
<1>9. Own(t)
  BY <1>1, <1>5, OwnLemma
<1> QED
  BY <1>6, <1>7, <1>8, <1>9 DEF ThreadInv

LEMMA IndexStep ==
    ASSUME IInv, Watch, NEW t \in Threads, Index(t)
    PROVE  Own(t) /\ ThreadInv(t)'
<1>1. /\ ThreadTypes /\ Shape(t) /\ CycleInv(t) /\ pc[t] = "index"
      /\ UNCHANGED <<dev, born, reply, fds>>
  BY DEF IInv, ThreadInv, Index, kernelVars
<1>2. fds'[t] = 0 /\ reply'[t] = NoAnswer
  BY <1>1 DEF Shape
<1>3. CASE Fail(t)
  BY <1>1, <1>2, <1>3, Fails, OwnLemma DEF ListSteps
<1>4. ASSUME NEW i \in Bearers(call[t].name),
             GoOn(t, "socket", [call[t] EXCEPT !.idx = i])
      PROVE  Own(t) /\ ThreadInv(t)'
  <2> DEFINE c == [call[t] EXCEPT !.idx = i]
  <2>1. /\ i \in Indices /\ dev[i] # Nothing /\ dev[i].name = call[t].name
        /\ i \in born
    BY DeviceTypes DEF Bearers, Present, IInv
  <2>2. /\ c \in CallRecords /\ c.idx = i /\ c.name = call[t].name
        /\ c.op = call[t].op /\ c.want = call[t].want
        /\ c.value = call[t].value
    BY <1>1, <2>1, CallTypes DEF CallRecords
  <2> HIDE DEF c
  <2>3. pc'[t] = "socket" /\ call'[t] = c
    BY <1>1, <1>4, <2>2, GoOnLemma DEF Steps, NlSteps, c
  <2>4. BoreIn(during'[t], i, call[t].name)
    BY <1>1, <2>1, Active DEF BoreIn
  <2>5. Shape(t)'
    BY <1>1, <1>2, <2>1, <2>2, <2>3 DEF Shape, ListSteps, FlagSteps, IndexSteps,
                                       NlSteps
  <2>6. CycleInv(t)' /\ AnswerInv(t)' /\ ListInv(t)'
    <3>1. ~(call[t].op = "cycle" /\ call[t].want = "up")
      BY <1>1 DEF Shape, NlSteps
    <3> QED
      BY <2>2, <2>3, <3>1 DEF CycleInv, AnswerInv, ListInv, ListSteps
  <2>7. "socket" \in Steps \ {"idle"}
    BY DEF Steps, NlSteps
  <2>8. Ours(t) /\ ThreadInv(t)'
    BY <1>1, <1>4, <2>2, <2>4, <2>5, <2>6, <2>7, Continues DEF c
  <2> QED
    BY <1>1, <2>8, OwnLemma
<1> QED
  BY <1>3, <1>4 DEF Index

LEMMA NlSocketStep ==
    ASSUME IInv, Watch, NEW t \in Threads, NlSocket(t)
    PROVE  Own(t) /\ ThreadInv(t)'
<1>1. /\ ThreadTypes /\ Shape(t) /\ Found(t) /\ CycleInv(t) /\ pc[t] = "socket"
      /\ UNCHANGED <<dev, born, reply>>
  BY DEF IInv, ThreadInv, NlSocket, kernelVars
<1>2. fds[t] = 0 /\ reply'[t] = NoAnswer /\ call[t] \in CallRecords
  BY <1>1, CallTypes DEF Shape
<1>3. CASE Fail(t) /\ UNCHANGED fds
  BY <1>1, <1>2, <1>3, Fails, OwnLemma DEF ListSteps
<1>4. CASE fds' = [fds EXCEPT ![t] = @ + 1] /\ GoOn(t, "bind", call[t])
  <2>1. "bind" \in Steps \ {"idle"}
    BY DEF Steps, NlSteps
  <2>2. pc'[t] = "bind" /\ call'[t] = call[t] /\ fds'[t] = 1
    BY <1>1, <1>2, <1>4, <2>1, GoOnLemma DEF ThreadTypes
  <2>3. Shape(t)'
    BY <1>1, <1>2, <2>2 DEF Shape, ListSteps, FlagSteps, IndexSteps, NlSteps
  <2>4. CycleInv(t)' /\ AnswerInv(t)' /\ ListInv(t)'
    BY <1>1, <2>2, Past DEF CycleInv, AnswerInv, ListInv, ListSteps
  <2>5. BoreIn(during'[t], call[t].idx, call[t].name)
    BY <1>1, Past DEF Found, IndexSteps, NlSteps
  <2>6. Ours(t) /\ ThreadInv(t)'
    BY <1>1, <1>2, <1>4, <2>1, <2>3, <2>4, <2>5, Continues
  <2> QED
    BY <1>1, <1>4, <2>6, OwnLemma
<1> QED
  BY <1>3, <1>4 DEF NlSocket

LEMMA NlBindStep ==
    ASSUME IInv, Watch, NEW t \in Threads, NlBind(t)
    PROVE  Own(t) /\ ThreadInv(t)'
<1>1. /\ ThreadTypes /\ Shape(t) /\ Found(t) /\ CycleInv(t) /\ pc[t] = "bind"
      /\ UNCHANGED <<dev, born, reply>>
  BY DEF IInv, ThreadInv, NlBind, kernelVars
<1>2. fds[t] = 1 /\ reply'[t] = NoAnswer /\ call[t] \in CallRecords
  BY <1>1, CallTypes DEF Shape
<1>3. CASE Fail(t) /\ CloseFd(t)
  <2>1. fds' = [fds EXCEPT ![t] = @ - 1] /\ fds'[t] = 0
    BY <1>1, <1>2, <1>3 DEF CloseFd, ThreadTypes
  <2> QED
    BY <1>1, <1>2, <1>3, <2>1, Fails, OwnLemma DEF ListSteps
<1>4. CASE UNCHANGED fds /\ GoOn(t, "sendto", call[t])
  <2>1. "sendto" \in Steps \ {"idle"}
    BY DEF Steps, NlSteps
  <2>2. pc'[t] = "sendto" /\ call'[t] = call[t] /\ fds'[t] = 1
    BY <1>1, <1>2, <1>4, <2>1, GoOnLemma
  <2>3. Shape(t)'
    BY <1>1, <1>2, <2>2 DEF Shape, ListSteps, FlagSteps, IndexSteps, NlSteps
  <2>4. CycleInv(t)' /\ AnswerInv(t)' /\ ListInv(t)'
    BY <1>1, <2>2, Past DEF CycleInv, AnswerInv, ListInv, ListSteps
  <2>5. BoreIn(during'[t], call[t].idx, call[t].name)
    BY <1>1, Past DEF Found, IndexSteps, NlSteps
  <2>6. Ours(t) /\ ThreadInv(t)'
    BY <1>1, <1>2, <1>4, <2>1, <2>3, <2>4, <2>5, Continues
  <2> QED
    BY <1>1, <1>4, <2>6, OwnLemma
<1> QED
  BY <1>3, <1>4 DEF NlBind

\* What sendto() shows of the device: a request to change it that succeeds has
\* changed it, and an answer to a question is about it.
LEMMA CarriedOut ==
    ASSUME IInv, Watch, NEW t \in Threads, pc[t] = "sendto",
           KernelActs(call[t].idx, call[t].want),
           KernelAnswer(call[t].idx, call[t].want).err = "none"
    PROVE  LET i == call[t].idx
               want == call[t].want
               answer == KernelAnswer(i, want)
           IN  /\ want = "down" => DownIn(during'[t], i)
               /\ want = "up" /\ DownIn(during[t], i) => RestartedIn(during'[t], i)
               /\ want = "get" =>
                    \E w \in during'[t] :
                      w[i] # Nothing /\ answer.attrs = Link(w[i])
<1> DEFINE i == call[t].idx
           want == call[t].want
<1>1. /\ DeviceInv /\ ThreadTypes /\ HistoryInv /\ Shape(t)
      /\ i \in Indices /\ want \in {"get", "up", "down"}
  BY CallTypes DEF IInv, ThreadInv, Shape, IndexSteps, NlSteps, DeviceInv
<1>2. dev[i] # Nothing
  BY DEF KernelAnswer
<1>3. dev[i] \in Devices
  BY <1>1, <1>2, DeviceTypes
<1>4. want # "get" =>
        dev'[i] = IF want = "up" THEN SetUp(dev[i]) ELSE SetDown(dev[i])
  BY <1>1, <1>2 DEF KernelActs, DeviceInv, Snapshots
<1>5. want = "down" => DownIn(during'[t], i)
  <2> SUFFICES ASSUME want = "down" PROVE DownIn(during'[t], i)
    OBVIOUS
  <2>1. dev'[i] \in Devices /\ ~dev'[i].up
    BY <1>3, <1>4, SetLemma
  <2>2. dev'[i] # Nothing
    BY <2>1, NothingAssumption
  <2> QED
    BY <2>1, <2>2, Active DEF DownIn
<1>6. want = "up" /\ DownIn(during[t], i) => RestartedIn(during'[t], i)
  <2> SUFFICES ASSUME want = "up", DownIn(during[t], i)
               PROVE  RestartedIn(during'[t], i)
    OBVIOUS
  <2>1. PICK w \in during[t] : w[i] # Nothing /\ ~w[i].up
    BY DEF DownIn
  <2>2. w[i] \in Devices
    BY <1>1, <2>1 DEF ThreadTypes, Snapshots
  <2>3. Newer(w[i], dev[i])
    BY <1>1, <1>2, <2>1 DEF HistoryInv
  <2>4. /\ dev'[i] = SetUp(dev[i]) /\ dev'[i] \in Devices
        /\ Newer(dev[i], dev'[i]) /\ dev'[i].up
    BY <1>3, <1>4, SetLemma
  <2>5. dev'[i] # Nothing
    BY <2>4, NothingAssumption
  <2>6. Newer(w[i], dev'[i])
    BY <1>3, <2>2, <2>3, <2>4, NewerTransitive
  <2>7. w[i].starts < dev'[i].starts
    BY <2>1, <2>4, <2>6 DEF Newer
  <2>8. w \in during'[t] /\ dev' \in during'[t]
    BY <2>1, Active
  <2> QED
    BY <2>1, <2>5, <2>7, <2>8 DEF RestartedIn
<1>7. want = "get" =>
        \E w \in during'[t] :
          w[i] # Nothing /\ KernelAnswer(i, want).attrs = Link(w[i])
  BY <1>2, Active DEF KernelAnswer
<1> QED
  BY <1>5, <1>6, <1>7

LEMMA NlSendStep ==
    ASSUME IInv, Watch, NEW t \in Threads, NlSend(t)
    PROVE  Own(t) /\ ThreadInv(t)'
<1> DEFINE i == call[t].idx
           want == call[t].want
<1>1. /\ ThreadTypes /\ Shape(t) /\ Found(t) /\ CycleInv(t) /\ pc[t] = "sendto"
      /\ UNCHANGED born
  BY DEF IInv, ThreadInv, NlSend
<1>2. fds[t] = 1 /\ reply[t] = NoAnswer /\ call[t] \in CallRecords
  BY <1>1, CallTypes DEF Shape
<1>3. CASE Fail(t) /\ CloseFd(t) /\ UNCHANGED reply
  <2>1. fds' = [fds EXCEPT ![t] = @ - 1] /\ fds'[t] = 0
    BY <1>1, <1>2, <1>3 DEF CloseFd, ThreadTypes
  <2> QED
    BY <1>1, <1>2, <1>3, <2>1, Fails, OwnLemma DEF ListSteps
<1>4. ASSUME NEW r, r # NoAnswer,
             reply' = [reply EXCEPT ![t] = r], GoOn(t, "recv", call[t]),
             UNCHANGED fds,
             \/ r.err # "none"
             \/ KernelActs(i, want) /\ r = KernelAnswer(i, want)
      PROVE  Own(t) /\ ThreadInv(t)'
  <2>1. "recv" \in Steps \ {"idle"}
    BY DEF Steps, NlSteps
  <2>2. pc'[t] = "recv" /\ call'[t] = call[t] /\ fds'[t] = 1 /\ reply'[t] = r
    BY <1>1, <1>2, <1>4, <2>1, GoOnLemma DEF ThreadTypes
  <2>3. Shape(t)'
    BY <1>1, <1>4, <2>2 DEF Shape, ListSteps, FlagSteps, IndexSteps, NlSteps
  <2>4. r.err = "none" =>
          /\ want = "down" => DownIn(during'[t], i)
          /\ want = "up" /\ DownIn(during[t], i) => RestartedIn(during'[t], i)
          /\ want = "get" =>
               \E w \in during'[t] : w[i] # Nothing /\ r.attrs = Link(w[i])
    BY <1>1, <1>4, CarriedOut
  <2>5. CycleInv(t)'
    <3>1. call[t].op = "cycle" /\ want = "up" => DownIn(during[t], i)
      BY <1>1 DEF CycleInv
    <3> QED
      BY <2>2, <2>4, <3>1 DEF CycleInv
  <2>6. AnswerInv(t)'
    BY <2>2, <2>4 DEF AnswerInv
  <2>7. ListInv(t)'
    BY <2>2 DEF ListInv, ListSteps
  <2>8. BoreIn(during'[t], i, call[t].name)
    BY <1>1, Past DEF Found, IndexSteps, NlSteps
  <2>9. Ours(t) /\ ThreadInv(t)'
    BY <1>1, <1>2, <1>4, <2>1, <2>3, <2>5, <2>6, <2>7, <2>8, Continues
  <2> QED
    BY <1>1, <1>4, <2>9, OwnLemma
<1>5. CASE /\ KernelActs(i, want)
           /\ reply' = [reply EXCEPT ![t] = KernelAnswer(i, want)]
           /\ GoOn(t, "recv", call[t]) /\ UNCHANGED fds
  <2>1. KernelAnswer(i, want) # NoAnswer
    <3>1. KernelAnswer(i, want).err \in {"ENODEV", "none"}
      BY DEF KernelAnswer
    <3>2. NoAnswer.err = "EAGAIN"
      BY DEF NoAnswer
    <3> QED
      BY <3>1, <3>2
  <2> QED
    BY <1>4, <1>5, <2>1
<1>6. CASE /\ reply' = [reply EXCEPT ![t] = [err |-> "EPERM"]]
           /\ GoOn(t, "recv", call[t]) /\ UNCHANGED fds
  <2> DEFINE r == [err |-> "EPERM"]
  <2>1. r.err = "EPERM" /\ NoAnswer.err = "EAGAIN"
    BY DEF NoAnswer
  <2> HIDE DEF r
  <2>2. r # NoAnswer /\ r.err # "none"
    BY <2>1
  <2>3. reply' = [reply EXCEPT ![t] = r]
    BY <1>6 DEF r
  <2> QED
    BY <1>4, <1>6, <2>2, <2>3
<1> QED
  BY <1>3, <1>5, <1>6 DEF NlSend

\* An answer without an error.
LEMMA AcknowledgedStep ==
    ASSUME IInv, Watch, NEW t \in Threads, pc[t] = "recv",
           reply[t].err = "none", Acknowledged(t),
           fds'[t] = 0, reply'[t] = NoAnswer, UNCHANGED born
    PROVE  Ours(t) /\ ThreadInv(t)'
<1> DEFINE i == call[t].idx
           want == call[t].want
           n == call[t].name
<1>1. /\ ThreadTypes /\ Shape(t) /\ Found(t) /\ CycleInv(t) /\ AnswerInv(t)
      /\ SummaryInv(t)
  BY DEF IInv, ThreadInv
<1>2. /\ call[t] \in CallRecords /\ call[t].value \in Values
      /\ want \in {"get", "up", "down"}
  BY <1>1, CallTypes
<1>3. i \in Indices /\ BoreIn(during'[t], i, n)
  <2>1. i \in born /\ BoreIn(during[t], i, n)
    BY <1>1 DEF Found, Shape, IndexSteps, NlSteps
  <2>2. born \subseteq Indices
    BY DEF IInv, DeviceInv
  <2> QED
    BY <2>1, <2>2, Past
<1>4. CASE want = "get"
  <2> DEFINE raw == CanStateRaw(reply[t].attrs)
             state == IF raw = Nothing THEN Nothing ELSE FromRaw(raw)
             v == [call[t].value EXCEPT !.state = state]
  <2>1. call[t].op \in {"state", "summary"}
    BY <1>1, <1>4 DEF Shape, FlagSteps, ListSteps
  <2>2. Return(t, TRUE, v)
    BY <1>4 DEF Acknowledged
  <2>3. v.state = state /\ v.up = call[t].value.up
    BY <1>2 DEF Values
  <2>4. StateIn(during'[t], n, state)
    <3>1. PICK w \in during[t] : w[i] # Nothing /\ reply[t].attrs = Link(w[i])
      BY <1>1, <1>4 DEF AnswerInv
    <3>2. w[i] \in Devices
      BY <1>1, <1>3, <3>1 DEF ThreadTypes, Snapshots
    <3>3. StateOf(w[i]) = state
      BY <3>1, <3>2, StateTold
    <3>4. w \in during'[t]
      BY <3>1, Active
    <3> HIDE DEF state
    <3> QED
      BY <1>3, <3>1, <3>3, <3>4 DEF StateIn
  <2> HIDE DEF v, state
  <2>5. call[t].value.up # Nothing => UpIn(during'[t], n, call[t].value.up)
    BY <1>1, Past DEF SummaryInv
  <2>6. ResultOf([op |-> call[t].op, name |-> n, ok |-> TRUE, value |-> v],
                 during'[t], unread'[t])
    BY <2>1, <2>3, <2>4, <2>5 DEF ResultOf
  <2> QED
    BY <1>1, <2>2, <2>6, Ends
<1>5. CASE want = "down" /\ call[t].op = "cycle"
  <2>1. GoOn(t, "sleep", call[t]) /\ "sleep" \in Steps \ {"idle"}
    BY <1>5 DEF Acknowledged, Steps
  <2>2. pc'[t] = "sleep" /\ call'[t] = call[t]
    BY <1>1, <1>2, <2>1, GoOnLemma
  <2>3. Shape(t)'
    BY <1>1, <1>5, <2>2 DEF Shape, ListSteps, FlagSteps, IndexSteps, NlSteps
  <2>4. CycleInv(t)' /\ AnswerInv(t)' /\ ListInv(t)'
    <3>1. DownIn(during'[t], i)
      BY <1>1, <1>5, Past DEF CycleInv
    <3> QED
      BY <2>2, <3>1 DEF CycleInv, AnswerInv, ListInv, ListSteps
  <2> QED
    BY <1>2, <1>3, <2>1, <2>3, <2>4, Continues
<1>6. CASE want # "get" /\ ~(want = "down" /\ call[t].op = "cycle")
  <2>1. Return(t, TRUE, NoValue)
    BY <1>6 DEF Acknowledged
  <2>2. call[t].op \in {"set_up", "set_down", "cycle"}
    BY <1>1, <1>2, <1>6 DEF Shape
  <2>3. call[t].op = "cycle" => RestartedIn(during'[t], i)
    BY <1>1, <1>2, <1>6, Past DEF CycleInv
  <2>4. ResultOf([op |-> call[t].op, name |-> n, ok |-> TRUE,
                  value |-> NoValue], during'[t], unread'[t])
    BY <1>3, <2>2, <2>3 DEF ResultOf
  <2> QED
    BY <1>1, <2>1, <2>4, Ends
<1> QED
  BY <1>4, <1>5, <1>6

LEMMA NlRecvStep ==
    ASSUME IInv, Watch, NEW t \in Threads, NlRecv(t)
    PROVE  Own(t) /\ ThreadInv(t)'
<1>1. /\ ThreadTypes /\ Shape(t) /\ pc[t] = "recv"
      /\ fds' = [fds EXCEPT ![t] = @ - 1]
      /\ reply' = [reply EXCEPT ![t] = NoAnswer]
      /\ UNCHANGED born
  BY DEF IInv, ThreadInv, NlRecv, CloseFd, kernelVars
<1>2. fds'[t] = 0 /\ reply'[t] = NoAnswer
  BY <1>1 DEF Shape, ThreadTypes
<1>3. CASE Fail(t)
  BY <1>1, <1>2, <1>3, Fails, OwnLemma DEF ListSteps
<1>4. CASE reply[t].err = "none" /\ Acknowledged(t)
  BY <1>1, <1>2, <1>4, AcknowledgedStep, OwnLemma
<1> QED
  BY <1>3, <1>4 DEF NlRecv

LEMMA SleepStep ==
    ASSUME IInv, Watch, NEW t \in Threads, Sleep(t)
    PROVE  Own(t) /\ ThreadInv(t)'
<1> DEFINE c == [call[t] EXCEPT !.want = "up"]
<1>1. /\ ThreadTypes /\ Shape(t) /\ Found(t) /\ CycleInv(t) /\ pc[t] = "sleep"
      /\ GoOn(t, "socket", c)
      /\ UNCHANGED <<dev, born, reply, fds>>
  BY DEF IInv, ThreadInv, Sleep, kernelVars
<1>2. /\ c \in CallRecords /\ c.want = "up" /\ c.idx = call[t].idx
      /\ c.name = call[t].name /\ c.op = call[t].op
      /\ c.value = call[t].value
  BY <1>1, CallTypes DEF CallRecords
<1> HIDE DEF c
<1>3. "socket" \in Steps \ {"idle"}
  BY DEF Steps, NlSteps
<1>4. pc'[t] = "socket" /\ call'[t] = c
  BY <1>1, <1>2, <1>3, GoOnLemma
<1>5. Shape(t)'
  BY <1>1, <1>2, <1>4 DEF Shape, ListSteps, FlagSteps, IndexSteps, NlSteps
<1>6. CycleInv(t)' /\ AnswerInv(t)' /\ ListInv(t)'
  <2>1. DownIn(during'[t], c.idx)
    BY <1>1, <1>2, Past DEF CycleInv, Shape
  <2> QED
    BY <1>2, <1>4, <2>1 DEF CycleInv, AnswerInv, ListInv, ListSteps
<1>7. BoreIn(during'[t], c.idx, c.name)
  BY <1>1, <1>2, Past DEF Found, IndexSteps
<1>8. Ours(t) /\ ThreadInv(t)'
  BY <1>1, <1>2, <1>3, <1>5, <1>6, <1>7, Continues
<1> QED
  BY <1>1, <1>8, OwnLemma

\* What is_up has found out, if it was so.
LEMMA TellUpStep ==
    ASSUME IInv, Watch, NEW t \in Threads, pc[t] \in FlagSteps,
           NEW up \in {"up", "down", Nothing}, TellUp(t, up),
           UpIn(during'[t], call[t].name, up),
           UNCHANGED <<reply, fds>>
    PROVE  Own(t) /\ ThreadInv(t)'
<1> DEFINE v == [call[t].value EXCEPT !.up = up]
           c == [call[t] EXCEPT !.value = v]
<1>1. /\ ThreadTypes /\ Shape(t) /\ pc[t] # "idle" /\ pc[t] # "recv"
      /\ pc[t] \notin {"bind", "sendto"}
  BY DEF IInv, ThreadInv, FlagSteps
<1>2. fds'[t] = 0 /\ reply'[t] = NoAnswer
  BY <1>1 DEF Shape
<1>3. call[t] \in CallRecords /\ call[t].value \in Values
  BY <1>1, CallTypes
<1>4. /\ v \in Values /\ v.up = up /\ v.state = Nothing
  BY <1>1, <1>3 DEF Values, Shape
<1> HIDE DEF v
<1>5. /\ c \in CallRecords /\ c.value = v /\ c.name = call[t].name
      /\ c.op = call[t].op /\ c.want = call[t].want
  BY <1>3, <1>4 DEF CallRecords
<1> HIDE DEF c
<1>6. call[t].op \in {"is_up", "summary"}
  BY <1>1 DEF Shape
<1>7. CASE call[t].op = "is_up"
  <2>1. Return(t, TRUE, v)
    BY <1>7 DEF TellUp, v
  <2>2. ResultOf([op |-> call[t].op, name |-> call[t].name, ok |-> TRUE,
                  value |-> v], during'[t], unread'[t])
    BY <1>4, <1>7 DEF ResultOf
  <2>3. Ours(t) /\ ThreadInv(t)'
    BY <1>1, <1>2, <2>1, <2>2, Ends
  <2> QED
    BY <1>1, <2>3, OwnLemma
<1>8. CASE call[t].op = "summary"
  <2>1. GoOn(t, "index", c) /\ "index" \in Steps
    BY <1>8 DEF TellUp, c, v, Steps
  <2>2. Ours(t) /\ pc'[t] = "index" /\ call'[t] = c
    BY <1>1, <1>5, <2>1, GoOnLemma
  <2>3. Shape(t)'
    BY <1>1, <1>2, <1>4, <1>5, <1>8, <2>2
    DEF Shape, ListSteps, FlagSteps, IndexSteps, NlSteps
  <2>4. Found(t)' /\ CycleInv(t)' /\ AnswerInv(t)' /\ ListInv(t)' /\ ResultInv(t)'
    BY <1>5, <1>8, <2>2 DEF Found, CycleInv, AnswerInv, ListInv, ResultInv,
                            IndexSteps, NlSteps, ListSteps
  <2>5. SummaryInv(t)'
    BY <1>4, <1>5, <2>2 DEF SummaryInv
  <2> QED
    BY <1>1, <2>2, <2>3, <2>4, <2>5, OwnLemma DEF ThreadInv
<1> QED
  BY <1>6, <1>7, <1>8

LEMMA OpenFlagsStep ==
    ASSUME IInv, Watch, NEW t \in Threads, OpenFlags(t)
    PROVE  Own(t) /\ ThreadInv(t)'
<1>1. /\ ThreadTypes /\ Shape(t) /\ CycleInv(t) /\ pc[t] = "open_flags"
      /\ UNCHANGED <<dev, born, reply, fds>>
  BY DEF IInv, ThreadInv, OpenFlags, kernelVars
<1>2. CASE Bearers(call[t].name) = {} /\ TellUp(t, Nothing)
  <2>1. \A i \in Indices : dev[i] # Nothing => dev[i].name # call[t].name
    BY <1>2 DEF Bearers, Present
  <2>2. UpIn(during'[t], call[t].name, Nothing)
    BY <1>1, <2>1, Active DEF UpIn
  <2> QED
    BY <1>1, <1>2, <2>2, TellUpStep DEF FlagSteps
<1>3. ASSUME NEW i \in Bearers(call[t].name),
             GoOn(t, "read_flags", [call[t] EXCEPT !.idx = i])
      PROVE  Own(t) /\ ThreadInv(t)'
  <2> DEFINE c == [call[t] EXCEPT !.idx = i]
  <2>1. /\ i \in Indices /\ dev[i] # Nothing /\ dev[i].name = call[t].name
        /\ i \in born
    BY DeviceTypes DEF Bearers, Present, IInv
  <2>2. /\ c \in CallRecords /\ c.idx = i /\ c.name = call[t].name
        /\ c.op = call[t].op /\ c.want = call[t].want
        /\ c.value = call[t].value
    BY <1>1, <2>1, CallTypes DEF CallRecords
  <2> HIDE DEF c
  <2>3. "read_flags" \in Steps \ {"idle"}
    BY DEF Steps, FlagSteps
  <2>4. pc'[t] = "read_flags" /\ call'[t] = c
    BY <1>1, <1>3, <2>2, <2>3, GoOnLemma DEF c
  <2>5. BoreIn(during'[t], i, call[t].name)
    BY <1>1, <2>1, Active DEF BoreIn
  <2>6. Shape(t)'
    BY <1>1, <2>1, <2>2, <2>4 DEF Shape, ListSteps, FlagSteps, IndexSteps, NlSteps
  <2>7. CycleInv(t)' /\ AnswerInv(t)' /\ ListInv(t)'
    BY <2>4 DEF CycleInv, AnswerInv, ListInv, ListSteps
  <2>8. Ours(t) /\ ThreadInv(t)'
    BY <1>1, <1>3, <2>2, <2>3, <2>5, <2>6, <2>7, Continues DEF c
  <2> QED
    BY <1>1, <2>8, OwnLemma
<1>4. CASE Fail(t)
  <2>1. fds'[t] = 0 /\ reply'[t] = NoAnswer
    BY <1>1 DEF Shape
  <2> QED
    BY <1>1, <1>4, <2>1, Fails, OwnLemma DEF ListSteps
<1> QED
  BY <1>2, <1>3, <1>4 DEF OpenFlags

LEMMA ReadFlagsStep ==
    ASSUME IInv, Watch, NEW t \in Threads, ReadFlags(t)
    PROVE  Own(t) /\ ThreadInv(t)'
<1> DEFINE i == call[t].idx
           up == IF dev[i].up THEN "up" ELSE "down"
<1>1. /\ DeviceInv /\ ThreadTypes /\ Shape(t) /\ Found(t) /\ pc[t] = "read_flags"
      /\ UNCHANGED <<dev, born, reply, fds>>
  BY DEF IInv, ThreadInv, ReadFlags, kernelVars
<1>2. fds'[t] = 0 /\ reply'[t] = NoAnswer
  BY <1>1 DEF Shape
<1>3. CASE Fail(t)
  BY <1>1, <1>2, <1>3, Fails, OwnLemma DEF ListSteps
<1>4. CASE dev[i] # Nothing /\ TellUp(t, up)
  <2>1. i \in Indices
    BY <1>1 DEF Shape, IndexSteps, DeviceInv
  <2>2. dev[i].up \in BOOLEAN
    BY <1>1, <1>4, <2>1, DeviceTypes DEF Devices
  <2>3. up \in {"up", "down"} /\ up # Nothing
    BY NothingAssumption
  <2>4. dev[i].up = (up = "up")
    <3>1. CASE dev[i].up
      BY <2>2, <3>1
    <3>2. CASE ~dev[i].up
      BY <2>2, <3>2
    <3> QED
      BY <3>1, <3>2
  <2>5. BoreIn(during'[t], i, call[t].name) /\ dev \in during'[t]
    BY <1>1, Active, Past DEF Found, IndexSteps
  <2> HIDE DEF up
  <2>6. UpIn(during'[t], call[t].name, up)
    BY <1>4, <2>1, <2>3, <2>4, <2>5, Zenon DEF UpIn
  <2> QED
    BY <1>1, <1>4, <2>3, <2>6, TellUpStep DEF FlagSteps
<1> QED
  BY <1>3, <1>4 DEF ReadFlags

LEMMA ReadDirStep ==
    ASSUME IInv, Watch, NEW t \in Threads, ReadDir(t)
    PROVE  Own(t) /\ ThreadInv(t)'
<1> DEFINE c == [call[t] EXCEPT !.todo = {dev[i].name : i \in Present}]
<1>1. pc[t] = "read_dir" /\ UNCHANGED <<dev, born, reply, fds>>
  BY DEF ReadDir, kernelVars
<1>2. CASE Fault /\ Fail(t)
  BY <1>1, <1>2, ListFails DEF ListSteps
<1>3. CASE GoOn(t, "exists", c)
  <2>1. /\ DeviceInv /\ ThreadTypes /\ Shape(t) /\ ListInv(t) /\ pc[t] = "read_dir"
        /\ GoOn(t, "exists", c)
        /\ UNCHANGED <<dev, born, reply, fds>>
    BY <1>1, <1>3 DEF IInv, ThreadInv
  <2>2. \A i \in Present : dev[i].name \in Names
    BY <2>1, DeviceTypes DEF Present, Devices
  <2>3. /\ c \in CallRecords /\ c.todo = {dev[i].name : i \in Present}
        /\ c.name = call[t].name /\ c.op = call[t].op /\ c.want = call[t].want
        /\ c.value = call[t].value
    BY <2>1, <2>2, CallTypes DEF CallRecords
  <2> HIDE DEF c
  <2>4. "exists" \in Steps \ {"idle"} /\ "exists" \notin IndexSteps
    BY DEF Steps, ListSteps, IndexSteps, NlSteps
  <2>5. pc'[t] = "exists" /\ call'[t] = c
    BY <2>1, <2>3, <2>4, GoOnLemma
  <2>6. Shape(t)'
    BY <2>1, <2>3, <2>5 DEF Shape, ListSteps, FlagSteps, IndexSteps, NlSteps
  <2>7. CycleInv(t)' /\ AnswerInv(t)'
    BY <2>5 DEF CycleInv, AnswerInv
  <2>8. ListInv(t)'
    <3>1. \A n \in c.value.list : \E w \in during'[t] : CanBear(w, n)
      BY <2>1, <2>3, Active DEF ListInv, ListSteps
    <3>2. ASSUME NEW n \in Names, \A w \in during'[t] : CanBear(w, n)
          PROVE  n \in c.todo
      <4>1. CanBear(dev, n)
        BY <2>1, <3>2, Active
      <4> QED
        BY <2>3, <4>1 DEF CanBear, Present
    <3> QED
      BY <2>5, <3>1, <3>2 DEF ListInv
  <2>9. Ours(t) /\ ThreadInv(t)'
    BY <2>1, <2>3, <2>4, <2>6, <2>7, <2>8, Continues
  <2> QED
    BY <2>1, <2>9, OwnLemma
<1> QED
  BY <1>2, <1>3 DEF ReadDir

LEMMA ExistsStep ==
    ASSUME IInv, Watch, NEW t \in Threads, Exists(t)
    PROVE  Own(t) /\ ThreadInv(t)'
<1>1. /\ ThreadTypes /\ Shape(t) /\ ListInv(t) /\ pc[t] = "exists"
      /\ UNCHANGED <<dev, born, reply, fds>>
  BY DEF IInv, ThreadInv, Exists, kernelVars
<1>2. /\ fds'[t] = 0 /\ reply'[t] = NoAnswer /\ call[t].op = "list"
      /\ call[t].value.up = Nothing
  BY <1>1 DEF Shape, ListSteps
<1>3. /\ \A n \in call[t].value.list : \E w \in during'[t] : CanBear(w, n)
      /\ \A n \in Names : (\A w \in during'[t] : CanBear(w, n)) =>
           n \in call[t].todo \cup call[t].value.list \cup unread[t]
      /\ unread[t] \subseteq unread'[t]
  BY <1>1, Active DEF ListInv, ListSteps
<1>4. CASE call[t].todo = {} /\ Return(t, TRUE, call[t].value)
  <2>1. ResultOf([op |-> call[t].op, name |-> call[t].name, ok |-> TRUE,
                  value |-> call[t].value], during'[t], unread'[t])
    BY <1>2, <1>3, <1>4 DEF ResultOf
  <2>2. Ours(t) /\ ThreadInv(t)'
    BY <1>1, <1>2, <1>4, <2>1, Ends
  <2> QED
    BY <1>1, <2>2, OwnLemma
<1>5. ASSUME NEW n \in call[t].todo, NEW step \in {"exists", "read_type"},
             GoOn(t, step, [call[t] EXCEPT !.todo = @ \ {n}, !.name = n]),
             \/ step = "exists" /\ (Bearers(n) = {} \/ Fault)
             \/ step = "read_type"
      PROVE  Own(t) /\ ThreadInv(t)'
  <2> DEFINE c == [call[t] EXCEPT !.todo = @ \ {n}, !.name = n]
  <2>1. n \in Names
    BY <1>1, CallTypes
  <2>2. /\ c \in CallRecords /\ c.todo = call[t].todo \ {n} /\ c.name = n
        /\ c.op = call[t].op /\ c.want = call[t].want
        /\ c.value = call[t].value
    BY <1>1, <2>1, CallTypes DEF CallRecords
  <2> HIDE DEF c
  <2>3. step \in Steps /\ step \in ListSteps
    BY DEF Steps, ListSteps
  <2>4. Ours(t) /\ pc'[t] = step /\ call'[t] = c
    BY <1>1, <1>5, <2>2, <2>3, GoOnLemma DEF c
  <2>5. Shape(t)'
    BY <1>1, <1>2, <2>1, <2>2, <2>3, <2>4
    DEF Shape, ListSteps, FlagSteps, IndexSteps, NlSteps
  <2>6. Found(t)' /\ CycleInv(t)' /\ AnswerInv(t)' /\ SummaryInv(t)' /\ ResultInv(t)'
    BY <1>2, <2>2, <2>3, <2>4 DEF Found, CycleInv, AnswerInv, SummaryInv,
                                  ResultInv, IndexSteps, NlSteps
  <2>7. ASSUME NEW m \in Names, \A w \in during'[t] : CanBear(w, m)
        PROVE  \/ step = "read_type" /\ m = n
               \/ m \in c.todo \cup c.value.list \cup unread'[t]
    <3>1. CanBear(dev, m)
      BY <1>1, <2>7, Active
    <3>2. Bearers(m) # {}
      BY <3>1 DEF CanBear, Bearers, Present
    <3>3. Fault => n \in unread'[t]
      <4>1. call'[t] # call[t] /\ pc'[t] # "idle" /\ call'[t].name = n
        BY <2>2, <2>4
      <4> QED
        BY <1>1, <4>1, MissedLemma DEF ListSteps
    <3> QED
      BY <1>3, <1>5, <2>2, <2>7, <3>2, <3>3
  <2>8. ListInv(t)'
    BY <1>3, <2>2, <2>4, <2>7 DEF ListInv
  <2> QED
    BY <1>1, <2>4, <2>5, <2>6, <2>8, OwnLemma DEF ThreadInv
<1>6. CASE Fault /\ Fail(t)
  BY <1>1, <1>6, ListFails DEF ListSteps
<1> QED
  BY <1>4, <1>5, <1>6 DEF Exists

LEMMA ReadTypeStep ==
    ASSUME IInv, Watch, NEW t \in Threads, ReadType(t)
    PROVE  Own(t) /\ ThreadInv(t)'
<1>1. pc[t] = "read_type" /\ UNCHANGED <<dev, born, reply, fds>>
  BY DEF ReadType, kernelVars
<1>2. CASE GoOn(t, "exists", Listed(t))
  <2> DEFINE n == call[t].name
             list == IF IsCan(n) THEN call[t].value.list \cup {n}
                     ELSE call[t].value.list
             c == Listed(t)
  <2>1. /\ ThreadTypes /\ Shape(t) /\ ListInv(t) /\ pc[t] = "read_type"
        /\ GoOn(t, "exists", c)
        /\ UNCHANGED <<dev, born, reply, fds>> /\ unread[t] \subseteq unread'[t]
    BY <1>1, <1>2, Active DEF IInv, ThreadInv
  <2>2. n \in Names
    BY <2>1 DEF Shape
  <2>3. /\ c \in CallRecords /\ c.todo = call[t].todo /\ c.name = n
        /\ c.op = call[t].op /\ c.want = call[t].want
        /\ c.value.list = list /\ c.value.up = call[t].value.up
        /\ c.value.state = call[t].value.state
    <3> DEFINE v == [call[t].value EXCEPT !.list = list]
    <3>1. call[t] \in CallRecords /\ call[t].value \in Values
      BY <2>1, CallTypes
    <3>2. list \subseteq Names
      BY <2>2, <3>1 DEF Values
    <3>3. c = [call[t] EXCEPT !.value = v]
      BY DEF Listed
    <3> HIDE DEF list, c
    <3>4. /\ v \in Values /\ v.list = list /\ v.up = call[t].value.up
          /\ v.state = call[t].value.state
      BY <3>1, <3>2 DEF Values
    <3> HIDE DEF v
    <3> QED
      BY <3>1, <3>3, <3>4 DEF CallRecords
  <2> HIDE DEF c
  <2>4. "exists" \in Steps \ {"idle"} /\ "exists" \notin IndexSteps
    BY DEF Steps, ListSteps, IndexSteps, NlSteps
  <2>5. pc'[t] = "exists" /\ call'[t] = c
    BY <2>1, <2>3, <2>4, GoOnLemma
  <2>6. Shape(t)'
    BY <2>1, <2>3, <2>5 DEF Shape, ListSteps, FlagSteps, IndexSteps, NlSteps
  <2>7. CycleInv(t)' /\ AnswerInv(t)'
    BY <2>5 DEF CycleInv, AnswerInv
  <2>8. IsCan(n) <=> CanBear(dev, n)
    BY DEF IsCan, CanBear, Bearers, Present
  <2>9. ListInv(t)'
    <3>1. \A m \in list : \E w \in during'[t] : CanBear(w, m)
      <4>1. \A m \in call[t].value.list : \E w \in during'[t] : CanBear(w, m)
        BY <2>1, Active DEF ListInv, ListSteps
      <4>2. IsCan(n) => \E w \in during'[t] : CanBear(w, n)
        BY <2>1, <2>8, Active
      <4> QED
        BY <4>1, <4>2
    <3>2. ASSUME NEW m \in Names, \A w \in during'[t] : CanBear(w, m)
          PROVE  m \in call[t].todo \cup list \cup unread'[t]
      <4>1. m = n \/ m \in call[t].todo \cup call[t].value.list \cup unread[t]
        BY <2>1, <3>2, Active DEF ListInv, ListSteps
      <4>2. CanBear(dev, m)
        BY <2>1, <3>2, Active
      <4> QED
        BY <2>1, <2>8, <4>1, <4>2
    <3> HIDE DEF list
    <3> QED
      BY <2>3, <2>5, <3>1, <3>2 DEF ListInv
  <2>10. Ours(t) /\ ThreadInv(t)'
    BY <2>1, <2>3, <2>4, <2>6, <2>7, <2>9, Continues
  <2> QED
    BY <2>1, <2>10, OwnLemma
<1>3. CASE Fault /\ GoOn(t, "exists", call[t])
  <2>1. /\ ThreadTypes /\ Shape(t) /\ ListInv(t) /\ call[t] \in CallRecords
    BY CallTypes DEF IInv, ThreadInv
  <2>2. "exists" \in Steps \ {"idle"} /\ "exists" \notin IndexSteps
    BY DEF Steps, ListSteps, IndexSteps, NlSteps
  <2>3. pc'[t] = "exists" /\ call'[t] = call[t]
    BY <1>3, <2>1, <2>2, GoOnLemma
  <2>4. Shape(t)'
    BY <1>1, <2>1, <2>3 DEF Shape, ListSteps, FlagSteps, IndexSteps, NlSteps
  <2>5. CycleInv(t)' /\ AnswerInv(t)'
    BY <2>3 DEF CycleInv, AnswerInv
  <2>6. unread'[t] = unread[t] \cup {call[t].name}
    BY <1>1, <1>3, <2>3, MissedLemma DEF ListSteps
  <2>7. ListInv(t)'
    <3>1. /\ \A n \in call[t].value.list : \E w \in during[t] : CanBear(w, n)
          /\ \A n \in Names : (\A w \in during[t] : CanBear(w, n)) =>
               \/ n = call[t].name
               \/ n \in call[t].todo \cup call[t].value.list \cup unread[t]
      BY <1>1, <2>1 DEF ListInv, ListSteps
    <3>2. during[t] \subseteq during'[t]
      BY <1>1, Active
    <3> QED
      BY <2>3, <2>6, <3>1, <3>2 DEF ListInv
  <2>8. Ours(t) /\ ThreadInv(t)'
    BY <1>1, <1>3, <2>1, <2>2, <2>4, <2>5, <2>7, Continues
  <2> QED
    BY <1>1, <2>1, <2>8, OwnLemma
<1> QED
  BY <1>2, <1>3 DEF ReadType

\* The step of a call, with what it does to the devices.
LEMMA OwnStep ==
    ASSUME IInv, Watch, NEW t \in Threads, Step(t)
    PROVE  Own(t) /\ ThreadInv(t)'
BY BeginStep, IndexStep, NlSocketStep, NlBindStep, NlSendStep, NlRecvStep,
   SleepStep, OpenFlagsStep, ReadFlagsStep, ReadDirStep, ExistsStep,
   ReadTypeStep DEF Step

LEMMA DevicesFrame ==
    ASSUME NEW t \in Threads, Step(t), ~NlSend(t)
    PROVE  UNCHANGED <<dev, born>>
BY DEF Step, Begin, Index, NlSocket, NlBind, NlRecv, Sleep, OpenFlags,
       ReadFlags, ReadDir, Exists, ReadType, kernelVars

LEMMA SendDevices ==
    ASSUME IInv, NEW t \in Threads, NlSend(t)
    PROVE  /\ call[t].idx \in Indices /\ born' = born
           /\ dev' = dev \/ KernelActs(call[t].idx, call[t].want)
<1>1. Shape(t) /\ DeviceInv /\ pc[t] = "sendto"
  BY DEF IInv, ThreadInv, NlSend
<1>2. call[t].idx \in Indices
  BY <1>1 DEF Shape, IndexSteps, NlSteps, DeviceInv
<1> QED
  BY <1>2 DEF NlSend

LEMMA NextLater ==
    ASSUME IInv, Next
    PROVE  Later
<1>1. DeviceInv
  BY DEF IInv
<1>2. ASSUME NEW t \in Threads, Step(t) PROVE Later
  <2>1. CASE NlSend(t)
    BY <1>1, <2>1, SendDevices, DevicesStay, KernelActsStep
  <2>2. CASE ~NlSend(t)
    BY <1>1, <1>2, <2>2, DevicesFrame, DevicesStay
  <2> QED
    BY <2>1, <2>2
<1> QED
  BY <1>1, <1>2, PlugStep, UnplugStep, RenameStep, BusOffStep DEF Next

\* Faults are counted.
LEMMA FaultsCounted ==
    ASSUME faults \in Nat, Next
    PROVE  faults' \in Nat
<1>1. ASSUME NEW t \in Threads, Step(t) PROVE faults' \in Nat
  <2>1. CASE Begin(t) \/ Sleep(t)
    BY <2>1 DEF Begin, Sleep
  <2>2. ASSUME Fault \/ NoFault PROVE faults' \in Nat
    BY <2>2 DEF Fault, NoFault
  <2>3. CASE \/ Index(t) \/ NlSocket(t) \/ NlBind(t) \/ NlSend(t) \/ NlRecv(t)
    BY <2>2, <2>3 DEF Index, NlSocket, NlBind, NlSend, NlRecv
  <2>4. CASE OpenFlags(t) \/ ReadFlags(t)
    BY <2>2, <2>4 DEF OpenFlags, ReadFlags
  <2>5. CASE ReadDir(t) \/ Exists(t) \/ ReadType(t)
    BY <2>2, <2>5 DEF ReadDir, Exists, ReadType
  <2> QED
    BY <1>1, <2>1, <2>3, <2>4, <2>5 DEF Step
<1> QED
  BY <1>1 DEF Next, Plug, Unplug, Rename, BusOff, Event

-----------------------------------------------------------------------------
(* Devices that were up at first.                                          *)

\* A call that is to set a device up again goes on with it, or mars the record.
LEMMA ObligedStays ==
    ASSUME IInv, NEW t \in Threads, Step(t), NEW i, Obliged(t, i), ~marred',
           ~NlSend(t)
    PROVE  Obliged(t, i)'
<1>1. /\ ThreadTypes /\ Shape(t) /\ call[t] \in CallRecords
      /\ call[t].op \in {"cycle", "set_down"} /\ call[t].idx = i
  BY CallTypes DEF IInv, ThreadInv, Obliged
<1>2. ~Fail(t)
  BY <1>1, ReturnLemma DEF Fail
<1>3. CASE NlSocket(t)
  <2>1. pc[t] = "socket" /\ GoOn(t, "bind", call[t]) /\ "bind" \in Steps
    BY <1>2, <1>3 DEF NlSocket, Steps, NlSteps
  <2>2. pc'[t] = "bind" /\ call'[t] = call[t]
    BY <1>1, <2>1, GoOnLemma
  <2> QED
    BY <2>1, <2>2 DEF Obliged
<1>4. CASE NlBind(t)
  <2>1. pc[t] = "bind" /\ GoOn(t, "sendto", call[t]) /\ "sendto" \in Steps
    BY <1>2, <1>4 DEF NlBind, Steps, NlSteps
  <2>2. pc'[t] = "sendto" /\ call'[t] = call[t]
    BY <1>1, <2>1, GoOnLemma
  <2> QED
    BY <2>1, <2>2 DEF Obliged
<1>5. CASE NlRecv(t)
  <2>1. pc[t] = "recv" /\ reply[t].err = "none" /\ Acknowledged(t)
    BY <1>2, <1>5 DEF NlRecv
  <2>2. call[t].want = "down"
    BY <2>1 DEF Obliged
  <2>3. CASE call[t].op = "set_down"
    <3>1. Return(t, TRUE, NoValue)
      BY <2>1, <2>2, <2>3 DEF Acknowledged
    <3> QED
      BY <1>1, <2>3, <3>1, ReturnLemma
  <2>4. CASE call[t].op = "cycle"
    <3>1. GoOn(t, "sleep", call[t]) /\ "sleep" \in Steps
      BY <2>1, <2>2, <2>4 DEF Acknowledged, Steps
    <3>2. pc'[t] = "sleep" /\ call'[t] = call[t]
      BY <1>1, <3>1, GoOnLemma
    <3> QED
      BY <3>2 DEF Obliged
  <2> QED
    BY <1>1, <2>3, <2>4
<1>6. CASE Sleep(t)
  <2> DEFINE c == [call[t] EXCEPT !.want = "up"]
  <2>1. GoOn(t, "socket", c) /\ "socket" \in Steps
    BY <1>6 DEF Sleep, Steps, NlSteps
  <2>2. /\ c \in CallRecords /\ c.want = "up" /\ c.idx = call[t].idx
        /\ c.op = call[t].op
    BY <1>1 DEF CallRecords
  <2> HIDE DEF c
  <2>3. pc'[t] = "socket" /\ call'[t] = c
    BY <1>1, <2>1, <2>2, GoOnLemma
  <2> QED
    BY <2>2, <2>3 DEF Obliged
<1>7. pc[t] \in {"recv", "sleep", "socket", "bind", "sendto"}
  BY DEF Obliged
<1>8. \/ NlSocket(t) \/ NlBind(t) \/ NlRecv(t) \/ Sleep(t)
  BY <1>7 DEF Step, Begin, Index, OpenFlags, ReadFlags, ReadDir, Exists,
              ReadType
<1> QED
  BY <1>3, <1>4, <1>5, <1>6, <1>8

\* The request of a call: device i is up after it, or the call is obliged.
LEMMA SendEndUp ==
    ASSUME IInv, Later, NEW t \in Threads, NlSend(t), ~marred', Own(t),
           NEW i \in Indices, dev[i] # Nothing,
           dev[i].up \/ \E u \in Threads : Obliged(u, i)
    PROVE  dev'[i].up \/ \E u \in Threads : Obliged(u, i)'
<1> DEFINE j == call[t].idx
           want == call[t].want
<1>1. /\ DeviceInv /\ ThreadTypes /\ Shape(t) /\ pc[t] = "sendto"
      /\ call[t] \in CallRecords /\ want \in {"get", "up", "down"}
      /\ dev[i] \in Devices
  BY CallTypes, DeviceTypes DEF IInv, ThreadInv, NlSend
<1>2. CASE KernelActs(j, want) /\ dev[j] # Nothing /\ want # "get" /\ i = j
  <2>1. dev'[i] = IF want = "up" THEN SetUp(dev[i]) ELSE SetDown(dev[i])
    BY <1>1, <1>2 DEF KernelActs, DeviceInv, Snapshots
  <2>2. CASE want = "up"
    BY <1>1, <2>1, <2>2, SetLemma
  <2>3. CASE want = "down"
    <3>1. call[t].op \in {"set_down", "cycle"}
      BY <1>1, <2>3 DEF Shape
    <3>2. ~Fail(t)
      BY <1>1, <3>1, ReturnLemma DEF Fail
    <3>3. GoOn(t, "recv", call[t]) /\ "recv" \in Steps
      BY <3>2 DEF NlSend, Steps, NlSteps
    <3>4. pc'[t] = "recv" /\ call'[t] = call[t]
      BY <1>1, <3>3, GoOnLemma
    <3>5. Obliged(t, i)'
      BY <1>2, <2>3, <3>1, <3>4 DEF Obliged
    <3> QED
      BY <3>5
  <2> QED
    BY <1>1, <1>2, <2>2, <2>3
<1>3. CASE dev'[i] = dev[i]
  <2>1. ASSUME NEW u \in Threads, Obliged(u, i), u # t PROVE Obliged(u, i)'
    BY <2>1 DEF Own, Stays, Obliged
  <2>2. ASSUME Obliged(t, i), ~(KernelActs(j, want) /\ dev[j] # Nothing /\ want # "get")
        PROVE  Obliged(t, i)'
    <3>1. /\ call[t].op \in {"set_down", "cycle"} /\ i = j
          /\ want = "up"
      BY <1>1, <2>2 DEF Obliged
    <3>2. ~Fail(t)
      BY <1>1, <3>1, ReturnLemma DEF Fail
    <3>3. /\ GoOn(t, "recv", call[t]) /\ "recv" \in Steps
          /\ reply' = [reply EXCEPT ![t] = [err |-> "EPERM"]]
      BY <2>2, <3>1, <3>2 DEF NlSend, Steps, NlSteps
    <3>4. pc'[t] = "recv" /\ call'[t] = call[t] /\ reply'[t].err = "EPERM"
      BY <1>1, <3>3, GoOnLemma DEF ThreadTypes
    <3> QED
      BY <2>2, <3>4 DEF Obliged
  <2>3. i # j => ~Obliged(t, i)
    BY DEF Obliged
  <2> QED
    BY <1>2, <1>3, <2>1, <2>2, <2>3
<1>4. \/ dev'[i] = dev[i]
      \/ KernelActs(j, want) /\ dev[j] # Nothing /\ want # "get" /\ i = j
  BY <1>1, SendDevices DEF KernelActs, DeviceInv, Snapshots
<1> QED
  BY <1>2, <1>3, <1>4

\* No device is set down but by a call.
LEMMA EventUp ==
    ASSUME DeviceInv, Plug \/ Unplug \/ Rename \/ BusOff,
           NEW i \in Indices, dev[i] # Nothing, dev'[i] # Nothing
    PROVE  dev'[i].up = dev[i].up
<1>1. dev[i] \in Devices /\ i \in born
  BY DeviceTypes
<1>2. DOMAIN dev = Indices
  BY DEF DeviceInv, Snapshots
<1>3. CASE Plug
  BY <1>1, <1>2, <1>3 DEF Plug
<1>4. CASE Unplug
  BY <1>2, <1>4 DEF Unplug, Present
<1>5. CASE Rename
  BY <1>1, <1>2, <1>5 DEF Rename, Present, Devices
<1>6. CASE BusOff
  BY <1>1, <1>2, <1>6 DEF BusOff, Present, Devices
<1> QED
  BY <1>3, <1>4, <1>5, <1>6

LEMMA EndUpStep ==
    ASSUME IInv, Next
    PROVE  EndUpInv'
<1> SUFFICES ASSUME ~marred', NEW i \in DOMAIN Initial, i \in Present',
                    Initial[i].up
             PROVE  dev'[i].up \/ \E u \in Threads : Obliged(u, i)'
  BY DEF EndUpInv
<1>1. Later /\ DeviceInv /\ ThreadTypes
  BY NextLater DEF IInv
<1>2. i \in Indices /\ i \in born /\ dev'[i] # Nothing
  BY <1>1 DEF DeviceInv, Present
<1>3. dev[i] # Nothing
  BY <1>1, <1>2 DEF Later
<1>4. ~marred => dev[i].up \/ \E u \in Threads : Obliged(u, i)
  BY <1>2, <1>3 DEF IInv, EndUpInv, Present
<1>5. CASE Plug \/ Unplug \/ Rename \/ BusOff
  <2>1. UNCHANGED <<pc, call, reply, marred>>
    BY <1>5 DEF Plug, Unplug, Rename, BusOff, Event, callVars
  <2>2. dev'[i].up = dev[i].up
    BY <1>1, <1>2, <1>3, <1>5, EventUp
  <2> QED
    BY <1>4, <2>1, <2>2 DEF Obliged
<1>6. ASSUME NEW t \in Threads, Step(t)
      PROVE  dev'[i].up \/ \E u \in Threads : Obliged(u, i)'
  <2>1. Own(t) /\ ~marred
    <3>1. Own(t)
      BY <1>6, OwnStep DEF Next
    <3>2. marred => marred'
      BY <1>6 DEF Step, Begin, Index, NlSocket, NlBind, NlSend, NlRecv, Sleep,
                  OpenFlags, ReadFlags, ReadDir, Exists, ReadType, Fail,
                  Acknowledged, TellUp, Return, GoOn
    <3> QED
      BY <3>1, <3>2
  <2>2. CASE NlSend(t)
    BY <1>1, <1>2, <1>3, <1>4, <2>1, <2>2, SendEndUp
  <2>3. CASE ~NlSend(t)
    <3>1. UNCHANGED dev
      BY <1>6, <2>3, DevicesFrame
    <3>2. ASSUME NEW u \in Threads, Obliged(u, i) PROVE Obliged(u, i)'
      <4>1. CASE u = t
        BY <1>6, <2>3, <3>2, <4>1, ObligedStays
      <4>2. CASE u # t
        BY <2>1, <3>2, <4>2 DEF Own, Stays, Obliged
      <4> QED
        BY <4>1, <4>2
    <3> QED
      BY <1>4, <2>1, <3>1, <3>2
  <2> QED
    BY <2>2, <2>3
<1> QED
  BY <1>5, <1>6 DEF Next

-----------------------------------------------------------------------------
(* The theorems.                                                           *)

LEMMA InitInv == Init => IInv
<1> SUFFICES ASSUME Init PROVE IInv
  OBVIOUS
<1>1. /\ \A i \in Indices : dev[i] = IF i \in DOMAIN Initial THEN Initial[i]
                                     ELSE Nothing
      /\ born = DOMAIN Initial /\ born \subseteq Indices
      /\ \A i \in DOMAIN Initial : Initial[i] \in Devices /\ Initial[i] # Nothing
  BY InitialAssumption, NothingAssumption DEF Init
<1>2. DeviceInv
  <2>1. dev \in Snapshots
    BY <1>1 DEF Init, Snapshots
  <2>2. Present = DOMAIN Initial
    BY <1>1 DEF Present
  <2>3. \A i, j \in Present : dev[i].name = dev[j].name => i = j
    BY <1>1, <2>2, InitialAssumption
  <2> QED
    BY <1>1, <2>1, <2>2, <2>3 DEF DeviceInv
<1>3. ThreadTypes
  <2>1. pc \in [Threads -> Steps] /\ call \in [Threads -> CallRecords]
    BY NoCallType DEF Init, Steps
  <2>2. /\ DOMAIN reply = Threads /\ DOMAIN result = Threads
        /\ fds \in [Threads -> Int]
    BY DEF Init
  <2>4. marred \in BOOLEAN
    BY Zenon DEF Init
  <2>3. during \in [Threads -> SUBSET Snapshots]
    BY DEF Init
  <2> QED
    BY <2>1, <2>2, <2>3, <2>4 DEF ThreadTypes
<1>4. HistoryInv
  BY DEF Init, HistoryInv
<1>5. ASSUME NEW t \in Threads PROVE ThreadInv(t)
  <2>1. /\ pc[t] = "idle" /\ call[t] = NoCall /\ call[t].op = "none"
        /\ reply[t] = NoAnswer /\ fds[t] = 0 /\ result[t] = NoResult
        /\ result[t].op = "none"
    BY NoCallType DEF Init, NoResult
  <2>2. Shape(t)
    BY <2>1 DEF Shape, ListSteps, FlagSteps, IndexSteps, NlSteps
  <2>3. Found(t) /\ CycleInv(t) /\ AnswerInv(t) /\ SummaryInv(t) /\ ListInv(t)
    BY <2>1 DEF Found, CycleInv, AnswerInv, SummaryInv, ListInv, ListSteps,
                IndexSteps, NlSteps
  <2>4. ResultInv(t)
    BY <2>1 DEF ResultInv, ResultOf
  <2> QED
    BY <2>2, <2>3, <2>4 DEF ThreadInv
<1>6. EndUpInv
  BY <1>1 DEF EndUpInv
<1>7. faults \in Nat
  BY DEF Init
<1> QED
  BY <1>2, <1>3, <1>4, <1>5, <1>6, <1>7 DEF IInv

LEMMA NextInv == IInv /\ [Next]_vars => IInv'
<1> SUFFICES ASSUME IInv, [Next]_vars PROVE IInv'
  OBVIOUS
<1>1. CASE UNCHANGED vars
  <2>1. UNCHANGED <<dev, born, pc, call, reply, fds, result, during, marred,
                    unread, faults>>
    BY <1>1 DEF vars, kernelVars, callVars
  <2>2. Later
    BY <2>1, DevicesStay DEF IInv
  <2>3. \A u \in Threads : ThreadInv(u)'
    BY <2>1, StaysLemma DEF IInv, Stays
  <2> QED
    BY <2>1, <2>2, <2>3
    DEF IInv, Later, ThreadTypes, HistoryInv, EndUpInv, Obliged, Present
<1>2. CASE Next
  <2>1. Later /\ Watch /\ DeviceInv /\ ThreadTypes /\ HistoryInv
    BY <1>2, NextLater DEF IInv, Next
  <2>6. faults' \in Nat
    BY <1>2, FaultsCounted DEF IInv
  <2>2. DeviceInv' /\ born \subseteq born'
    BY <2>1 DEF Later
  <2>3. HistoryInv' /\ during' \in [Threads -> SUBSET Snapshots]
    BY <2>1, HistoryStep
  <2>4. CASE Plug \/ Unplug \/ Rename \/ BusOff
    <3>1. UNCHANGED <<pc, call, reply, fds, result, marred>>
      BY <2>4 DEF Plug, Unplug, Rename, BusOff, Event, callVars
    <3>2. \A u \in Threads : ThreadInv(u)'
      BY <2>1, <2>2, <3>1, StaysLemma DEF IInv, Stays
    <3>3. ThreadTypes'
      BY <2>1, <2>3, <3>1 DEF ThreadTypes
    <3> QED
      BY <1>2, <2>2, <2>3, <2>6, <3>2, <3>3, EndUpStep DEF IInv
  <2>5. ASSUME NEW t \in Threads, Step(t) PROVE IInv'
    <3>1. Own(t) /\ ThreadInv(t)'
      BY <2>1, <2>5, OwnStep
    <3>2. \A u \in Threads \ {t} : ThreadInv(u)'
      BY <2>1, <2>2, <3>1, StaysLemma DEF IInv, Own
    <3>3. ThreadTypes'
      BY <2>3, <3>1 DEF ThreadTypes, Own
    <3> QED
      BY <1>2, <2>2, <2>3, <2>6, <3>1, <3>2, <3>3, EndUpStep DEF IInv
  <2> QED
    BY <1>2, <2>4, <2>5 DEF Next
<1> QED
  BY <1>1, <1>2

\* The inductive invariant holds in every reachable state.
THEOREM InterfaceInvariant == Spec => []IInv
  BY InitInv, NextInv, PTL DEF Spec

\* No two devices bear one name, a request is made with an index that was given
\* out, and a call has its one netlink socket open exactly between socket() and
\* the end of the request, wherever it fails.
THEOREM TypeCorrect == Spec => []TypeOK
<1>1. IInv => TypeOK
  <2> SUFFICES ASSUME IInv PROVE TypeOK
    OBVIOUS
  <2>1. DeviceInv /\ ThreadTypes /\ \A t \in Threads : Shape(t)
    BY DEF IInv, ThreadInv
  <2>2. ASSUME NEW n \in Names PROVE Cardinality(Bearers(n)) <= 1
    <3>1. CASE Bearers(n) = {}
      BY <3>1, FS_EmptySet
    <3>2. ASSUME NEW i \in Bearers(n) PROVE Cardinality(Bearers(n)) <= 1
      <4>1. Bearers(n) = {i}
        BY <2>1, <3>2 DEF Bearers, DeviceInv
      <4>2. Cardinality({i}) = 1
        BY FS_Singleton
      <4> QED
        BY <4>1, <4>2
    <3> QED
      BY <3>1, <3>2
  <2>3. ASSUME NEW t \in Threads
        PROVE  /\ pc[t] \in {"socket", "bind", "sendto", "recv", "sleep",
                             "read_flags"} => call[t].idx \in born
               /\ pc[t] = "recv" <=> reply[t] # NoAnswer
               /\ fds[t] = IF pc[t] \in {"bind", "sendto", "recv"} THEN 1 ELSE 0
               /\ pc[t] \in {"exists", "read_type"} => call[t].op = "list"
    BY <2>1 DEF Shape, IndexSteps, NlSteps, ListSteps
  <2> QED
    BY <2>1, <2>2, <2>3 DEF TypeOK, DeviceInv, Snapshots
<1> QED
  BY <1>1, InterfaceInvariant, PTL

\* A cycle that succeeds has restarted a device that bore the name.
THEOREM CyclesRestart == Spec => []CycleRestarts
<1>1. IInv => CycleRestarts
  <2> SUFFICES ASSUME IInv, NEW t \in Threads, Returned(t, "cycle")
               PROVE  \E i \in Indices : Bore(t, i) /\
                        \E before, after \in during[t] :
                          /\ before[i] # Nothing /\ after[i] # Nothing
                          /\ before[i].starts < after[i].starts
    BY DEF CycleRestarts
  <2>1. ResultOf(result[t], during[t], unread[t])
    BY DEF IInv, ThreadInv, ResultInv, Returned
  <2> QED
    BY <2>1, Zenon DEF ResultOf, Returned, BoreIn, RestartedIn, Bore
<1> QED
  BY <1>1, InterfaceInvariant, PTL

\* Cycles that overlap leave no device down that was up at first.
THEOREM CyclesLeaveUp == Spec => []CyclesEndUp
<1>1. IInv => CyclesEndUp
  <2> SUFFICES ASSUME IInv, ~marred, \A t \in Threads : pc[t] = "idle",
                      NEW i \in Present \cap DOMAIN Initial, Initial[i].up
               PROVE  dev[i].up
    BY DEF CyclesEndUp
  <2>1. \A t \in Threads : ~Obliged(t, i)
    BY DEF Obliged
  <2> QED
    BY <2>1 DEF IInv, EndUpInv
<1> QED
  BY <1>1, InterfaceInvariant, PTL

\* What is_up, state and a summary report was so during the call.
THEOREM AnswersAreTrue == Spec => []AnswersWereTrue
<1>1. IInv => AnswersWereTrue
  <2> SUFFICES ASSUME IInv, NEW t \in Threads
               PROVE  /\ Returned(t, "state") =>
                           StateWasTrue(t, result[t].value.state)
                      /\ Returned(t, "is_up") => UpWasTrue(t, result[t].value.up)
                      /\ Returned(t, "summary") =>
                           LET v == result[t].value
                           IN  /\ v.up # Nothing => UpWasTrue(t, v.up)
                               /\ v.state # Nothing => StateWasTrue(t, v.state)
    BY DEF AnswersWereTrue
  <2>1. \A v : StateIn(during[t], result[t].name, v) => StateWasTrue(t, v)
    BY Zenon DEF StateIn, StateWasTrue, BoreIn, Bore
  <2>2. ASSUME NEW v, UpIn(during[t], result[t].name, v) PROVE UpWasTrue(t, v)
    <3>1. CASE v = Nothing
      BY <2>2, <3>1, Zenon DEF UpIn, UpWasTrue
    <3>2. CASE v # Nothing
      BY <2>2, <3>2, Zenon DEF UpIn, UpWasTrue, BoreIn, Bore
    <3> QED
      BY <3>1, <3>2
  <2>3. pc[t] = "idle" => ResultOf(result[t], during[t], unread[t])
    BY DEF IInv, ThreadInv, ResultInv
  <2> QED
    BY <2>1, <2>2, <2>3 DEF ResultOf, Returned
<1> QED
  BY <1>1, InterfaceInvariant, PTL

\* An enumeration fails only when the directory cannot be read, lists CAN
\* interfaces only, and misses none that was there all the time but those whose
\* own type file a failing system call kept from it.
THEOREM ListsAreComplete == Spec => []ListIsComplete
<1>1. IInv => ListIsComplete
  <2> SUFFICES ASSUME IInv, NEW t \in Threads, pc[t] = "idle",
                      result[t].op = "list"
               PROVE  LET Can(w, n) == \E i \in Indices :
                              w[i] # Nothing /\ w[i].name = n
                              /\ w[i].kind \in {"can", "vcan"}
                      IN  /\ ~result[t].ok => Names \subseteq unread[t]
                          /\ \A n \in Names :
                               /\ n \in result[t].value.list =>
                                    \E w \in during[t] : Can(w, n)
                               /\ (\A w \in during[t] : Can(w, n)) =>
                                    n \in result[t].value.list \cup unread[t]
    BY DEF ListIsComplete
  <2>1. ResultOf(result[t], during[t], unread[t])
    BY DEF IInv, ThreadInv, ResultInv
  <2> QED
    BY <2>1, Zenon DEF ResultOf, CanBear
<1> QED
  BY <1>1, InterfaceInvariant, PTL
=============================================================================
