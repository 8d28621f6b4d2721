--------------------------- MODULE PortControlProofs ---------------------------
(***************************************************************************)
(* Theorems about PortControl, for any ports, switches, callers, any length  *)
(* of the queue and any number of faults: an order does what it says and     *)
(* nothing else, and a refresh tells of every port.                          *)
(***************************************************************************)
EXTENDS PortControl, SequenceTheorems, TLAPS

-----------------------------------------------------------------------------
(* The inductive invariant.                                                 *)

Reads == {"read", "fetch16", "boot16"}

\* The registers d are what command c orders if its register is v.
Right(c, v) == IF c.reg = "proto" THEN v = c.val
               ELSE IF c.on THEN c.names \subseteq v ELSE c.names \cap v = {}

\* What the manager has in hand while it waits.
HandInv ==
    /\ pc = "read" => cmd.reg = "mask"
    /\ pc = "write" => new \in Values(cmd.reg) /\ Right(cmd, new)
    /\ pc \in {"fetch16", "boot16"} => new = cache.mask /\ ~got
    /\ pc \in {"fetch21", "boot21"} => new \subseteq Ports
    /\ link = "down" <=> pc = "off"
    /\ pc \notin {"off", "boot16", "boot21"} => last.known

\* The request j is the one that the manager waits for at p, for command c.
Asked(j, p, c, v) ==
    /\ p \in Reads => j.op = "get" /\ j.reg = "mask"
    /\ p \in {"fetch21", "boot21"} => j.op = "get" /\ j.reg = "proto"
    /\ p = "write" => j.op = "set" /\ j.reg = c.reg /\ j.val = v

\* The answer a is the answer to it; b: the command was true of the charger meanwhile.
Answered(a, p, c, v, b) ==
    /\ p \in Reads => a.op = "get" /\ a.reg = "mask"
    /\ p = "read" => (Wanted(c, a.val) = a.val => b)
    /\ p \in {"fetch21", "boot21"} => a.op = "get" /\ a.reg = "proto"
    /\ p = "write" => /\ a.op \in {"set", "echo"} /\ a.reg = c.reg
                      /\ a.op = "set" => a.val = v
                      /\ (a.op = "echo" /\ c.reg = "mask" => a.val = v) => b

\* The charger answers in order, so that the one answer that is not to an older
\* request comes when no request is left.
OrderInv ==
    /\ \A i \in DOMAIN jobs : /\ jobs[i].op \in {"get", "set"}
                              /\ ~jobs[i].old => i = Len(jobs) /\ Asked(jobs[i], pc, cmd, new)
    /\ \A i \in DOMAIN air : ~air[i].old => /\ i = Len(air) /\ jobs = <<>>
                                            /\ Answered(air[i], pc, cmd, new, met)

\* Mask and the charger's agree on the ports that did not change unnoticed, but for the
\* names.
Agrees(mask, names) == \A p \in Ports : p \notin touched /\ p \notin names => (p \in mask <=> p \in dev.mask)

\* Every mask that may yet be written or believed is right where nothing changed
\* unnoticed.
MaskInv ==
    /\ \A i \in DOMAIN jobs : jobs[i].op = "set" /\ jobs[i].reg = "mask" => Agrees(jobs[i].val, jobs[i].names)
    /\ \A i \in DOMAIN air : ~air[i].old /\ air[i].reg = "mask" => Agrees(air[i].val, {})
    /\ cache.known => Agrees(cache.mask, {})
    /\ pc \in {"fetch21", "boot21"} /\ (got \/ cache.known) => Agrees(new, {})

\* A command that is true of the charger has been noted as such.
MetInv == pc \in {"read", "write"} /\ Meets(cmd, dev) => met

\* The front ends were told of the last refresh, and of commands since.
ToldInv == last.known => \A p \in Ports : p \notin flipped => (p \in told <=> p \in last.mask)

PortInv == TypeOK /\ HandInv /\ OrderInv /\ MaskInv /\ MetInv /\ ToldInv

-----------------------------------------------------------------------------
(* Messages and queues.                                                      *)

LEMMA MessageFacts ==
    /\ \A m \in Messages : /\ m.op \in {"get", "set", "echo"} /\ m.reg \in Regs /\ m.val \in Values(m.reg)
                           /\ m.names \in SUBSET (Ports \cup Switches) /\ m.old \in BOOLEAN
    /\ \A op \in {"get", "set", "echo"}, reg \in Regs, val, names \in SUBSET (Ports \cup Switches), old \in BOOLEAN :
          val \in Values(reg) =>
             [op |-> op, reg |-> reg, val |-> val, names |-> names, old |-> old] \in Messages
<1>1. ASSUME NEW m \in Messages
      PROVE  /\ m.op \in {"get", "set", "echo"} /\ m.reg \in Regs /\ m.val \in Values(m.reg)
             /\ m.names \in SUBSET (Ports \cup Switches) /\ m.old \in BOOLEAN
  <2>1. PICK reg \in Regs :
           m \in [op : {"get", "set", "echo"}, reg : {reg}, val : Values(reg),
                  names : SUBSET (Ports \cup Switches), old : BOOLEAN]
    BY DEF Messages
  <2>. QED BY <2>1
<1>2. ASSUME NEW op \in {"get", "set", "echo"}, NEW reg \in Regs, NEW val \in Values(reg),
             NEW names \in SUBSET (Ports \cup Switches), NEW old \in BOOLEAN
      PROVE  [op |-> op, reg |-> reg, val |-> val, names |-> names, old |-> old] \in Messages
  BY DEF Messages
<1>. QED BY <1>1, <1>2

\* A message of which a field is another's.
LEMMA Aged ==
    ASSUME NEW m \in Messages, NEW o, o = [m EXCEPT !.old = TRUE]
    PROVE  o \in Messages /\ o.old /\ o.op = m.op /\ o.reg = m.reg /\ o.val = m.val /\ o.names = m.names
<1>1. PICK reg \in Regs :
         m \in [op : {"get", "set", "echo"}, reg : {reg}, val : Values(reg),
                names : SUBSET (Ports \cup Switches), old : BOOLEAN]
  BY DEF Messages
<1>2. o \in [op : {"get", "set", "echo"}, reg : {reg}, val : Values(reg),
             names : SUBSET (Ports \cup Switches), old : BOOLEAN]
  BY <1>1
<1>. QED BY <1>1, <1>2 DEF Messages

LEMMA Acknowledged ==
    ASSUME NEW m \in Messages, NEW op \in {"set", "echo"}, NEW o, o = [m EXCEPT !.op = op]
    PROVE  o \in Messages /\ o.op = op /\ o.reg = m.reg /\ o.val = m.val /\ o.old = m.old
<1>1. PICK reg \in Regs :
         m \in [op : {"get", "set", "echo"}, reg : {reg}, val : Values(reg),
                names : SUBSET (Ports \cup Switches), old : BOOLEAN]
  BY DEF Messages
<1>2. o \in [op : {"get", "set", "echo"}, reg : {reg}, val : Values(reg),
             names : SUBSET (Ports \cup Switches), old : BOOLEAN]
  BY <1>1
<1>. QED BY <1>1, <1>2 DEF Messages

LEMMA Refused ==
    ASSUME NEW m \in Messages, NEW v \in Values(m.reg), NEW o, o = [m EXCEPT !.op = "echo", !.val = v]
    PROVE  o \in Messages /\ o.op = "echo" /\ o.reg = m.reg /\ o.val = v /\ o.old = m.old
<1>1. PICK reg \in Regs :
         m \in [op : {"get", "set", "echo"}, reg : {reg}, val : Values(reg),
                names : SUBSET (Ports \cup Switches), old : BOOLEAN]
  BY DEF Messages
<1>2. o \in [op : {"get", "set", "echo"}, reg : {reg}, val : Values(reg),
             names : SUBSET (Ports \cup Switches), old : BOOLEAN]
  BY <1>1
<1>. QED BY <1>1, <1>2 DEF Messages

LEMMA QueueFacts ==
    ASSUME NEW S, NEW q \in Seq(S)
    PROVE  /\ Len(q) \in Nat /\ DOMAIN q = 1..Len(q) /\ \A i \in DOMAIN q : q[i] \in S
           /\ q = <<>> <=> DOMAIN q = {}
           /\ q # <<>> => /\ Head(q) = q[1] /\ 1 \in DOMAIN q /\ Tail(q) \in Seq(S) /\ Len(Tail(q)) = Len(q) - 1
                          /\ \A i \in DOMAIN Tail(q) : i + 1 \in DOMAIN q /\ Tail(q)[i] = q[i + 1]
           /\ \A x \in S : /\ Append(q, x) \in Seq(S) /\ Len(Append(q, x)) = Len(q) + 1
                           /\ \A i \in DOMAIN Append(q, x) : \/ i \in DOMAIN q /\ Append(q, x)[i] = q[i]
                                                             \/ i = Len(q) + 1 /\ Append(q, x)[i] = x
           /\ <<>> \in Seq(S) /\ Len(<<>>) = 0 /\ DOMAIN (<<>>) = {}
OBVIOUS

LEMMA MessageQueues ==
    ASSUME jobs \in Seq(Messages), air \in Seq(Messages)
    PROVE  /\ jobs # <<>> => Tail(jobs) \in Seq(Messages) /\ Head(jobs) \in Messages
           /\ air # <<>> => Tail(air) \in Seq(Messages)
           /\ \A m \in Messages : Append(air, m) \in Seq(Messages)
           /\ <<>> \in Seq(Messages)
OBVIOUS

\* What a request does to the queues.
LEMMA SendFacts ==
    ASSUME jobs \in Seq(Messages), NEW op \in {"get", "set", "echo"}, NEW reg \in Regs, NEW val \in Values(reg),
           NEW names \in SUBSET (Ports \cup Switches), Send(op, reg, val, names)
    PROVE  /\ jobs' \in Seq(Messages) /\ air' = <<>>
           /\ \A i \in DOMAIN jobs' :
                 \/ /\ i \in DOMAIN jobs /\ jobs'[i].old /\ jobs'[i].op = jobs[i].op /\ jobs'[i].reg = jobs[i].reg
                    /\ jobs'[i].val = jobs[i].val /\ jobs'[i].names = jobs[i].names
                 \/ i = Len(jobs') /\ jobs'[i] = [op |-> op, reg |-> reg, val |-> val, names |-> names, old |-> FALSE]
<1>. DEFINE q == [i \in 1..Len(jobs) |-> [jobs[i] EXCEPT !.old = TRUE]]
            m == [op |-> op, reg |-> reg, val |-> val, names |-> names, old |-> FALSE]
<1>1. m \in Messages
  <2>1. Values(reg) \subseteq SUBSET (Ports \cup Switches)
    BY DEF Values, Regs
  <2>. QED BY <2>1, MessageFacts
<1>2. Len(jobs) \in Nat /\ DOMAIN jobs = 1..Len(jobs) /\ \A i \in DOMAIN jobs : jobs[i] \in Messages
  BY QueueFacts
<1>3. /\ q \in Seq(Messages) /\ DOMAIN q = DOMAIN jobs /\ Len(q) = Len(jobs)
      /\ \A i \in DOMAIN jobs : q[i] = [jobs[i] EXCEPT !.old = TRUE]
  <2>1. \A i \in 1..Len(jobs) : [jobs[i] EXCEPT !.old = TRUE] \in Messages
    BY <1>2, Aged
  <2>. QED BY <1>2, <2>1
<1>4. jobs' = Append(q, m) /\ air' = <<>>
  BY DEF Send
<1>. HIDE DEF q, m
<1>5. /\ Append(q, m) \in Seq(Messages) /\ Len(Append(q, m)) = Len(q) + 1
      /\ \A i \in DOMAIN Append(q, m) : \/ i \in DOMAIN q /\ Append(q, m)[i] = q[i]
                                        \/ i = Len(q) + 1 /\ Append(q, m)[i] = m
  BY <1>1, <1>3, QueueFacts
<1>6. \A i \in DOMAIN jobs : LET o == [jobs[i] EXCEPT !.old = TRUE] IN
         o.old /\ o.op = jobs[i].op /\ o.reg = jobs[i].reg /\ o.val = jobs[i].val /\ o.names = jobs[i].names
  BY <1>2, Aged
<1>7. ASSUME NEW i \in DOMAIN jobs'
      PROVE  \/ /\ i \in DOMAIN jobs /\ jobs'[i].old /\ jobs'[i].op = jobs[i].op /\ jobs'[i].reg = jobs[i].reg
                /\ jobs'[i].val = jobs[i].val /\ jobs'[i].names = jobs[i].names
             \/ i = Len(jobs') /\ jobs'[i] = m
  <2>1. (i \in DOMAIN q /\ jobs'[i] = q[i]) \/ (i = Len(q) + 1 /\ jobs'[i] = m)
    BY <1>4, <1>5
  <2>2. ASSUME i \in DOMAIN q, jobs'[i] = q[i]
        PROVE  /\ i \in DOMAIN jobs /\ jobs'[i].old /\ jobs'[i].op = jobs[i].op /\ jobs'[i].reg = jobs[i].reg
               /\ jobs'[i].val = jobs[i].val /\ jobs'[i].names = jobs[i].names
    <3>1. i \in DOMAIN jobs /\ jobs'[i] = [jobs[i] EXCEPT !.old = TRUE]
      BY <1>3, <2>2
    <3>. QED BY <1>6, <3>1
  <2>3. Len(jobs') = Len(q) + 1
    BY <1>4, <1>5
  <2>. QED BY <2>1, <2>2, <2>3
<1>. QED BY <1>4, <1>5, <1>7 DEF m

\* What a received answer is.
LEMMA ReceivedFacts ==
    ASSUME air \in Seq(Messages), NEW ops, NEW reg, NEW a \in Received(ops, reg)
    PROVE  air # <<>> /\ 1 \in DOMAIN air /\ a = air[1] /\ a \in Messages /\ a.op \in ops /\ a.reg = reg
<1>1. air # <<>> /\ a = Head(air) /\ a.op \in ops /\ a.reg = reg
  BY DEF Received
<1>. QED BY <1>1, QueueFacts

-----------------------------------------------------------------------------
(* Types.                                                                    *)

LEMMA CommandFacts ==
    /\ NoCmd \in Cmds /\ NoCmd.who = Nobody
    /\ \A c \in Cmds : /\ c.reg \in Regs /\ c.on \in BOOLEAN /\ c.who \in Callers \cup {Nobody}
                       /\ c.names \in SUBSET (Ports \cup Switches)
                       /\ c.reg = "mask" => c.names \subseteq Ports
                       /\ c.reg = "proto" => c.val \subseteq Switches
    /\ \A names \in OrderedPorts, on \in BOOLEAN, who \in Callers \cup {Nobody} :
          PortOrder(names, on, who) \in Cmds /\ PortOrder(names, on, who).who = who
    /\ \A s \in Switches, on \in BOOLEAN, val \in SUBSET Switches, who \in Callers :
          LET c == [names |-> {s}, on |-> on, reg |-> "proto", who |-> who, val |-> val] IN
          c \in Cmds /\ c.who = who
<1>1. NoCmd \in Cmds /\ NoCmd.who = Nobody
  BY DEF NoCmd, Cmds
<1>2. ASSUME NEW c \in Cmds
      PROVE  /\ c.reg \in Regs /\ c.on \in BOOLEAN /\ c.who \in Callers \cup {Nobody}
             /\ c.names \in SUBSET (Ports \cup Switches)
             /\ c.reg = "mask" => c.names \subseteq Ports
             /\ c.reg = "proto" => c.val \subseteq Switches
  BY DEF Cmds, Regs
<1>3. \A names \in OrderedPorts, on \in BOOLEAN, who \in Callers \cup {Nobody} :
         PortOrder(names, on, who) \in Cmds /\ PortOrder(names, on, who).who = who
  <2>1. OrderedPorts \subseteq SUBSET Ports
    BY DEF OrderedPorts
  <2>. QED BY <2>1 DEF PortOrder, Cmds
<1>4. \A s \in Switches, on \in BOOLEAN, val \in SUBSET Switches, who \in Callers :
         LET c == [names |-> {s}, on |-> on, reg |-> "proto", who |-> who, val |-> val] IN
         c \in Cmds /\ c.who = who
  BY DEF Cmds
<1>. QED BY <1>1, <1>2, <1>3, <1>4

LEMMA FaultType ==
    ASSUME left \in [orders : 0..Orders, outside : 0..Outside, faults : 0..Faults], Fault
    PROVE  left' \in [orders : 0..Orders, outside : 0..Outside, faults : 0..Faults] /\ left'.outside = left.outside
BY PortControlAssumption DEF Fault

\* The callers' side of the types.
QueueOK ==
    /\ queue \in Seq(Cmds) /\ Len(queue) <= QMAX /\ putting \subseteq Cmds
    /\ call \in [Callers -> {"free", "putting", "waiting", "ok", "error", "timeout"}]
    /\ left \in [orders : 0..Orders, outside : 0..Outside, faults : 0..Faults]

\* The manager's, and the charger's.
WorkOK ==
    /\ link \in {"up", "down"}
    /\ pc \in {"off", "idle", "read", "write", "fetch16", "fetch21", "boot16", "boot21"}
    /\ cmd \in Cmds /\ new \in SUBSET (Ports \cup Switches) /\ got \in BOOLEAN
    /\ dev \in [mask : SUBSET Ports, proto : SUBSET Switches]
    /\ jobs \in Seq(Messages) /\ air \in Seq(Messages)

KnownOK ==
    /\ cache \in [mask : SUBSET Ports, proto : SUBSET Switches, known : BOOLEAN]
    /\ refresh \in BOOLEAN /\ last \in [mask : SUBSET Ports, known : BOOLEAN]
    /\ told \subseteq Ports
    /\ met \in BOOLEAN /\ misled \in BOOLEAN /\ touched \subseteq Ports /\ flipped \subseteq Ports

LEMMA TypeParts == (TypeOK <=> QueueOK /\ WorkOK /\ KnownOK) /\ (TypeOK' <=> QueueOK' /\ WorkOK' /\ KnownOK')
BY DEF TypeOK, QueueOK, WorkOK, KnownOK

LEMMA SendCommandType ==
    ASSUME QueueOK, NEW c \in Cmds, c.who \in Callers, SendCommand(c)
    PROVE  QueueOK' /\ UNCHANGED <<link, pc, cmd, new, got, dev, jobs, air, cache, refresh, last, told, history>>
<1>1. CASE link = "up" /\ Len(queue) < QMAX
  <2>1. queue' = Append(queue, c) /\ putting' = putting /\ call' = [call EXCEPT ![c.who] = "waiting"]
    BY <1>1 DEF SendCommand, Enqueue
  <2>2. Append(queue, c) \in Seq(Cmds) /\ Len(Append(queue, c)) <= QMAX
    BY <1>1, QueueFacts, PortControlAssumption DEF QueueOK
  <2>. QED BY <2>1, <2>2 DEF QueueOK, SendCommand, Callee
<1>2. CASE ~(link = "up" /\ Len(queue) < QMAX)
  BY <1>2 DEF SendCommand, Enqueue, QueueOK, Callee
<1>. QED BY <1>1, <1>2

LEMMA FinishFacts ==
    ASSUME NEW verdict \in {"ok", "error"}, Finish(verdict),
           call \in [Callers -> {"free", "putting", "waiting", "ok", "error", "timeout"}]
    PROVE  /\ call' \in [Callers -> {"free", "putting", "waiting", "ok", "error", "timeout"}]
           /\ pc' = "idle" /\ cmd' = NoCmd /\ new' = {}
BY DEF Finish, Settle

\* Whatever the manager does with the callers' side.
LEMMA QueueType ==
    ASSUME TypeOK, Next
    PROVE  QueueOK'
<1>. USE DEF QueueOK
<1>0. QueueOK /\ WorkOK /\ KnownOK
  BY TypeParts
<1>1. CASE Callings
  <2>1. PICK who \in Callers : HandlePort(who) \/ HandleProtocol(who) \/ CallTimesOut(who)
    BY <1>1 DEF Callings
  <2>2. CASE HandlePort(who)
    BY <1>0, <2>2, CommandFacts, SendCommandType DEF HandlePort
  <2>3. CASE HandleProtocol(who)
    <3>1. PICK s \in Switches, on \in BOOLEAN :
             SendCommand([names |-> {s}, on |-> on, reg |-> "proto", who |-> who,
                          val |-> IF on THEN cache.proto \cup {s} ELSE cache.proto \ {s}])
      BY <2>3 DEF HandleProtocol
    <3>2. (IF on THEN cache.proto \cup {s} ELSE cache.proto \ {s}) \in SUBSET Switches
      BY <1>0 DEF KnownOK
    <3>. QED BY <1>0, <3>1, <3>2, CommandFacts, SendCommandType
  <2>4. CASE CallTimesOut(who)
    BY <1>0, <2>4 DEF CallTimesOut, Callee
  <2>. QED BY <2>1, <2>2, <2>3, <2>4
<1>2. CASE QueueOrder
  <2>1. PICK names \in OrderedPorts, on \in BOOLEAN :
           queue' = IF Len(queue) < QMAX THEN Append(queue, PortOrder(names, on, Nobody)) ELSE queue
    BY <1>2 DEF QueueOrder
  <2>2. PortOrder(names, on, Nobody) \in Cmds
    BY CommandFacts
  <2>3. queue' \in Seq(Cmds) /\ Len(queue') <= QMAX
    BY <1>0, <2>1, <2>2, QueueFacts, PortControlAssumption
  <2>4. left' \in [orders : 0..Orders, outside : 0..Outside, faults : 0..Faults]
    BY <1>0, <1>2, PortControlAssumption DEF QueueOrder
  <2>. QED BY <1>0, <1>2, <2>3, <2>4 DEF QueueOrder
<1>3. CASE PutterResumes
  <2>1. PICK c \in putting : /\ queue' = Append(queue, c) /\ putting' = putting \ {c}
                             /\ call' = [call EXCEPT ![c.who] = "waiting"]
    BY <1>3 DEF PutterResumes
  <2>2. queue' \in Seq(Cmds) /\ Len(queue') <= QMAX
    BY <1>0, <1>3, <2>1, QueueFacts, PortControlAssumption DEF PutterResumes
  <2>. QED BY <1>0, <1>3, <2>1, <2>2 DEF PutterResumes, Callee
<1>4. CASE TakeCommand
  <2>1. queue # <<>> /\ queue' = Tail(queue) /\ UNCHANGED <<putting, call, left>>
    BY <1>4 DEF TakeCommand
  <2>2. queue' \in Seq(Cmds) /\ Len(queue') <= QMAX
    BY <1>0, <2>1, QueueFacts, PortControlAssumption
  <2>. QED BY <1>0, <2>1, <2>2
<1>5. CASE ReadMask \/ WriteConfirmed
  <2>1. UNCHANGED <<queue, putting, left>>
    BY <1>5 DEF ReadMask, WriteConfirmed
  <2>2. call' = call \/ Finish("ok")
    BY <1>5 DEF ReadMask, WriteConfirmed
  <2>. QED BY <1>0, <2>1, <2>2, FinishFacts
<1>6. CASE ReadSilent \/ WriteSilent \/ HandlerRaises
  <2>1. UNCHANGED <<queue, putting>> /\ (left' = left \/ Fault)
    BY <1>6 DEF ReadSilent, WriteSilent, HandlerRaises, Silent
  <2>2. call' = call \/ Finish("error")
    BY <1>6 DEF ReadSilent, WriteSilent, HandlerRaises
  <2>. QED BY <1>0, <2>1, <2>2, FinishFacts, FaultType
<1>7. CASE DropAnswer \/ RefreshSettings \/ Connect
  BY <1>0, <1>7 DEF DropAnswer, RefreshSettings, Connect
<1>8. CASE FetchMask \/ FetchProtocol \/ RequestLost \/ Charger
  <2>1. UNCHANGED <<queue, putting, call>> /\ (left' = left \/ Fault)
    BY <1>8 DEF FetchMask, FetchProtocol, RequestLost, Charger, ChargerReads, ChargerWrites, Silent, App
  <2>. QED BY <1>0, <2>1, FaultType
<1>9. CASE LinkLost
  <2>1. UNCHANGED <<queue, putting>> /\ Fault
    BY <1>9 DEF LinkLost
  <2>2. call' = call \/ Settle(cmd.who, "error")
    BY <1>9 DEF LinkLost
  <2>. QED BY <1>0, <2>1, <2>2, FaultType DEF Settle
<1>10. CASE Rebuild
  <2>1. queue' \in Seq(Cmds) /\ Len(queue') <= QMAX
    BY <1>10, QueueFacts, PortControlAssumption DEF Rebuild
  <2>. QED BY <1>0, <1>10, <2>1 DEF Rebuild
<1>11. CASE ChargerChanges
  BY <1>0, <1>11, PortControlAssumption DEF ChargerChanges, App
<1>. QED BY <1>1, <1>2, <1>3, <1>4, <1>5, <1>6, <1>7, <1>8, <1>9, <1>10, <1>11 DEF Next, Manager

\* What a handler sends when it writes.
LEMMA WriteFacts ==
    ASSUME jobs \in Seq(Messages), NEW c \in Cmds, NEW base \in SUBSET Ports, WriteNow(c, base)
    PROVE  /\ pc' = "write" /\ new' = Wanted(c, base) /\ new' \in Values(c.reg) /\ Right(c, new')
           /\ new' \in SUBSET (Ports \cup Switches)
           /\ Send("set", c.reg, new', c.names)
           /\ jobs' \in Seq(Messages) /\ air' = <<>>
<1>1. /\ c.reg \in Regs /\ c.names \in SUBSET (Ports \cup Switches)
      /\ c.reg = "mask" => c.names \subseteq Ports
      /\ c.reg = "proto" => c.val \subseteq Switches
  BY CommandFacts
<1>2. pc' = "write" /\ new' = Wanted(c, base) /\ Send("set", c.reg, new', c.names)
  BY DEF WriteNow
<1>3. new' \in Values(c.reg) /\ Right(c, new') /\ new' \in SUBSET (Ports \cup Switches)
  BY <1>1, <1>2 DEF Wanted, Values, Right, Regs
<1>. QED BY <1>1, <1>2, <1>3, SendFacts

LEMMA GetFacts ==
    ASSUME jobs \in Seq(Messages), NEW reg \in Regs, Send("get", reg, {}, {})
    PROVE  jobs' \in Seq(Messages) /\ air' = <<>>
<1>1. {} \in Values(reg)
  BY DEF Values
<1>. QED BY <1>1, SendFacts

\* The charger's answer.
LEMMA AnswerFacts ==
    ASSUME NEW j \in Messages, dev \in [mask : SUBSET Ports, proto : SUBSET Switches]
    PROVE  /\ Answer(j) \in Messages /\ Answer(j).op = j.op /\ Answer(j).reg = j.reg /\ Answer(j).old = j.old
           /\ j.reg = "mask" => Answer(j).val = dev.mask
<1>1. (IF j.reg = "mask" THEN dev.mask ELSE dev.proto) \in Values(j.reg)
  BY MessageFacts DEF Values, Regs
<1>2. ASSUME NEW v \in Values(j.reg), NEW o, o = [j EXCEPT !.val = v]
      PROVE  o \in Messages /\ o.op = j.op /\ o.reg = j.reg /\ o.val = v /\ o.old = j.old
  <2>1. PICK reg \in Regs :
           j \in [op : {"get", "set", "echo"}, reg : {reg}, val : Values(reg),
                  names : SUBSET (Ports \cup Switches), old : BOOLEAN]
    BY DEF Messages
  <2>2. o \in [op : {"get", "set", "echo"}, reg : {reg}, val : Values(reg),
                names : SUBSET (Ports \cup Switches), old : BOOLEAN]
    BY <1>2, <2>1
  <2>. QED BY <1>2, <2>1, <2>2 DEF Messages
<1>. QED BY <1>1, <1>2 DEF Answer

\* What the manager and the charger know keeps its type.
LEMMA WorkType ==
    ASSUME TypeOK, HandInv, Next
    PROVE  WorkOK' /\ KnownOK'
<1>. USE DEF WorkOK, KnownOK
<1>0. QueueOK /\ WorkOK /\ KnownOK
  BY TypeParts
<1>q. <<>> \in Seq(Messages)
  BY QueueFacts
<1>1. CASE Callings
  <2>1. PICK who \in Callers : HandlePort(who) \/ HandleProtocol(who) \/ CallTimesOut(who)
    BY <1>1 DEF Callings
  <2>2. Callee
    BY <2>1 DEF HandlePort, HandleProtocol, CallTimesOut, SendCommand
  <2>. QED BY <1>0, <2>2 DEF Callee, history
<1>2. CASE QueueOrder \/ PutterResumes \/ Rebuild
  <2>1. UNCHANGED <<link, pc, cmd, new, got, dev, jobs, air, cache, told, met, misled, touched, flipped>>
        /\ refresh' \in BOOLEAN
    BY <1>0, <1>2 DEF QueueOrder, PutterResumes, Rebuild, Callee, history
  <2>2. last' = last \/ last' = [last EXCEPT !.known = FALSE]
    BY <1>2 DEF QueueOrder, PutterResumes, Rebuild, Callee
  <2>. QED BY <1>0, <2>1, <2>2
<1>4. CASE TakeCommand
  <2>. DEFINE c == Head(queue)
  <2>1. /\ c \in Cmds /\ cmd' = c /\ met' = Meets(c, dev) /\ misled' = FALSE
        /\ UNCHANGED <<got, link, dev, cache, refresh, last, told, touched, flipped>>
    <3>1. queue # <<>>
      BY <1>4 DEF TakeCommand
    <3>. QED BY <1>0, <1>4, <3>1, QueueFacts DEF TakeCommand, QueueOK
  <2>2. /\ pc' \in {"read", "write"} /\ jobs' \in Seq(Messages) /\ air' = <<>>
        /\ new' \in SUBSET (Ports \cup Switches)
    <3>1. CASE c.reg = "mask" /\ c.names # Ports
      <4>1. pc' = "read" /\ new' = new /\ Send("get", "mask", {}, {})
        BY <1>4, <3>1 DEF TakeCommand
      <4>. QED BY <1>0, <4>1, GetFacts DEF Regs
    <3>2. CASE ~(c.reg = "mask" /\ c.names # Ports)
      <4>1. WriteNow(c, {})
        BY <1>4, <3>2 DEF TakeCommand
      <4>. QED BY <1>0, <2>1, <4>1, WriteFacts
    <3>. QED BY <3>1, <3>2
  <2>3. met' \in BOOLEAN
    BY <2>1 DEF Meets
  <2>4. WorkOK'
    BY <1>0, <2>1, <2>2, <1>q
  <2>. QED BY <1>0, <2>1, <2>3, <2>4
<1>5. CASE ReadMask
  <2>1. PICK a \in Received({"get"}, "mask") :
            /\ misled' = (misled \/ a.old) /\ Trust(a.val, a.old)
            /\ IF Wanted(cmd, a.val) = a.val
               THEN Finish("ok") /\ air' = Tail(air) /\ UNCHANGED jobs
               ELSE WriteNow(cmd, a.val) /\ UNCHANGED <<cmd, call>>
    BY <1>5 DEF ReadMask
  <2>2. a \in Messages /\ a.reg = "mask" /\ air # <<>>
    BY <1>0, ReceivedFacts
  <2>3. a.val \in SUBSET Ports /\ a.old \in BOOLEAN
    BY <2>2, MessageFacts DEF Values
  <2>4. UNCHANGED <<got, link, dev, cache, refresh, last, told, met, flipped>>
    BY <1>5 DEF ReadMask
  <2>5. touched' \subseteq Ports /\ misled' \in BOOLEAN
    BY <1>0, <2>1, <2>3 DEF Trust, Differ
  <2>6. /\ pc' \in {"idle", "write"} /\ jobs' \in Seq(Messages) /\ air' \in Seq(Messages) /\ cmd' \in Cmds
        /\ new' \in SUBSET (Ports \cup Switches)
    <3>1. CASE Wanted(cmd, a.val) = a.val
      <4>1. Finish("ok") /\ air' = Tail(air) /\ jobs' = jobs
        BY <2>1, <3>1
      <4>. QED BY <1>0, <2>2, <4>1, MessageQueues, CommandFacts DEF Finish
    <3>2. CASE Wanted(cmd, a.val) # a.val
      <4>1. WriteNow(cmd, a.val) /\ cmd' = cmd
        BY <2>1, <3>2
      <4>. QED BY <1>0, <1>q, <2>3, <4>1, WriteFacts
    <3>. QED BY <3>1, <3>2
  <2>. QED BY <1>0, <2>4, <2>5, <2>6
<1>6. CASE ReadSilent
  <2>1. UNCHANGED <<got, link, dev, cache, refresh, last, told, history>>
    BY <1>6 DEF ReadSilent
  <2>2. CASE cache.known
    <3>1. WriteNow(cmd, cache.mask) /\ cmd' = cmd /\ cache.mask \in SUBSET Ports
      BY <1>0, <1>6, <2>2 DEF ReadSilent
    <3>2. /\ pc' = "write" /\ jobs' \in Seq(Messages) /\ air' = <<>> /\ new' \in SUBSET (Ports \cup Switches)
      BY <1>0, <3>1, WriteFacts
    <3>. QED BY <1>0, <1>q, <2>1, <3>1, <3>2 DEF history
  <2>3. CASE ~cache.known
    <3>1. Finish("error") /\ UNCHANGED <<jobs, air>>
      BY <1>6, <2>3 DEF ReadSilent
    <3>. QED BY <1>0, <2>1, <3>1, CommandFacts DEF Finish, history
  <2>. QED BY <2>2, <2>3
<1>7. CASE WriteConfirmed
  <2>1. PICK a \in Received({"set", "echo"}, cmd.reg) :
           LET known == IF a.op = "echo" /\ cmd.reg = "mask" THEN a.val ELSE new IN
           /\ IF cmd.reg = "mask"
              THEN /\ cache' = [cache EXCEPT !.mask = known, !.known = TRUE]
                   /\ told' = (told \ cmd.names) \cup (known \cap cmd.names)
                   /\ Learn(known, a.old) /\ flipped' = flipped \cup cmd.names
              ELSE cache' = [cache EXCEPT !.proto = known] /\ UNCHANGED <<told, touched, flipped>>
           /\ misled' = (misled \/ a.old \/ known # new)
    BY <1>7 DEF WriteConfirmed
  <2>. DEFINE known == IF a.op = "echo" /\ cmd.reg = "mask" THEN a.val ELSE new
  <2>2. a \in Messages /\ a.reg = cmd.reg /\ air # <<>> /\ a.old \in BOOLEAN
    BY <1>0, ReceivedFacts, MessageFacts
  <2>3. known \in Values(cmd.reg)
    BY <1>7, <2>2, MessageFacts DEF HandInv, WriteConfirmed
  <2>4. cmd.reg \in Regs /\ (cmd.reg = "mask" => cmd.names \subseteq Ports)
    BY <1>0, CommandFacts
  <2>5. /\ cache' \in [mask : SUBSET Ports, proto : SUBSET Switches, known : BOOLEAN]
        /\ told' \subseteq Ports /\ touched' \subseteq Ports /\ flipped' \subseteq Ports /\ misled' \in BOOLEAN
    <3>. HIDE DEF known
    <3>1. CASE cmd.reg = "mask"
      <4>1. known \in SUBSET Ports
        BY <2>3, <3>1 DEF Values
      <4>2. /\ cache' = [cache EXCEPT !.mask = known, !.known = TRUE]
            /\ told' = (told \ cmd.names) \cup (known \cap cmd.names)
            /\ Learn(known, a.old) /\ flipped' = flipped \cup cmd.names
            /\ misled' = (misled \/ a.old \/ known # new)
        BY <2>1, <3>1 DEF known
      <4>. QED BY <1>0, <2>2, <2>4, <3>1, <4>1, <4>2 DEF Learn, Differ
    <3>2. CASE cmd.reg = "proto"
      <4>1. known \in SUBSET Switches
        BY <2>3, <3>2 DEF Values
      <4>2. /\ cache' = [cache EXCEPT !.proto = known] /\ UNCHANGED <<told, touched, flipped>>
            /\ misled' = (misled \/ a.old \/ known # new)
        BY <2>1, <3>2 DEF known
      <4>. QED BY <1>0, <2>2, <4>1, <4>2
    <3>. QED BY <2>4, <3>1, <3>2 DEF Regs
  <2>6. /\ UNCHANGED <<got, link, dev, jobs, refresh, last, met>> /\ air' = Tail(air)
        /\ pc' = "idle" /\ cmd' = NoCmd /\ new' = {}
    BY <1>7 DEF WriteConfirmed, Finish
  <2>7. air' \in Seq(Messages) /\ NoCmd \in Cmds
    BY <1>0, <2>2, <2>6, QueueFacts, CommandFacts
  <2>. QED BY <1>0, <2>5, <2>6, <2>7
<1>8. CASE WriteSilent \/ HandlerRaises
  <2>1. /\ UNCHANGED <<got, link, dev, jobs, air, cache, last, told, history>>
        /\ refresh' \in BOOLEAN /\ Finish("error")
    BY <1>0, <1>8 DEF WriteSilent, HandlerRaises
  <2>. QED BY <1>0, <2>1, CommandFacts DEF Finish, history
<1>9. CASE DropAnswer
  <2>1. air # <<>> /\ air' = Tail(air)
    BY <1>9 DEF DropAnswer
  <2>2. air' \in Seq(Messages)
    BY <1>0, <2>1, QueueFacts
  <2>. QED BY <1>0, <1>9, <2>2 DEF DropAnswer, history
<1>10. CASE RefreshSettings \/ Connect
  <2>1. Send("get", "mask", {}, {}) /\ new' = cache.mask /\ got' = FALSE
        /\ UNCHANGED <<cmd, dev, cache, last, told, history>> /\ refresh' \in BOOLEAN
        /\ link' \in {"up", "down"} /\ pc' \in {"fetch16", "boot16"}
    BY <1>0, <1>10 DEF RefreshSettings, Connect
  <2>2. jobs' \in Seq(Messages) /\ air' = <<>>
    BY <1>0, <2>1, GetFacts DEF Regs
  <2>. QED BY <1>0, <1>q, <2>1, <2>2 DEF history
<1>11. CASE FetchMask
  <2>1. Send("get", "proto", {}, {}) /\ pc' \in {"boot21", "fetch21"}
        /\ UNCHANGED <<link, cmd, dev, cache, refresh, last, told, met, misled, flipped>>
    BY <1>11 DEF FetchMask
  <2>2. jobs' \in Seq(Messages) /\ air' = <<>>
    BY <1>0, <2>1, GetFacts DEF Regs
  <2>3. new' \in SUBSET (Ports \cup Switches) /\ got' \in BOOLEAN /\ touched' \subseteq Ports
    <3>1. CASE UNCHANGED <<new, got, touched>>
      BY <1>0, <3>1
    <3>2. ASSUME NEW a \in Received({"get"}, "mask"), new' = a.val, Trust(a.val, a.old), got' = TRUE
          PROVE  new' \in SUBSET (Ports \cup Switches) /\ got' \in BOOLEAN /\ touched' \subseteq Ports
      <4>1. a.val \in SUBSET Ports
        BY <1>0, ReceivedFacts, MessageFacts DEF Values
      <4>. QED BY <1>0, <3>2, <4>1 DEF Trust, Differ
    <3>. QED BY <1>11, <3>1, <3>2 DEF FetchMask
  <2>. QED BY <1>0, <1>q, <2>1, <2>2, <2>3
<1>12. CASE FetchProtocol
  <2>1. PICK proto \in SUBSET Switches :
           /\ cache' = [mask |-> new, proto |-> proto, known |-> cache.known \/ got]
           /\ air' = air \/ \E a \in Received({"get"}, "proto") : air' = Tail(air)
    BY <1>12 DEF FetchProtocol
  <2>2. new \in SUBSET Ports
    BY <1>12 DEF FetchProtocol, HandInv
  <2>3. air' \in Seq(Messages)
    <3>1. \A a \in Received({"get"}, "proto") : air # <<>>
      BY DEF Received
    <3>. QED BY <1>0, <2>1, <3>1, MessageQueues
  <2>4. /\ pc' = "idle" /\ new' = {} /\ got' = FALSE
        /\ told' = (IF pc = "boot21" THEN new ELSE EmitChanges(new)) /\ last' = [mask |-> new, known |-> TRUE]
        /\ flipped' = {p \in flipped : (p \in told') # (p \in new)}
        /\ touched' \subseteq touched
        /\ UNCHANGED <<link, cmd, dev, jobs, refresh, met, misled>>
    BY <1>12 DEF FetchProtocol
  <2>5. told' \subseteq Ports /\ flipped' \subseteq Ports
    BY <1>0, <2>2, <2>4 DEF EmitChanges
  <2>. QED BY <1>0, <2>1, <2>2, <2>3, <2>4, <2>5
<1>13. CASE LinkLost
  BY <1>0, <1>13, <1>q, CommandFacts DEF LinkLost, history
<1>14. CASE ChargerReads \/ RequestLost
  <2>1. jobs # <<>> /\ jobs' = Tail(jobs) /\ App /\ UNCHANGED <<dev, met, touched>>
        /\ (air' = air \/ air' = Append(air, Answer(Head(jobs))))
    BY <1>14 DEF ChargerReads, RequestLost
  <2>2. jobs' \in Seq(Messages) /\ Head(jobs) \in Messages
    BY <1>0, <2>1, QueueFacts
  <2>3. air' \in Seq(Messages)
    <3>1. Answer(Head(jobs)) \in Messages
      BY <1>0, <2>2, AnswerFacts
    <3>. QED BY <1>0, <2>1, <3>1, MessageQueues
  <2>. QED BY <1>0, <2>1, <2>2, <2>3 DEF App
<1>15. CASE ChargerWrites
  <2>. DEFINE j == Head(jobs)
  <2>1. /\ jobs # <<>> /\ jobs' = Tail(jobs) /\ App /\ met' = (met \/ Meets(cmd, dev'))
        /\ \/ /\ dev' = IF j.reg = "mask" THEN [dev EXCEPT !.mask = j.val] ELSE [dev EXCEPT !.proto = j.val]
              /\ touched' = touched \cup IF j.reg = "mask" THEN Differ(j.val) ELSE {}
              /\ \/ \E op \in {"set", "echo"} : air' = Append(air, [j EXCEPT !.op = op])
                 \/ air' = air
           \/ /\ j.reg = "mask" /\ UNCHANGED <<dev, touched>>
              /\ air' = Append(air, [j EXCEPT !.op = "echo", !.val = dev.mask])
    BY <1>15 DEF ChargerWrites
  <2>2. jobs' \in Seq(Messages) /\ j \in Messages
    BY <1>0, <2>1, QueueFacts
  <2>3. j.reg \in Regs /\ j.val \in Values(j.reg)
    BY <2>2, MessageFacts
  <2>4. dev' \in [mask : SUBSET Ports, proto : SUBSET Switches] /\ touched' \subseteq Ports
    BY <1>0, <2>1, <2>3 DEF Values, Regs, Differ
  <2>5. air' \in Seq(Messages)
    <3>1. (j.reg = "mask") => dev.mask \in Values(j.reg)
      BY <1>0 DEF Values
    <3>2. /\ \A op \in {"set", "echo"} : [j EXCEPT !.op = op] \in Messages
          /\ j.reg = "mask" => [j EXCEPT !.op = "echo", !.val = dev.mask] \in Messages
      <4>. HIDE DEF j
      <4>1. ASSUME NEW o, NEW op \in {"set", "echo"}, o = [j EXCEPT !.op = op] PROVE o \in Messages
        BY <2>2, <4>1, Acknowledged
      <4>2. ASSUME NEW o, j.reg = "mask", o = [j EXCEPT !.op = "echo", !.val = dev.mask] PROVE o \in Messages
        BY <2>2, <3>1, <4>2, Refused
      <4>. QED BY <4>1, <4>2
    <3>. HIDE DEF j
    <3>3. \/ \E op \in {"set", "echo"} : air' = Append(air, [j EXCEPT !.op = op])
          \/ air' = air
          \/ j.reg = "mask" /\ air' = Append(air, [j EXCEPT !.op = "echo", !.val = dev.mask])
      BY <2>1
    <3>4. \A m \in Messages : Append(air, m) \in Seq(Messages)
      BY <1>0, MessageQueues
    <3>5. ASSUME NEW op \in {"set", "echo"}, air' = Append(air, [j EXCEPT !.op = op]) PROVE air' \in Seq(Messages)
      BY <3>2, <3>4, <3>5, Zenon
    <3>6. CASE j.reg = "mask" /\ air' = Append(air, [j EXCEPT !.op = "echo", !.val = dev.mask])
      BY <3>2, <3>4, <3>6, Zenon
    <3>. QED BY <1>0, <3>3, <3>5, <3>6, Zenon
  <2>6. met' \in BOOLEAN
    BY <1>0, <2>1 DEF Meets
  <2>. QED BY <1>0, <2>1, <2>2, <2>4, <2>5, <2>6 DEF App
<1>16. CASE ChargerChanges
  <2>1. PICK p \in Ports, mask \in SUBSET Ports :
           dev' = [dev EXCEPT !.mask = mask] /\ touched' = touched \cup {p}
    BY <1>16 DEF ChargerChanges
  <2>2. met' \in BOOLEAN
    BY <1>0, <1>16 DEF ChargerChanges, Meets
  <2>. QED BY <1>0, <1>16, <2>1, <2>2 DEF ChargerChanges, App
<1>. QED BY <1>1, <1>2, <1>4, <1>5, <1>6, <1>7, <1>8, <1>9, <1>10, <1>11, <1>12, <1>13, <1>14, <1>15, <1>16
         DEF Next, Manager, Charger

-----------------------------------------------------------------------------
(* What the manager has in hand, and the order of requests and answers.       *)

\* The callers' steps and the rebuild leave all this alone.
Aside == /\ UNCHANGED <<link, pc, cmd, new, got, dev, jobs, air, cache, told, history>>
         /\ last' = last \/ (link = "down" /\ last' = [last EXCEPT !.known = FALSE])

LEMMA AsideFacts == Callings \/ QueueOrder \/ PutterResumes \/ Rebuild \/ UNCHANGED vars => Aside
<1>1. ASSUME NEW c, SendCommand(c) PROVE Aside
  BY <1>1 DEF SendCommand, Callee, Aside
<1>2. ASSUME NEW who \in Callers, CallTimesOut(who) PROVE Aside
  BY <1>2 DEF CallTimesOut, Callee, Aside
<1>3. Callings => Aside
  BY <1>1, <1>2 DEF Callings, HandlePort, HandleProtocol
<1>4. QueueOrder \/ PutterResumes \/ Rebuild \/ UNCHANGED vars => Aside
  BY DEF QueueOrder, PutterResumes, Rebuild, Callee, Aside, vars, history
<1>. QED BY <1>3, <1>4

\* A command is taken: what is sent first.
LEMMA TakeFacts ==
    ASSUME TypeOK, TakeCommand
    PROVE  /\ cmd' \in Cmds /\ met' = Meets(cmd', dev) /\ pc' \in {"read", "write"}
           /\ UNCHANGED <<got, link, dev, cache, last, told, touched, flipped>>
           /\ \/ pc' = "read" /\ cmd'.reg = "mask" /\ new' = new /\ Send("get", "mask", {}, {})
              \/ WriteNow(cmd', {}) /\ (cmd'.reg = "mask" => cmd'.names = Ports)
<1>. DEFINE c == Head(queue)
<1>1. /\ c \in Cmds /\ cmd' = c /\ met' = Meets(c, dev)
      /\ UNCHANGED <<got, link, dev, cache, refresh, last, told, touched, flipped>>
  <2>1. queue # <<>>
    BY DEF TakeCommand
  <2>. QED BY <2>1, QueueFacts DEF TakeCommand, TypeOK
<1>2. \/ c.reg = "mask" /\ pc' = "read" /\ new' = new /\ Send("get", "mask", {}, {})
      \/ WriteNow(c, {}) /\ (c.reg = "mask" => c.names = Ports)
  BY DEF TakeCommand
<1>3. WriteNow(c, {}) => pc' = "write"
  BY DEF WriteNow
<1>. QED BY <1>1, <1>2, <1>3

\* The mask is read: nothing is written, or what is wanted of it.
LEMMA ReadFacts ==
    ASSUME TypeOK, ReadMask
    PROVE  \E a \in Messages :
             /\ air # <<>> /\ a = air[1] /\ 1 \in DOMAIN air /\ a.op = "get" /\ a.reg = "mask" /\ a.val \in SUBSET Ports
             /\ misled' = (misled \/ a.old) /\ Trust(a.val, a.old)
             /\ UNCHANGED <<got, dev, cache, last, told, met, flipped>>
             /\ \/ Wanted(cmd, a.val) = a.val /\ Finish("ok") /\ air' = Tail(air) /\ jobs' = jobs
                \/ WriteNow(cmd, a.val) /\ cmd' = cmd /\ call' = call
<1>1. PICK a \in Received({"get"}, "mask") :
            /\ misled' = (misled \/ a.old) /\ Trust(a.val, a.old)
            /\ IF Wanted(cmd, a.val) = a.val
               THEN Finish("ok") /\ air' = Tail(air) /\ UNCHANGED jobs
               ELSE WriteNow(cmd, a.val) /\ UNCHANGED <<cmd, call>>
  BY DEF ReadMask
<1>2. air # <<>> /\ a = air[1] /\ 1 \in DOMAIN air /\ a \in Messages /\ a.op = "get" /\ a.reg = "mask"
  BY ReceivedFacts DEF TypeOK
<1>3. a.val \in SUBSET Ports
  BY <1>2, MessageFacts DEF Values
<1>4. UNCHANGED <<got, dev, cache, last, told, met, flipped>>
  BY DEF ReadMask
<1>5. \/ Wanted(cmd, a.val) = a.val /\ Finish("ok") /\ air' = Tail(air) /\ jobs' = jobs
      \/ WriteNow(cmd, a.val) /\ cmd' = cmd /\ call' = call
  BY <1>1
<1>. QED BY <1>1, <1>2, <1>3, <1>4, <1>5

\* The write is confirmed.
LEMMA ConfirmFacts ==
    ASSUME TypeOK, HandInv, WriteConfirmed
    PROVE  \E a \in Messages, known \in Values(cmd.reg) :
             /\ air # <<>> /\ a = air[1] /\ 1 \in DOMAIN air /\ a.op \in {"set", "echo"} /\ a.reg = cmd.reg
             /\ known = (IF a.op = "echo" /\ cmd.reg = "mask" THEN a.val ELSE new)
             /\ misled' = (misled \/ a.old \/ known # new)
             /\ \/ /\ cmd.reg = "mask" /\ cache' = [cache EXCEPT !.mask = known, !.known = TRUE]
                   /\ told' = (told \ cmd.names) \cup (known \cap cmd.names)
                   /\ Learn(known, a.old) /\ flipped' = flipped \cup cmd.names
                \/ cmd.reg = "proto" /\ cache' = [cache EXCEPT !.proto = known] /\ UNCHANGED <<told, touched, flipped>>
             /\ Finish("ok") /\ air' = Tail(air) /\ UNCHANGED <<got, dev, jobs, last, met>>
<1>1. PICK a \in Received({"set", "echo"}, cmd.reg) :
           LET known == IF a.op = "echo" /\ cmd.reg = "mask" THEN a.val ELSE new IN
           /\ IF cmd.reg = "mask"
              THEN /\ cache' = [cache EXCEPT !.mask = known, !.known = TRUE]
                   /\ told' = (told \ cmd.names) \cup (known \cap cmd.names)
                   /\ Learn(known, a.old) /\ flipped' = flipped \cup cmd.names
              ELSE cache' = [cache EXCEPT !.proto = known] /\ UNCHANGED <<told, touched, flipped>>
           /\ misled' = (misled \/ a.old \/ known # new)
  BY DEF WriteConfirmed
<1>. DEFINE known == IF a.op = "echo" /\ cmd.reg = "mask" THEN a.val ELSE new
<1>2. air # <<>> /\ a = air[1] /\ 1 \in DOMAIN air /\ a \in Messages /\ a.op \in {"set", "echo"} /\ a.reg = cmd.reg
  BY ReceivedFacts DEF TypeOK
<1>3. cmd.reg \in {"mask", "proto"}
  BY CommandFacts DEF TypeOK, Regs
<1>4. known \in Values(cmd.reg)
  BY <1>2, MessageFacts DEF HandInv, WriteConfirmed
<1>5. Finish("ok") /\ air' = Tail(air) /\ UNCHANGED <<got, dev, jobs, last, met>>
  BY DEF WriteConfirmed
<1>. QED BY <1>1, <1>2, <1>3, <1>4, <1>5

\* The mask is read for the settings, or not.
LEMMA FetchFacts ==
    ASSUME TypeOK, FetchMask
    PROVE  /\ Send("get", "proto", {}, {}) /\ pc \in {"fetch16", "boot16"} /\ pc' \in {"boot21", "fetch21"}
           /\ UNCHANGED <<cmd, dev, cache, last, told, met, misled, flipped>>
           /\ \/ UNCHANGED <<new, got, touched>>
              \/ \E a \in Messages :
                    /\ air # <<>> /\ a = air[1] /\ 1 \in DOMAIN air /\ a.reg = "mask" /\ a.val \in SUBSET Ports
                    /\ new' = a.val /\ Trust(a.val, a.old) /\ got' = TRUE
<1>1. /\ Send("get", "proto", {}, {}) /\ pc \in {"fetch16", "boot16"} /\ pc' \in {"boot21", "fetch21"}
      /\ UNCHANGED <<cmd, dev, cache, last, told, met, misled, flipped>>
  BY DEF FetchMask
<1>2. ASSUME NEW a \in Received({"get"}, "mask")
      PROVE  a \in Messages /\ air # <<>> /\ a = air[1] /\ 1 \in DOMAIN air /\ a.reg = "mask" /\ a.val \in SUBSET Ports
  <2>1. a \in Messages /\ air # <<>> /\ a = air[1] /\ 1 \in DOMAIN air /\ a.reg = "mask"
    BY ReceivedFacts DEF TypeOK
  <2>. QED BY <2>1, MessageFacts DEF Values
<1>3. \/ UNCHANGED <<new, got, touched>>
      \/ \E a \in Received({"get"}, "mask") : new' = a.val /\ Trust(a.val, a.old) /\ got' = TRUE
  BY DEF FetchMask
<1>. QED BY <1>1, <1>2, <1>3

LEMMA ProtocolFacts ==
    ASSUME FetchProtocol
    PROVE  /\ pc \in {"fetch21", "boot21"} /\ pc' = "idle" /\ new' = {} /\ got' = FALSE
           /\ cache'.mask = new /\ cache'.known = (cache.known \/ got)
           /\ (air' = air \/ (air # <<>> /\ air' = Tail(air)))
           /\ told' = (IF pc = "boot21" THEN new ELSE EmitChanges(new)) /\ last' = [mask |-> new, known |-> TRUE]
           /\ flipped' = {p \in flipped : (p \in told') # (p \in new)}
           /\ touched' = (IF got /\ ~OrderOnItsWay THEN touched \cap Differ(new) ELSE touched)
           /\ UNCHANGED <<cmd, dev, jobs, met>>
BY DEF FetchProtocol, Received

\* The charger serves the oldest request, or it is lost.
LEMMA ServeFacts ==
    ASSUME TypeOK, Charger \/ RequestLost
    PROVE  \E j \in Messages :
             /\ jobs # <<>> /\ j = jobs[1] /\ 1 \in DOMAIN jobs /\ jobs' = Tail(jobs) /\ App
             /\ \/ air' = air /\ UNCHANGED <<dev, met, touched>>
                \/ \E a \in Messages :
                      /\ air' = Append(air, a) /\ a.old = j.old /\ a.reg = j.reg
                      /\ \/ /\ j.op = "get" /\ a.op = "get" /\ UNCHANGED <<dev, met, touched>>
                            /\ j.reg = "mask" => a.val = dev.mask
                         \/ /\ j.op = "set" /\ j.reg = "mask" /\ a.op = "echo" /\ UNCHANGED <<dev, touched>>
                            /\ a.val = dev.mask /\ met' = (met \/ Meets(cmd, dev))
                         \/ /\ j.op = "set" /\ a.op \in {"set", "echo"} /\ a.val = j.val
                            /\ dev' = (IF j.reg = "mask" THEN [dev EXCEPT !.mask = j.val] ELSE [dev EXCEPT !.proto = j.val])
                            /\ touched' = touched \cup (IF j.reg = "mask" THEN Differ(j.val) ELSE {})
                            /\ met' = (met \/ Meets(cmd, dev'))
                \/ /\ j.op = "set" /\ air' = air
                   /\ dev' = (IF j.reg = "mask" THEN [dev EXCEPT !.mask = j.val] ELSE [dev EXCEPT !.proto = j.val])
                   /\ touched' = touched \cup (IF j.reg = "mask" THEN Differ(j.val) ELSE {})
                   /\ met' = (met \/ Meets(cmd, dev'))
<1>. DEFINE j == Head(jobs)
<1>1. jobs # <<>> /\ jobs' = Tail(jobs) /\ App
  BY DEF Charger, RequestLost, ChargerReads, ChargerWrites
<1>2. j \in Messages /\ j = jobs[1] /\ 1 \in DOMAIN jobs
  BY <1>1, QueueFacts DEF TypeOK
<1>. SUFFICES
       \/ air' = air /\ UNCHANGED <<dev, met, touched>>
       \/ \E a \in Messages :
             /\ air' = Append(air, a) /\ a.old = j.old /\ a.reg = j.reg
             /\ \/ /\ j.op = "get" /\ a.op = "get" /\ UNCHANGED <<dev, met, touched>>
                   /\ j.reg = "mask" => a.val = dev.mask
                \/ /\ j.op = "set" /\ j.reg = "mask" /\ a.op = "echo" /\ UNCHANGED <<dev, touched>>
                   /\ a.val = dev.mask /\ met' = (met \/ Meets(cmd, dev))
                \/ /\ j.op = "set" /\ a.op \in {"set", "echo"} /\ a.val = j.val
                   /\ dev' = (IF j.reg = "mask" THEN [dev EXCEPT !.mask = j.val] ELSE [dev EXCEPT !.proto = j.val])
                   /\ touched' = touched \cup (IF j.reg = "mask" THEN Differ(j.val) ELSE {})
                   /\ met' = (met \/ Meets(cmd, dev'))
       \/ /\ j.op = "set" /\ air' = air
          /\ dev' = (IF j.reg = "mask" THEN [dev EXCEPT !.mask = j.val] ELSE [dev EXCEPT !.proto = j.val])
          /\ touched' = touched \cup (IF j.reg = "mask" THEN Differ(j.val) ELSE {})
          /\ met' = (met \/ Meets(cmd, dev'))
  BY <1>1, <1>2
<1>3. CASE RequestLost
  BY <1>3 DEF RequestLost
<1>4. CASE ChargerReads
  <2>1. /\ j.op = "get" /\ UNCHANGED <<dev, met, touched>>
        /\ air' = Append(air, Answer(j)) \/ air' = air
    BY <1>4 DEF ChargerReads
  <2>2. /\ Answer(j) \in Messages /\ Answer(j).op = j.op /\ Answer(j).reg = j.reg /\ Answer(j).old = j.old
        /\ j.reg = "mask" => Answer(j).val = dev.mask
    BY <1>2, AnswerFacts DEF TypeOK
  <2>. QED BY <2>1, <2>2
<1>5. CASE ChargerWrites
  <2>1. j.op = "set"
    BY <1>5 DEF ChargerWrites
  <2>2. CASE /\ j.reg = "mask" /\ UNCHANGED <<dev, touched>> /\ met' = (met \/ Meets(cmd, dev'))
             /\ air' = Append(air, [j EXCEPT !.op = "echo", !.val = dev.mask])
    <3>. HIDE DEF j
    <3>1. dev.mask \in Values(j.reg)
      BY <2>2 DEF TypeOK, Values
    <3>2. PICK m, v : m = j /\ v = dev.mask /\ m \in Messages /\ v \in Values(m.reg)
      BY <1>2, <3>1
    <3>3. PICK a : a = [m EXCEPT !.op = "echo", !.val = v]
      OBVIOUS
    <3>4. a \in Messages /\ a.op = "echo" /\ a.reg = m.reg /\ a.val = v /\ a.old = m.old
      <4>1. m \in Messages /\ v \in Values(m.reg)
        BY <3>2
      <4>2. a \in Messages
        BY <3>3, <4>1, Refused
      <4>3. PICK reg \in Regs :
               m \in [op : {"get", "set", "echo"}, reg : {reg}, val : Values(reg),
                     names : SUBSET (Ports \cup Switches), old : BOOLEAN]
        BY <4>1 DEF Messages
      <4>. QED BY <3>3, <4>2, <4>3
    <3>5. air' = Append(air, a)
      BY <2>2, <3>2, <3>3, Zenon
    <3>. QED BY <2>1, <2>2, <3>2, <3>4, <3>5
  <2>3. CASE /\ dev' = (IF j.reg = "mask" THEN [dev EXCEPT !.mask = j.val] ELSE [dev EXCEPT !.proto = j.val])
             /\ touched' = touched \cup (IF j.reg = "mask" THEN Differ(j.val) ELSE {})
             /\ met' = (met \/ Meets(cmd, dev'))
             /\ (\E op \in {"set", "echo"} : air' = Append(air, [j EXCEPT !.op = op])) \/ air' = air
    <3>1. ASSUME NEW op \in {"set", "echo"}, air' = Append(air, [j EXCEPT !.op = op])
          PROVE  \E a \in Messages : /\ air' = Append(air, a) /\ a.old = j.old /\ a.reg = j.reg
                                     /\ a.op \in {"set", "echo"} /\ a.val = j.val
      <4>. HIDE DEF j
      <4>1. ASSUME NEW a, a = [j EXCEPT !.op = op]
            PROVE  a \in Messages /\ a.op = op /\ a.reg = j.reg /\ a.val = j.val /\ a.old = j.old
        BY <1>2, <4>1, Acknowledged
      <4>. QED BY <3>1, <4>1
    <3>. QED BY <2>1, <2>3, <3>1
  <2>. QED BY <1>5, <2>2, <2>3 DEF ChargerWrites
<1>. QED BY <1>3, <1>4, <1>5 DEF Charger

\* The handler fails.
Fails == pc \in {"read", "write"} /\ Finish("error") /\ UNCHANGED <<link, got, dev, jobs, air, cache, last, told, history>>

\* The mask was not read, the cached one is used.
FallsBack ==
    /\ pc = "read" /\ cache.known /\ WriteNow(cmd, cache.mask)
    /\ UNCHANGED <<link, cmd, got, dev, cache, last, told, history>>

\* A refresh begins.
Asks ==
    /\ Send("get", "mask", {}, {}) /\ new' = cache.mask /\ got' = FALSE
    /\ pc' \in {"fetch16", "boot16"} /\ link' = "up" /\ (pc' = "fetch16" => pc = "idle")
    /\ UNCHANGED <<cmd, dev, cache, last, told, history>>

\* The link is gone.
Cut ==
    /\ link' = "down" /\ pc' = "off" /\ jobs' = <<>> /\ air' = <<>> /\ got' = FALSE
    /\ UNCHANGED <<dev, cache, last, told, history>>

\* The charger changes a port by itself.
Changes ==
    /\ \E p \in Ports, mask \in SUBSET Ports :
         /\ mask \in {dev.mask \cup {p}, dev.mask \ {p}}
         /\ dev' = [dev EXCEPT !.mask = mask] /\ touched' = touched \cup {p}
    /\ met' = (met \/ Meets(cmd, dev')) /\ App /\ UNCHANGED <<jobs, air>>
    /\ left.outside > 0 /\ left' = [left EXCEPT !.outside = @ - 1]

LEMMA StepKinds ==
    ASSUME [Next]_vars
    PROVE  \/ Aside \/ Fails \/ FallsBack \/ Asks \/ Cut \/ Changes
           \/ TakeCommand \/ ReadMask \/ WriteConfirmed \/ DropAnswer \/ FetchMask \/ FetchProtocol
           \/ Charger \/ RequestLost
<1>1. CASE Callings \/ QueueOrder \/ PutterResumes \/ Rebuild \/ UNCHANGED vars
  BY <1>1, AsideFacts
<1>2. CASE ReadSilent
  BY <1>2 DEF ReadSilent, Fails, FallsBack, history
<1>3. CASE WriteSilent \/ HandlerRaises
  BY <1>3 DEF WriteSilent, HandlerRaises, Fails, history
<1>4. CASE RefreshSettings \/ Connect
  BY <1>4 DEF RefreshSettings, Connect, Asks, history
<1>5. CASE LinkLost
  BY <1>5 DEF LinkLost, Cut, history
<1>6. CASE ChargerChanges
  BY <1>6 DEF ChargerChanges, Changes
<1>. QED BY <1>1, <1>2, <1>3, <1>4, <1>5, <1>6 DEF Next, Manager

\* What the manager has in hand is what its next step needs.
LEMMA HandStep ==
    ASSUME TypeOK, HandInv, [Next]_vars
    PROVE  HandInv'
<1>. USE DEF HandInv
<1>t. /\ jobs \in Seq(Messages) /\ cmd \in Cmds /\ cache.mask \in SUBSET Ports
      /\ call \in [Callers -> {"free", "putting", "waiting", "ok", "error", "timeout"}]
  BY DEF TypeOK
<1>1. CASE Aside
  BY <1>1 DEF Aside
<1>2. CASE Fails
  BY <1>2 DEF Fails, Finish, history
<1>3. CASE FallsBack
  <2>1. pc' = "write" /\ new' \in Values(cmd.reg) /\ Right(cmd, new')
    BY <1>t, <1>3, WriteFacts DEF FallsBack
  <2>. QED BY <1>3, <2>1 DEF FallsBack
<1>4. CASE Asks
  BY <1>4 DEF Asks
<1>5. CASE Cut
  BY <1>5 DEF Cut
<1>6. CASE Changes \/ Charger \/ RequestLost
  BY <1>6 DEF Changes, Charger, ChargerReads, ChargerWrites, RequestLost, App
<1>7. CASE TakeCommand
  <2>1. /\ cmd' \in Cmds /\ pc' \in {"read", "write"} /\ UNCHANGED <<link, last>> /\ pc = "idle" /\ link = "up"
        /\ (pc' = "read" /\ cmd'.reg = "mask") \/ WriteNow(cmd', {})
    BY <1>7, TakeFacts DEF TakeCommand
  <2>2. CASE WriteNow(cmd', {})
    <3>1. \A c \in Cmds : WriteNow(c, {}) => pc' = "write" /\ new' \in Values(c.reg) /\ Right(c, new')
      BY <1>t, WriteFacts
    <3>. QED BY <2>1, <2>2, <3>1
  <2>. QED BY <2>1, <2>2
<1>8. CASE ReadMask
  <2>1. PICK a \in Messages :
           /\ a.val \in SUBSET Ports /\ UNCHANGED last
           /\ Finish("ok") \/ (WriteNow(cmd, a.val) /\ cmd' = cmd)
    BY <1>8, ReadFacts
  <2>2. CASE Finish("ok")
    BY <1>8, <2>1, <2>2 DEF Finish, ReadMask
  <2>3. CASE WriteNow(cmd, a.val) /\ cmd' = cmd
    BY <1>t, <1>8, <2>1, <2>3, WriteFacts DEF ReadMask
  <2>. QED BY <2>1, <2>2, <2>3
<1>9. CASE WriteConfirmed
  BY <1>9 DEF WriteConfirmed, Finish
<1>10. CASE DropAnswer
  BY <1>10 DEF DropAnswer
<1>11. CASE FetchMask
  <2>1. new' \subseteq Ports
    BY <1>t, <1>11, FetchFacts
  <2>. QED BY <1>11, <2>1 DEF FetchMask
<1>12. CASE FetchProtocol
  BY <1>12 DEF FetchProtocol
<1>. QED BY <1>1, <1>2, <1>3, <1>4, <1>5, <1>6, <1>7, <1>8, <1>9, <1>10, <1>11, <1>12, StepKinds

\* A request is sent, the one that is waited for next.
LEMMA SentInOrder ==
    ASSUME jobs \in Seq(Messages), OrderInv, NEW op \in {"get", "set"}, NEW reg \in Regs, NEW val \in Values(reg),
           NEW names \in SUBSET (Ports \cup Switches), Send(op, reg, val, names),
           Asked([op |-> op, reg |-> reg, val |-> val, names |-> names, old |-> FALSE], pc', cmd', new')
    PROVE  OrderInv'
<1>1. air' = <<>> /\ jobs' \in Seq(Messages)
      /\ \A i \in DOMAIN jobs' :
            \/ i \in DOMAIN jobs /\ jobs'[i].old /\ jobs'[i].op = jobs[i].op
            \/ i = Len(jobs') /\ jobs'[i] = [op |-> op, reg |-> reg, val |-> val, names |-> names, old |-> FALSE]
  BY SendFacts
<1>2. ASSUME NEW i \in DOMAIN jobs'
      PROVE  jobs'[i].op \in {"get", "set"} /\ (~jobs'[i].old => i = Len(jobs') /\ Asked(jobs'[i], pc', cmd', new'))
  <2>1. CASE i \in DOMAIN jobs /\ jobs'[i].old /\ jobs'[i].op = jobs[i].op
    BY <2>1 DEF OrderInv
  <2>2. CASE i = Len(jobs') /\ jobs'[i] = [op |-> op, reg |-> reg, val |-> val, names |-> names, old |-> FALSE]
    BY <2>2
  <2>. QED BY <1>1, <2>1, <2>2
<1>3. DOMAIN air' = {}
  BY <1>1
<1>. QED BY <1>2, <1>3 DEF OrderInv

\* Nothing is waited for any more.
LEMMA IdleInOrder ==
    ASSUME air \in Seq(Messages), OrderInv, pc' \in {"idle", "off"}, jobs' = jobs,
           air' = air \/ (air # <<>> /\ air' = Tail(air))
    PROVE  OrderInv'
<1>1. \A j, c, v : Asked(j, pc', c, v)
  BY DEF Asked, Reads
<1>2. \A a, c, v, b : Answered(a, pc', c, v, b)
  BY DEF Answered, Reads
<1>3. \A i \in DOMAIN jobs' : jobs'[i].op \in {"get", "set"} /\ (~jobs'[i].old => i = Len(jobs'))
  BY DEF OrderInv
<1>4. \A i \in DOMAIN air' : ~air'[i].old => i = Len(air') /\ jobs' = <<>>
  <2>1. CASE air' = air
    BY <2>1 DEF OrderInv
  <2>2. CASE air # <<>> /\ air' = Tail(air)
    <3>1. /\ Len(air') = Len(air) - 1 /\ Len(air) \in Nat /\ DOMAIN air' = 1..Len(air')
          /\ \A i \in DOMAIN air' : i + 1 \in DOMAIN air /\ air'[i] = air[i + 1]
      BY <2>2, QueueFacts
    <3>2. ASSUME NEW i \in DOMAIN air', ~air'[i].old PROVE i = Len(air') /\ jobs' = <<>>
      <4>1. i + 1 \in DOMAIN air /\ ~air[i + 1].old /\ i \in Nat
        BY <3>1, <3>2
      <4>2. i + 1 = Len(air) /\ jobs = <<>>
        BY <4>1 DEF OrderInv
      <4>. QED BY <3>1, <4>1, <4>2
    <3>. QED BY <3>2
  <2>. QED BY <2>1, <2>2
<1>. QED BY <1>1, <1>2, <1>3, <1>4 DEF OrderInv

\* The charger serves the oldest request.
LEMMA ServedInOrder ==
    ASSUME TypeOK, HandInv, OrderInv, MetInv, Charger \/ RequestLost
    PROVE  OrderInv'
<1>. PICK j \in Messages :
             /\ jobs # <<>> /\ j = jobs[1] /\ 1 \in DOMAIN jobs /\ jobs' = Tail(jobs) /\ App
             /\ \/ air' = air /\ UNCHANGED <<dev, met, touched>>
                \/ \E a \in Messages :
                      /\ air' = Append(air, a) /\ a.old = j.old /\ a.reg = j.reg
                      /\ \/ /\ j.op = "get" /\ a.op = "get" /\ UNCHANGED <<dev, met, touched>>
                            /\ j.reg = "mask" => a.val = dev.mask
                         \/ /\ j.op = "set" /\ j.reg = "mask" /\ a.op = "echo" /\ UNCHANGED <<dev, touched>>
                            /\ a.val = dev.mask /\ met' = (met \/ Meets(cmd, dev))
                         \/ /\ j.op = "set" /\ a.op \in {"set", "echo"} /\ a.val = j.val
                            /\ dev' = (IF j.reg = "mask" THEN [dev EXCEPT !.mask = j.val] ELSE [dev EXCEPT !.proto = j.val])
                            /\ touched' = touched \cup (IF j.reg = "mask" THEN Differ(j.val) ELSE {})
                            /\ met' = (met \/ Meets(cmd, dev'))
                \/ /\ j.op = "set" /\ air' = air
                   /\ dev' = (IF j.reg = "mask" THEN [dev EXCEPT !.mask = j.val] ELSE [dev EXCEPT !.proto = j.val])
                   /\ touched' = touched \cup (IF j.reg = "mask" THEN Differ(j.val) ELSE {})
                   /\ met' = (met \/ Meets(cmd, dev'))
  BY ServeFacts
<1>t. /\ dev \in [mask : SUBSET Ports, proto : SUBSET Switches] /\ cmd \in Cmds
      /\ jobs \in Seq(Messages) /\ air \in Seq(Messages)
  BY DEF TypeOK
<1>1. pc' = pc /\ cmd' = cmd /\ new' = new
  BY DEF App
<1>2. /\ Len(jobs') = Len(jobs) - 1 /\ Len(jobs) \in Nat /\ DOMAIN jobs = 1..Len(jobs)
      /\ DOMAIN jobs' = 1..Len(jobs') /\ DOMAIN jobs' \subseteq Nat
      /\ \A i \in DOMAIN jobs' : i + 1 \in DOMAIN jobs /\ jobs'[i] = jobs[i + 1]
      /\ (Len(jobs') = 0 => jobs' = <<>>)
  BY <1>t, QueueFacts
<1>3. \A i \in DOMAIN jobs' : jobs'[i].op \in {"get", "set"}
                             /\ (~jobs'[i].old => i = Len(jobs') /\ Asked(jobs'[i], pc', cmd', new'))
  BY <1>1, <1>2 DEF OrderInv
<1>4. \A i \in DOMAIN air : air[i].old
  BY DEF OrderInv
<1>5. CASE air' = air
  BY <1>3, <1>4, <1>5 DEF OrderInv
<1>6. ASSUME NEW a \in Messages, air' = Append(air, a), a.old = j.old, a.reg = j.reg, ~a.old => Answered(a, pc, cmd, new, met')
      PROVE  OrderInv'
  <2>1. \A i \in DOMAIN air' : (i \in DOMAIN air /\ air'[i] = air[i]) \/ (i = Len(air') /\ air'[i] = a)
    BY <1>t, <1>6, QueueFacts
  <2>2. ~a.old => jobs' = <<>>
    <3>1. ~j.old => 1 = Len(jobs)
      BY DEF OrderInv
    <3>. QED BY <1>2, <1>6, <3>1
  <2>. QED BY <1>1, <1>3, <1>4, <1>6, <2>1, <2>2 DEF OrderInv
<1>7. ~j.old => Asked(j, pc, cmd, new)
  BY DEF OrderInv
<1>8. cmd.reg \in Regs /\ cmd.names \in SUBSET (Ports \cup Switches)
  BY <1>t, CommandFacts
<1>9. ASSUME NEW a \in Messages, air' = Append(air, a), a.old = j.old, a.reg = j.reg,
             j.op = "get", a.op = "get", UNCHANGED met, j.reg = "mask" => a.val = dev.mask
      PROVE  OrderInv'
  <2>1. ASSUME pc = "read", Wanted(cmd, a.val) = a.val, j.reg = "mask" PROVE met
    BY <1>8, <1>9, <2>1 DEF HandInv, MetInv, Wanted, Meets
  <2>2. ASSUME Asked(j, pc, cmd, new) PROVE Answered(a, pc, cmd, new, met')
    BY <1>9, <2>1, <2>2 DEF Asked, Answered, Reads
  <2>. QED BY <1>6, <1>7, <1>9, <2>2
<1>10. ASSUME NEW a \in Messages, air' = Append(air, a), a.old = j.old, a.reg = j.reg,
              j.op = "set", a.op \in {"set", "echo"}, met' = (met \/ Meets(cmd, dev')),
              IF a.op = "echo" /\ j.reg = "mask" THEN a.val = dev'.mask
              ELSE a.val = j.val /\ dev'[j.reg] = j.val
       PROVE  OrderInv'
  <2>1. ASSUME Asked(j, pc, cmd, new), pc = "write", a.op = "echo" /\ cmd.reg = "mask" => a.val = new PROVE met'
    <3>1. j.reg = cmd.reg /\ j.val = new /\ Right(cmd, new)
      BY <2>1 DEF HandInv, Asked
    <3>2. dev'[cmd.reg] = new
      BY <1>10, <2>1, <3>1
    <3>3. Meets(cmd, dev')
      BY <1>8, <3>1, <3>2 DEF Meets, Right, Regs
    <3>. QED BY <1>10, <3>3
  <2>2. ASSUME Asked(j, pc, cmd, new) PROVE Answered(a, pc, cmd, new, met')
    <3>1. pc \notin Reads \cup {"fetch21", "boot21"}
      BY <1>10, <2>2 DEF Asked
    <3>2. ASSUME pc = "write"
          PROVE  a.reg = cmd.reg /\ (a.op = "set" => a.val = new)
      BY <1>10, <2>2, <3>2 DEF Asked
    <3>. QED BY <1>10, <2>1, <2>2, <3>1, <3>2 DEF Answered, Reads
  <2>. QED BY <1>6, <1>7, <1>10, <2>2
<1>. QED
  <2>1. ASSUME NEW a \in Messages, air' = Append(air, a), a.old = j.old, a.reg = j.reg,
               j.op = "set", a.op \in {"set", "echo"}, a.val = j.val,
               dev' = (IF j.reg = "mask" THEN [dev EXCEPT !.mask = j.val] ELSE [dev EXCEPT !.proto = j.val]),
               met' = (met \/ Meets(cmd, dev'))
        PROVE  OrderInv'
    <3>1. dev'[j.reg] = j.val /\ (j.reg = "mask" => a.val = dev'.mask)
      <4>1. j.reg \in {"mask", "proto"}
        BY MessageFacts DEF Regs
      <4>. QED BY <1>t, <2>1, <4>1
    <3>. QED BY <1>10, <2>1, <3>1
  <2>2. ASSUME NEW a \in Messages, air' = Append(air, a), a.old = j.old, a.reg = j.reg,
               j.op = "set", j.reg = "mask", a.op = "echo", UNCHANGED dev, a.val = dev.mask, met' = (met \/ Meets(cmd, dev))
        PROVE  OrderInv'
    <3>1. met' = (met \/ Meets(cmd, dev'))
      BY <2>2 DEF Meets
    <3>. QED BY <1>10, <2>2, <3>1
  <2>. QED BY <1>5, <1>9, <2>1, <2>2

\* The answer that is waited for is the next that is not an older request's.
LEMMA OrderStep ==
    ASSUME TypeOK, HandInv, OrderInv, MetInv, [Next]_vars
    PROVE  OrderInv'
<1>t. /\ jobs \in Seq(Messages) /\ air \in Seq(Messages) /\ cmd \in Cmds /\ cache.mask \in SUBSET Ports
      /\ {} \in SUBSET (Ports \cup Switches) /\ \A reg \in Regs : {} \in Values(reg)
  BY DEF TypeOK, Values
<1>w. ASSUME NEW c \in Cmds, NEW base \in SUBSET Ports, WriteNow(c, base), cmd' = c
      PROVE  OrderInv'
  <2>1. /\ pc' = "write" /\ new' \in Values(c.reg) /\ Send("set", c.reg, new', c.names)
        /\ c.reg \in Regs /\ c.names \in SUBSET (Ports \cup Switches)
    BY <1>t, <1>w, WriteFacts, CommandFacts
  <2>2. Asked([op |-> "set", reg |-> c.reg, val |-> new', names |-> c.names, old |-> FALSE], pc', cmd', new')
    BY <1>w, <2>1 DEF Asked, Reads
  <2>. QED BY <1>t, <2>1, <2>2, SentInOrder
<1>g. ASSUME NEW reg \in Regs, Send("get", reg, {}, {}),
             \/ reg = "mask" /\ pc' \in Reads
             \/ reg = "proto" /\ pc' \in {"fetch21", "boot21"}
      PROVE  OrderInv'
  <2>1. Asked([op |-> "get", reg |-> reg, val |-> {}, names |-> {}, old |-> FALSE], pc', cmd', new')
    BY <1>g DEF Asked, Reads
  <2>. QED BY <1>t, <1>g, <2>1, SentInOrder
<1>1. CASE Aside
  BY <1>1 DEF Aside, OrderInv, history
<1>2. CASE Fails
  BY <1>t, <1>2, IdleInOrder DEF Fails, Finish
<1>3. CASE FallsBack
  BY <1>t, <1>3, <1>w DEF FallsBack
<1>4. CASE Asks
  BY <1>4, <1>g DEF Asks, Regs, Reads
<1>5. CASE Cut
  BY <1>5, QueueFacts DEF Cut, OrderInv
<1>6. CASE Changes
  <2>1. UNCHANGED <<pc, cmd, new, jobs, air>> /\ (met => met')
    BY <1>6 DEF Changes, App
  <2>2. \A a : Answered(a, pc, cmd, new, met) => Answered(a, pc, cmd, new, met')
    BY <2>1 DEF Answered
  <2>. QED BY <2>1, <2>2 DEF OrderInv
<1>7. CASE TakeCommand
  <2>1. /\ cmd' \in Cmds
        /\ \/ pc' = "read" /\ Send("get", "mask", {}, {})
           \/ WriteNow(cmd', {})
    BY <1>7, TakeFacts
  <2>2. \A c \in Cmds : WriteNow(c, {}) /\ cmd' = c => OrderInv'
    BY <1>w
  <2>. QED BY <1>g, <2>1, <2>2 DEF Regs, Reads
<1>8. CASE ReadMask
  <2>1. PICK a \in Messages :
           /\ air # <<>> /\ a.val \in SUBSET Ports
           /\ \/ Finish("ok") /\ air' = Tail(air) /\ jobs' = jobs
              \/ WriteNow(cmd, a.val) /\ cmd' = cmd
    BY <1>8, ReadFacts
  <2>2. CASE Finish("ok") /\ air' = Tail(air) /\ jobs' = jobs
    BY <1>t, <2>1, <2>2, IdleInOrder DEF Finish
  <2>3. CASE WriteNow(cmd, a.val) /\ cmd' = cmd
    BY <1>t, <1>w, <2>1, <2>3
  <2>. QED BY <2>1, <2>2, <2>3
<1>9. CASE WriteConfirmed
  <2>1. air # <<>> /\ air' = Tail(air) /\ jobs' = jobs /\ pc' = "idle"
    BY <1>9, ConfirmFacts DEF Finish
  <2>. QED BY <1>t, <2>1, IdleInOrder
<1>10. CASE DropAnswer
  <2>1. air # <<>> /\ air' = Tail(air) /\ UNCHANGED <<pc, cmd, new, jobs, met>>
    BY <1>10 DEF DropAnswer, history
  <2>2. /\ Len(air') = Len(air) - 1 /\ Len(air) \in Nat /\ DOMAIN air' = 1..Len(air')
        /\ \A i \in DOMAIN air' : i + 1 \in DOMAIN air /\ air'[i] = air[i + 1]
    BY <1>t, <2>1, QueueFacts
  <2>3. ASSUME NEW i \in DOMAIN air', ~air'[i].old
        PROVE  i = Len(air') /\ jobs' = <<>> /\ Answered(air'[i], pc', cmd', new', met')
    <3>1. i + 1 \in DOMAIN air /\ ~air[i + 1].old /\ i \in Nat /\ air'[i] = air[i + 1]
      BY <2>2, <2>3
    <3>2. i + 1 = Len(air) /\ jobs = <<>> /\ Answered(air[i + 1], pc, cmd, new, met)
      BY <3>1 DEF OrderInv
    <3>. QED BY <2>1, <2>2, <3>1, <3>2
  <2>. QED BY <2>1, <2>3 DEF OrderInv
<1>11. CASE FetchMask
  BY <1>11, <1>g, FetchFacts DEF Regs
<1>12. CASE FetchProtocol
  BY <1>t, <1>12, ProtocolFacts, IdleInOrder
<1>13. CASE Charger \/ RequestLost
  BY <1>13, ServedInOrder
<1>. QED BY <1>1, <1>2, <1>3, <1>4, <1>5, <1>6, <1>7, <1>8, <1>9, <1>10, <1>11, <1>12, <1>13, StepKinds

-----------------------------------------------------------------------------
(* What is known of the charger.                                            *)

\* A command that becomes true of the charger is noted.
LEMMA MetStep ==
    ASSUME TypeOK, HandInv, MetInv, [Next]_vars
    PROVE  MetInv'
<1>. USE DEF MetInv
<1>1. CASE Aside
  BY <1>1 DEF Aside, history, Meets
<1>2. CASE Fails \/ WriteConfirmed
  BY <1>2 DEF Fails, WriteConfirmed, Finish
<1>3. CASE FallsBack
  BY <1>3 DEF FallsBack, WriteNow, history, Meets
<1>4. CASE Asks \/ Cut \/ FetchMask \/ FetchProtocol
  BY <1>4 DEF Asks, Cut, FetchMask, FetchProtocol
<1>5. CASE Changes
  BY <1>5 DEF Changes, App, Meets
<1>6. CASE TakeCommand
  BY <1>6, TakeFacts DEF Meets
<1>7. CASE ReadMask
  BY <1>7 DEF ReadMask, Finish, WriteNow, Meets
<1>8. CASE DropAnswer
  BY <1>8 DEF DropAnswer, history, Meets
<1>9. CASE Charger \/ RequestLost
  <2>1. UNCHANGED <<pc, cmd>> /\ (UNCHANGED <<dev, met>> \/ met' = (met \/ Meets(cmd, dev')))
    BY <1>9 DEF Charger, ChargerReads, ChargerWrites, RequestLost, App
  <2>. QED BY <2>1 DEF Meets
<1>. QED BY <1>1, <1>2, <1>3, <1>4, <1>5, <1>6, <1>7, <1>8, <1>9, StepKinds

\* The front ends are told of every port whose state changed between two refreshes.
LEMMA ToldStep ==
    ASSUME TypeOK, HandInv, ToldInv, [Next]_vars
    PROVE  ToldInv'
<1>. USE DEF ToldInv
<1>t. last \in [mask : SUBSET Ports, known : BOOLEAN] /\ told \subseteq Ports
  BY DEF TypeOK
<1>1. CASE Aside
  BY <1>t, <1>1 DEF Aside, history
<1>2. CASE Fails \/ FallsBack \/ Asks \/ Cut \/ Changes \/ DropAnswer
  BY <1>2 DEF Fails, FallsBack, Asks, Cut, Changes, DropAnswer, App, history
<1>3. CASE TakeCommand \/ ReadMask \/ FetchMask
  BY <1>3 DEF TakeCommand, ReadMask, FetchMask
<1>4. CASE WriteConfirmed
  BY <1>4, ConfirmFacts
<1>5. CASE FetchProtocol
  <2>1. /\ pc \in {"fetch21", "boot21"} /\ (pc = "fetch21" => last.known)
        /\ told' = (IF pc = "boot21" THEN new ELSE EmitChanges(new)) /\ last' = [mask |-> new, known |-> TRUE]
        /\ flipped' = {p \in flipped : (p \in told') # (p \in new)}
    BY <1>5, ProtocolFacts DEF HandInv
  <2>2. CASE pc = "boot21"
    BY <2>1, <2>2
  <2>3. CASE pc = "fetch21"
    BY <2>1, <2>3 DEF EmitChanges
  <2>. QED BY <2>1, <2>2, <2>3
<1>6. CASE Charger \/ RequestLost
  BY <1>6 DEF Charger, ChargerReads, ChargerWrites, RequestLost, App
<1>. QED BY <1>1, <1>2, <1>3, <1>4, <1>5, <1>6, StepKinds

\* A mask that was right of the ports not touched stays so, unless they are forgotten.
LEMMA AgreesOn ==
    ASSUME NEW mask, NEW names, Agrees(mask, names), touched \subseteq touched', UNCHANGED dev
    PROVE  Agrees(mask, names)'
BY DEF Agrees

\* A mask that was read agrees with the charger's, once what it got wrong is touched.
LEMMA ReadAgrees ==
    ASSUME MaskInv, NEW a, a = air[1], 1 \in DOMAIN air, a.reg = "mask", a.old \in BOOLEAN,
           Trust(a.val, a.old), UNCHANGED dev
    PROVE  touched \subseteq touched' /\ Agrees(a.val, {})'
<1>1. CASE a.old
  BY <1>1 DEF Trust, Agrees, Differ
<1>2. CASE ~a.old
  <2>1. Agrees(a.val, {})
    BY <1>2 DEF MaskInv
  <2>2. touched' = touched
    BY <1>2 DEF Trust
  <2>. QED BY <2>1, <2>2, AgreesOn
<1>. QED BY <1>1, <1>2

\* Nothing that may be written or believed is added but what agrees.
LEMMA SentAgrees ==
    ASSUME jobs \in Seq(Messages), MaskInv, NEW op \in {"get", "set"}, NEW reg \in Regs, NEW val \in Values(reg),
           NEW names \in SUBSET (Ports \cup Switches), Send(op, reg, val, names),
           UNCHANGED <<dev, cache>>, touched \subseteq touched',
           op = "set" /\ reg = "mask" => Agrees(val, names)',
           pc' \in {"fetch21", "boot21"} /\ (got' \/ cache'.known) => Agrees(new, {})'
    PROVE  MaskInv'
<1>1. /\ air' = <<>>
      /\ \A i \in DOMAIN jobs' :
            \/ /\ i \in DOMAIN jobs /\ jobs'[i].op = jobs[i].op /\ jobs'[i].reg = jobs[i].reg
               /\ jobs'[i].val = jobs[i].val /\ jobs'[i].names = jobs[i].names
            \/ jobs'[i] = [op |-> op, reg |-> reg, val |-> val, names |-> names, old |-> FALSE]
  BY SendFacts
<1>2. ASSUME NEW i \in DOMAIN jobs', jobs'[i].op = "set", jobs'[i].reg = "mask"
      PROVE  Agrees(jobs[i].val, jobs[i].names)'
  <2>1. CASE /\ i \in DOMAIN jobs /\ jobs'[i].op = jobs[i].op /\ jobs'[i].reg = jobs[i].reg
             /\ jobs'[i].val = jobs[i].val /\ jobs'[i].names = jobs[i].names
    <3>1. Agrees(jobs[i].val, jobs[i].names)
      BY <1>2, <2>1 DEF MaskInv
    <3>. QED BY <2>1, <3>1 DEF Agrees
  <2>2. CASE jobs'[i] = [op |-> op, reg |-> reg, val |-> val, names |-> names, old |-> FALSE]
    BY <1>2, <2>2 DEF Agrees
  <2>. QED BY <1>1, <2>1, <2>2
<1>3. DOMAIN air' = {}
  BY <1>1
<1>4. cache'.known => Agrees(cache.mask, {})'
  BY DEF MaskInv, Agrees
<1>. QED BY <1>2, <1>3, <1>4 DEF MaskInv

\* Nothing is sent, and no order is forgotten.
LEMMA KeptAgrees ==
    ASSUME air \in Seq(Messages), MaskInv, jobs' = jobs, air' = air \/ (air # <<>> /\ air' = Tail(air)),
           UNCHANGED <<dev, cache>>, touched \subseteq touched',
           pc' \in {"fetch21", "boot21"} => pc' = pc /\ UNCHANGED <<new, got>>
    PROVE  MaskInv'
<1>1. \A i \in DOMAIN air' : \E k \in DOMAIN air : air'[i] = air[k]
  BY QueueFacts
<1>2. ASSUME NEW i \in DOMAIN air', ~air'[i].old, air'[i].reg = "mask"
      PROVE  Agrees(air[i].val, {})'
  <2>1. PICK k \in DOMAIN air : air'[i] = air[k]
    BY <1>1
  <2>2. Agrees(air[k].val, {})
    BY <1>2, <2>1 DEF MaskInv
  <2>. QED BY <2>1, <2>2 DEF Agrees
<1>3. \A i \in DOMAIN jobs' : jobs'[i].op = "set" /\ jobs'[i].reg = "mask" => Agrees(jobs[i].val, jobs[i].names)'
  BY DEF MaskInv, Agrees
<1>4. cache'.known => Agrees(cache.mask, {})'
  BY DEF MaskInv, Agrees
<1>5. pc' \in {"fetch21", "boot21"} /\ (got' \/ cache'.known) => Agrees(new, {})'
  BY DEF MaskInv, Agrees
<1>. QED BY <1>2, <1>3, <1>4, <1>5 DEF MaskInv

\* The charger's mask changes on touched ports only.
LEMMA ChangedAgrees ==
    ASSUME MaskInv, App, \A p \in Ports : p \notin touched' => p \notin touched /\ (p \in dev'.mask <=> p \in dev.mask),
           \A i \in DOMAIN jobs' : \E k \in DOMAIN jobs : jobs'[i] = jobs[k],
           \A i \in DOMAIN air' : \/ i \in DOMAIN air /\ air'[i] = air[i]
                                  \/ ~air'[i].old /\ air'[i].reg = "mask" => air'[i].val = dev'.mask
    PROVE  MaskInv'
<1>1. \A mask, names : Agrees(mask, names) => \A p \in Ports : p \notin touched' /\ p \notin names => (p \in mask <=> p \in dev'.mask)
  BY DEF Agrees
<1>2. ASSUME NEW i \in DOMAIN air', ~air'[i].old, air'[i].reg = "mask"
      PROVE  Agrees(air[i].val, {})'
  <2>1. CASE i \in DOMAIN air /\ air'[i] = air[i]
    <3>1. Agrees(air[i].val, {})
      BY <1>2, <2>1 DEF MaskInv
    <3>. QED BY <1>1, <2>1, <3>1 DEF Agrees
  <2>2. CASE air'[i].val = dev'.mask
    BY <2>2 DEF Agrees
  <2>. QED BY <1>2, <2>1, <2>2
<1>3. ASSUME NEW i \in DOMAIN jobs', jobs'[i].op = "set", jobs'[i].reg = "mask"
      PROVE  Agrees(jobs[i].val, jobs[i].names)'
  <2>1. PICK k \in DOMAIN jobs : jobs'[i] = jobs[k]
    OBVIOUS
  <2>2. Agrees(jobs[k].val, jobs[k].names)
    BY <1>3, <2>1 DEF MaskInv
  <2>. QED BY <1>1, <2>1, <2>2 DEF Agrees
<1>4. cache'.known => Agrees(cache.mask, {})'
  <2>1. cache' = cache
    BY DEF App
  <2>. QED BY <1>1, <2>1 DEF MaskInv, Agrees
<1>5. pc' \in {"fetch21", "boot21"} /\ (got' \/ cache'.known) => Agrees(new, {})'
  <2>1. UNCHANGED <<pc, got, cache, new>>
    BY DEF App
  <2>. QED BY <1>1, <2>1 DEF MaskInv, Agrees
<1>. QED BY <1>2, <1>3, <1>4, <1>5 DEF MaskInv

\* A written mask becomes the known one.
LEMMA ConfirmAgrees ==
    ASSUME TypeOK, HandInv, OrderInv, MaskInv, WriteConfirmed
    PROVE  MaskInv'
<1>. PICK a \in Messages, known \in Values(cmd.reg) :
             /\ air # <<>> /\ a = air[1] /\ 1 \in DOMAIN air /\ a.op \in {"set", "echo"} /\ a.reg = cmd.reg
             /\ known = (IF a.op = "echo" /\ cmd.reg = "mask" THEN a.val ELSE new)
             /\ \/ /\ cmd.reg = "mask" /\ cache' = [cache EXCEPT !.mask = known, !.known = TRUE]
                   /\ Learn(known, a.old)
                \/ cmd.reg = "proto" /\ cache' = [cache EXCEPT !.proto = known] /\ UNCHANGED touched
             /\ pc' = "idle" /\ air' = Tail(air) /\ UNCHANGED <<dev, jobs>>
  BY ConfirmFacts DEF Finish
<1>t. /\ air \in Seq(Messages) /\ cache \in [mask : SUBSET Ports, proto : SUBSET Switches, known : BOOLEAN]
      /\ a.old \in BOOLEAN
  BY MessageFacts DEF TypeOK
<1>p. pc = "write"
  BY DEF WriteConfirmed
<1>1. CASE cmd.reg = "proto"
  <2>1. cache'.mask = cache.mask /\ cache'.known = cache.known /\ touched' = touched
    BY <1>t, <1>1
  <2>2. ASSUME NEW i \in DOMAIN air', ~air'[i].old, air'[i].reg = "mask"
        PROVE  Agrees(air[i].val, {})'
    <3>1. \A k \in DOMAIN Tail(air) : k + 1 \in DOMAIN air /\ Tail(air)[k] = air[k + 1]
      BY <1>t, QueueFacts
    <3>2. i + 1 \in DOMAIN air /\ air'[i] = air[i + 1]
      BY <3>1
    <3>3. Agrees(air[i + 1].val, {})
      BY <2>2, <3>2 DEF MaskInv
    <3>. QED BY <2>1, <3>2, <3>3 DEF Agrees
  <2>3. \A i \in DOMAIN jobs' : jobs'[i].op = "set" /\ jobs'[i].reg = "mask" => Agrees(jobs[i].val, jobs[i].names)'
    BY <2>1 DEF MaskInv, Agrees
  <2>4. cache'.known => Agrees(cache.mask, {})'
    BY <2>1 DEF MaskInv, Agrees
  <2>. QED BY <2>2, <2>3, <2>4 DEF MaskInv
<1>2. CASE cmd.reg = "mask" /\ a.old
  <2>1. cache'.mask = known /\ touched' = touched \cup Differ(known)
    BY <1>t, <1>2 DEF Learn
  <2>2. \A mask, names : Agrees(mask, names) => Agrees(mask, names)'
    BY <2>1 DEF Agrees
  <2>3. ASSUME NEW i \in DOMAIN air', ~air'[i].old, air'[i].reg = "mask"
        PROVE  Agrees(air[i].val, {})'
    <3>1. \A k \in DOMAIN Tail(air) : k + 1 \in DOMAIN air /\ Tail(air)[k] = air[k + 1]
      BY <1>t, QueueFacts
    <3>2. i + 1 \in DOMAIN air /\ air'[i] = air[i + 1]
      BY <3>1
    <3>3. Agrees(air[i + 1].val, {})
      BY <2>3, <3>2 DEF MaskInv
    <3>. QED BY <2>1, <3>2, <3>3 DEF Agrees
  <2>4. \A i \in DOMAIN jobs' : jobs'[i].op = "set" /\ jobs'[i].reg = "mask" => Agrees(jobs[i].val, jobs[i].names)'
    BY <2>1 DEF MaskInv, Agrees
  <2>5. Agrees(cache.mask, {})'
    BY <2>1 DEF Agrees, Differ
  <2>. QED BY <2>3, <2>4, <2>5 DEF MaskInv
<1>3. CASE cmd.reg = "mask" /\ ~a.old
  <2>1. cache'.mask = known /\ touched' = touched \cap Differ(known)
    BY <1>t, <1>3 DEF Learn
  <2>2. Len(air) = 1 /\ jobs = <<>> /\ Answered(a, pc, cmd, new, met)
    BY <1>3 DEF OrderInv
  <2>3. a.val = known
    BY <1>p, <1>3, <2>2 DEF Answered
  <2>4. Agrees(known, {})
    BY <1>3, <2>3 DEF MaskInv
  <2>5. Agrees(cache.mask, {})'
    BY <2>1, <2>4 DEF Agrees, Differ
  <2>6. DOMAIN air' = {}
    BY <1>t, <2>2, QueueFacts
  <2>7. DOMAIN jobs' = {}
    BY <2>2
  <2>. QED BY <2>5, <2>6, <2>7 DEF MaskInv
<1>. QED BY <1>1, <1>2, <1>3

\* A refresh ends: what it read becomes the known mask, and no order is under way if
\* ports are forgotten.
LEMMA FetchedAgrees ==
    ASSUME TypeOK, OrderInv, MaskInv, FetchProtocol
    PROVE  MaskInv'
<1>1. /\ pc \in {"fetch21", "boot21"} /\ pc' = "idle" /\ cache'.mask = new /\ cache'.known = (cache.known \/ got)
      /\ (air' = air \/ (air # <<>> /\ air' = Tail(air))) /\ UNCHANGED <<dev, jobs>>
      /\ touched' = (IF got /\ ~OrderOnItsWay THEN touched \cap Differ(new) ELSE touched)
  BY ProtocolFacts
<1>t. air \in Seq(Messages)
  BY DEF TypeOK
<1>2. cache'.known => Agrees(new, {})
  BY <1>1 DEF MaskInv
<1>3. Agrees(new, {}) => Agrees(cache.mask, {})'
  BY <1>1 DEF Agrees, Differ
<1>4. ASSUME NEW i \in DOMAIN air', ~air'[i].old PROVE air'[i].reg = "proto"
  <2>1. \E k \in DOMAIN air : air'[i] = air[k]
    BY <1>1, <1>t, QueueFacts
  <2>. QED BY <1>1, <1>4, <2>1 DEF OrderInv, Answered
<1>5. ASSUME NEW i \in DOMAIN jobs', jobs'[i].op = "set", jobs'[i].reg = "mask"
      PROVE  Agrees(jobs[i].val, jobs[i].names)'
  <2>1. touched' = touched /\ Agrees(jobs[i].val, jobs[i].names)
    BY <1>1, <1>5 DEF OrderOnItsWay, MaskInv
  <2>. QED BY <1>1, <2>1 DEF Agrees
<1>. QED BY <1>1, <1>2, <1>3, <1>4, <1>5 DEF MaskInv

\* The charger serves the oldest request.
LEMMA ServedAgrees ==
    ASSUME TypeOK, MaskInv, Charger \/ RequestLost
    PROVE  MaskInv'
<1>. PICK j \in Messages :
             /\ jobs # <<>> /\ j = jobs[1] /\ 1 \in DOMAIN jobs /\ jobs' = Tail(jobs) /\ App
             /\ \/ air' = air \/ \E a \in Messages : /\ air' = Append(air, a)
                                                     /\ (~a.old /\ a.reg = "mask" => a.val = dev'.mask)
             /\ \/ UNCHANGED <<dev, touched>>
                \/ /\ dev' = (IF j.reg = "mask" THEN [dev EXCEPT !.mask = j.val] ELSE [dev EXCEPT !.proto = j.val])
                   /\ touched' = touched \cup (IF j.reg = "mask" THEN Differ(j.val) ELSE {})
  <2>1. dev \in [mask : SUBSET Ports, proto : SUBSET Switches]
    BY DEF TypeOK
  <2>. QED BY <2>1, ServeFacts
<1>t. /\ dev \in [mask : SUBSET Ports, proto : SUBSET Switches] /\ j.val \in Values(j.reg) /\ j.reg \in Regs
      /\ jobs \in Seq(Messages) /\ air \in Seq(Messages)
  BY MessageFacts DEF TypeOK
<1>1. \A p \in Ports : p \notin touched' => p \notin touched /\ (p \in dev'.mask <=> p \in dev.mask)
  <2>1. CASE UNCHANGED <<dev, touched>>
    BY <2>1
  <2>2. CASE j.reg = "mask" /\ dev' = [dev EXCEPT !.mask = j.val] /\ touched' = touched \cup Differ(j.val)
    BY <1>t, <2>2 DEF Differ
  <2>3. CASE dev' = [dev EXCEPT !.proto = j.val] /\ touched' = touched
    BY <1>t, <2>3
  <2>. QED BY <2>1, <2>2, <2>3
<1>2. \A i \in DOMAIN jobs' : \E k \in DOMAIN jobs : jobs'[i] = jobs[k]
  BY <1>t, QueueFacts
<1>3. \A i \in DOMAIN air' : \/ i \in DOMAIN air /\ air'[i] = air[i]
                             \/ ~air'[i].old /\ air'[i].reg = "mask" => air'[i].val = dev'.mask
  <2>1. CASE air' = air
    BY <2>1
  <2>2. ASSUME NEW a \in Messages, air' = Append(air, a), ~a.old /\ a.reg = "mask" => a.val = dev'.mask,
               NEW i \in DOMAIN air'
        PROVE  \/ i \in DOMAIN air /\ air'[i] = air[i]
               \/ ~air'[i].old /\ air'[i].reg = "mask" => air'[i].val = dev'.mask
    <3>1. (i \in DOMAIN air /\ air'[i] = air[i]) \/ air'[i] = a
      BY <1>t, <2>2, QueueFacts
    <3>. QED BY <2>2, <3>1
  <2>. QED BY <2>1, <2>2
<1>. QED BY <1>1, <1>2, <1>3, ChangedAgrees

\* Every mask that may yet be written or believed stays right.
LEMMA MaskStep ==
    ASSUME TypeOK, HandInv, OrderInv, MaskInv, [Next]_vars
    PROVE  MaskInv'
<1>t. /\ jobs \in Seq(Messages) /\ air \in Seq(Messages) /\ cmd \in Cmds /\ cache.mask \in SUBSET Ports
      /\ {} \in SUBSET (Ports \cup Switches) /\ \A reg \in Regs : {} \in Values(reg)
  BY DEF TypeOK, Values
<1>w. ASSUME NEW c \in Cmds, NEW base \in SUBSET Ports, WriteNow(c, base), UNCHANGED <<dev, cache>>,
             touched \subseteq touched', c.reg = "mask" => c.names = Ports \/ Agrees(base, {})'
      PROVE  MaskInv'
  <2>1. /\ pc' = "write" /\ new' = Wanted(c, base) /\ new' \in Values(c.reg) /\ Send("set", c.reg, new', c.names)
        /\ c.reg \in Regs /\ c.names \in SUBSET (Ports \cup Switches)
    BY <1>t, <1>w, WriteFacts, CommandFacts
  <2>2. c.reg = "mask" => \A p \in Ports : p \notin touched' /\ p \notin c.names => (p \in new' <=> p \in dev'.mask)
    BY <1>w, <2>1 DEF Agrees, Wanted
  <2>. QED BY <1>t, <1>w, <2>1, <2>2, SentAgrees DEF Agrees
<1>g. ASSUME NEW reg \in Regs, Send("get", reg, {}, {}), UNCHANGED <<dev, cache>>, touched \subseteq touched',
             pc' \in {"fetch21", "boot21"} /\ (got' \/ cache'.known) => Agrees(new, {})'
      PROVE  MaskInv'
  BY <1>t, <1>g, SentAgrees
<1>1. CASE Aside
  BY <1>t, <1>1, KeptAgrees DEF Aside, history
<1>2. CASE Fails
  BY <1>t, <1>2, KeptAgrees DEF Fails, Finish, history
<1>3. CASE FallsBack
  <2>1. UNCHANGED <<dev, cache, touched>> /\ WriteNow(cmd, cache.mask) /\ Agrees(cache.mask, {})
    BY <1>3 DEF FallsBack, history, MaskInv
  <2>2. \A base \in SUBSET Ports : base = cache.mask => Agrees(base, {})'
    BY <2>1 DEF Agrees
  <2>3. \A base \in SUBSET Ports : base = cache.mask => WriteNow(cmd, base)
    BY <2>1
  <2>. QED BY <1>t, <1>w, <2>1, <2>2, <2>3
<1>4. CASE Asks
  BY <1>4, <1>g DEF Asks, history, Regs
<1>5. CASE Cut
  BY <1>5, QueueFacts DEF Cut, history, MaskInv, Agrees
<1>6. CASE Changes
  <2>1. dev \in [mask : SUBSET Ports, proto : SUBSET Switches]
    BY DEF TypeOK
  <2>2. \A p \in Ports : p \notin touched' => p \notin touched /\ (p \in dev'.mask <=> p \in dev.mask)
    BY <1>6, <2>1 DEF Changes
  <2>3. App /\ (\A i \in DOMAIN jobs' : \E k \in DOMAIN jobs : jobs'[i] = jobs[k])
        /\ (\A i \in DOMAIN air' : i \in DOMAIN air /\ air'[i] = air[i])
    BY <1>6 DEF Changes
  <2>. QED BY <2>2, <2>3, ChangedAgrees
<1>7. CASE TakeCommand
  <2>1. PICK c \in Cmds :
        /\ UNCHANGED <<dev, cache, touched>> /\ pc' \in {"read", "write"}
        /\ \/ Send("get", "mask", {}, {})
           \/ WriteNow(c, {}) /\ (c.reg = "mask" => c.names = Ports)
    BY <1>7, TakeFacts
  <2>. QED BY <1>t, <1>g, <1>w, <2>1 DEF Regs
<1>8. CASE ReadMask
  <2>1. PICK a \in Messages :
           /\ air # <<>> /\ a = air[1] /\ 1 \in DOMAIN air /\ a.reg = "mask" /\ a.val \in SUBSET Ports
           /\ Trust(a.val, a.old) /\ UNCHANGED <<dev, cache>>
           /\ \/ Finish("ok") /\ air' = Tail(air) /\ jobs' = jobs
              \/ WriteNow(cmd, a.val)
    BY <1>8, ReadFacts
  <2>2. touched \subseteq touched' /\ Agrees(a.val, {})'
    BY <2>1, MessageFacts, ReadAgrees
  <2>3. CASE Finish("ok") /\ air' = Tail(air) /\ jobs' = jobs
    BY <1>t, <2>1, <2>2, <2>3, KeptAgrees DEF Finish
  <2>4. CASE WriteNow(cmd, a.val)
    BY <1>t, <1>w, <2>1, <2>2, <2>4
  <2>. QED BY <2>1, <2>3, <2>4
<1>9. CASE WriteConfirmed
  BY <1>9, ConfirmAgrees
<1>10. CASE DropAnswer
  BY <1>t, <1>10, KeptAgrees DEF DropAnswer, history
<1>11. CASE FetchMask
  <2>1. /\ Send("get", "proto", {}, {}) /\ UNCHANGED <<dev, cache>> /\ pc \in {"fetch16", "boot16"}
        /\ \/ UNCHANGED <<new, got, touched>>
           \/ \E a \in Messages :
                 /\ air # <<>> /\ a = air[1] /\ 1 \in DOMAIN air /\ a.reg = "mask"
                 /\ new' = a.val /\ Trust(a.val, a.old)
    BY <1>11, FetchFacts
  <2>2. CASE UNCHANGED <<new, got, touched>>
    <3>1. (got' \/ cache'.known) => Agrees(new, {})'
      BY <2>1, <2>2 DEF HandInv, MaskInv, Agrees
    <3>. QED BY <1>g, <2>1, <2>2, <3>1 DEF Regs
  <2>3. ASSUME NEW a \in Messages, a = air[1], 1 \in DOMAIN air, a.reg = "mask", new' = a.val, Trust(a.val, a.old)
        PROVE  MaskInv'
    <3>1. touched \subseteq touched' /\ Agrees(a.val, {})'
      BY <2>1, <2>3, MessageFacts, ReadAgrees
    <3>2. Agrees(new, {})'
      BY <2>3, <3>1 DEF Agrees
    <3>. QED BY <1>g, <2>1, <3>1, <3>2 DEF Regs
  <2>. QED BY <2>1, <2>2, <2>3
<1>12. CASE FetchProtocol
  BY <1>12, FetchedAgrees
<1>13. CASE Charger \/ RequestLost
  BY <1>13, ServedAgrees
<1>. QED BY <1>1, <1>2, <1>3, <1>4, <1>5, <1>6, <1>7, <1>8, <1>9, <1>10, <1>11, <1>12, <1>13, StepKinds

-----------------------------------------------------------------------------
(* The theorems.                                                            *)

LEMMA PortInit == Init => PortInv
<1>. SUFFICES ASSUME Init PROVE PortInv
  OBVIOUS
<1>1. TypeOK
  <2>1. <<>> \in Seq(Cmds) /\ <<>> \in Seq(Messages) /\ Len(<<>>) = 0
    OBVIOUS
  <2>2. NoCmd \in Cmds
    BY CommandFacts
  <2>3. QueueOK
    BY <2>1, PortControlAssumption DEF Init, QueueOK
  <2>4. WorkOK
    BY <2>1, <2>2 DEF Init, WorkOK
  <2>5. KnownOK
    BY DEF Init, KnownOK
  <2>. QED BY <2>3, <2>4, <2>5, TypeParts
<1>2. HandInv /\ ToldInv /\ MetInv
  BY DEF Init, HandInv, ToldInv, MetInv
<1>3. OrderInv /\ MaskInv
  <2>1. DOMAIN jobs = {} /\ DOMAIN air = {} /\ ~cache.known /\ pc = "off"
    BY DEF Init
  <2>. QED BY <2>1 DEF OrderInv, MaskInv
<1>. QED BY <1>1, <1>2, <1>3 DEF PortInv

LEMMA PortStep ==
    ASSUME PortInv, [Next]_vars
    PROVE  PortInv'
<1>. USE DEF PortInv
<1>1. TypeOK'
  <2>1. CASE Next
    BY <2>1, QueueType, WorkType, TypeParts
  <2>2. CASE UNCHANGED vars
    BY <2>2 DEF vars, TypeOK
  <2>. QED BY <2>1, <2>2
<1>2. HandInv' /\ OrderInv' /\ MaskInv' /\ MetInv' /\ ToldInv'
  BY HandStep, OrderStep, MaskStep, MetStep, ToldStep
<1>. QED BY <1>1, <1>2

LEMMA PortInvariance == Spec => []PortInv
BY PortInit, PortStep, PTL DEF Spec

\* A port changes only if an order names it, or nobody knew better.
LEMMA BystanderStep ==
    ASSUME PortInv, [Next]_vars, NEW p \in Differ(dev'.mask)
    PROVE  p \in touched \/ left'.outside # left.outside \/ p \in Head(jobs).names
<1>. USE DEF Differ
<1>t. /\ dev \in [mask : SUBSET Ports, proto : SUBSET Switches] /\ p \in Ports /\ dev'.mask # dev.mask
      /\ left \in [orders : 0..Orders, outside : 0..Outside, faults : 0..Faults]
  BY DEF PortInv, TypeOK
<1>1. CASE Charger \/ RequestLost
  <2>1. PICK j \in Messages :
             /\ jobs # <<>> /\ j = jobs[1] /\ 1 \in DOMAIN jobs
             /\ \/ dev' = dev
                \/ /\ j.op = "set"
                   /\ dev' = (IF j.reg = "mask" THEN [dev EXCEPT !.mask = j.val] ELSE [dev EXCEPT !.proto = j.val])
    BY <1>1, ServeFacts DEF PortInv
  <2>2. j.op = "set" /\ j.reg = "mask" /\ dev'.mask = j.val
    BY <1>t, <2>1
  <2>3. Agrees(j.val, j.names)
    BY <2>1, <2>2 DEF PortInv, MaskInv
  <2>4. Head(jobs) = j
    BY <2>1
  <2>. QED BY <1>t, <2>2, <2>3, <2>4 DEF Agrees
<1>2. CASE Changes
  BY <1>t, <1>2, PortControlAssumption DEF Changes
<1>3. CASE Aside \/ Fails \/ FallsBack \/ Asks \/ Cut \/ DropAnswer
  BY <1>t, <1>3 DEF Aside, Fails, FallsBack, Asks, Cut, DropAnswer
<1>4. CASE TakeCommand \/ ReadMask \/ WriteConfirmed \/ FetchMask \/ FetchProtocol
  BY <1>t, <1>4 DEF TakeCommand, ReadMask, WriteConfirmed, FetchMask, FetchProtocol
<1>. QED BY <1>1, <1>2, <1>3, <1>4, StepKinds

\* Only the two handlers say ok.
LEMMA WhoSaysOk ==
    ASSUME TypeOK, [Next]_vars, NEW c \in Callers, call[c] # "ok", call'[c] = "ok"
    PROVE  ReadMask \/ WriteConfirmed
<1>t. call \in [Callers -> {"free", "putting", "waiting", "ok", "error", "timeout"}]
  BY DEF TypeOK
<1>1. ~Callings
  <2>1. ASSUME NEW d, SendCommand(d) PROVE FALSE
    BY <1>t, <2>1 DEF SendCommand, Enqueue
  <2>2. ASSUME NEW who \in Callers, CallTimesOut(who) PROVE FALSE
    BY <1>t, <2>2 DEF CallTimesOut
  <2>. QED BY <2>1, <2>2 DEF Callings, HandlePort, HandleProtocol
<1>2. ~QueueOrder /\ ~PutterResumes /\ ~Rebuild
  BY <1>t DEF QueueOrder, PutterResumes, Callee, Rebuild
<1>3. ~(\E verdict \in {"error"} : Settle(cmd.who, verdict))
  BY <1>t DEF Settle
<1>4. ~ReadSilent /\ ~WriteSilent /\ ~HandlerRaises /\ ~LinkLost
  BY <1>3 DEF ReadSilent, WriteSilent, HandlerRaises, LinkLost, Finish
<1>5. ~TakeCommand /\ ~DropAnswer /\ ~FetchMask /\ ~FetchProtocol /\ ~RefreshSettings /\ ~Connect
  BY DEF TakeCommand, DropAnswer, FetchMask, FetchProtocol, RefreshSettings, Connect
<1>6. ~Charger /\ ~RequestLost /\ ~ChargerChanges
  BY DEF Charger, ChargerReads, ChargerWrites, RequestLost, ChargerChanges, App
<1>7. ~UNCHANGED vars
  BY DEF vars
<1>. QED BY <1>1, <1>2, <1>4, <1>5, <1>6, <1>7 DEF Next, Manager

\* ... once the charger did it, or unless they were misled.
LEMMA OkStep ==
    ASSUME PortInv, [Next]_vars, NEW c \in Callers, call[c] # "ok", call'[c] = "ok"
    PROVE  met' \/ misled'
<1>. USE DEF PortInv
<1>1. CASE ReadMask
  <2>1. PICK a \in Messages :
             /\ a = air[1] /\ 1 \in DOMAIN air /\ misled' = (misled \/ a.old) /\ UNCHANGED met
             /\ Wanted(cmd, a.val) = a.val \/ call' = call
    BY <1>1, ReadFacts
  <2>2. CASE a.old
    BY <2>1, <2>2
  <2>3. CASE ~a.old
    <3>1. Answered(a, pc, cmd, new, met) /\ pc = "read"
      BY <1>1, <2>1, <2>3 DEF OrderInv, ReadMask
    <3>. QED BY <2>1, <3>1 DEF Answered
  <2>. QED BY <2>2, <2>3
<1>2. CASE WriteConfirmed
  <2>1. PICK a \in Messages, known \in Values(cmd.reg) :
             /\ a = air[1] /\ 1 \in DOMAIN air /\ known = (IF a.op = "echo" /\ cmd.reg = "mask" THEN a.val ELSE new)
             /\ misled' = (misled \/ a.old \/ known # new) /\ UNCHANGED met
    BY <1>2, ConfirmFacts
  <2>2. CASE a.old \/ known # new
    BY <2>1, <2>2
  <2>3. CASE ~a.old /\ known = new
    <3>1. Answered(a, pc, cmd, new, met) /\ pc = "write"
      BY <1>2, <2>1, <2>3 DEF OrderInv, WriteConfirmed
    <3>. QED BY <2>1, <2>3, <3>1 DEF Answered
  <2>. QED BY <2>2, <2>3
<1>. QED BY <1>1, <1>2, WhoSaysOk

\* An order does what it says and nothing else (ble_manager.py:2263-2271): for any ports,
\* callers, length of the queue, any number of lost and late answers, late orders,
\* changes by the charger's own buttons and losses of the link, a port changes only if
\* the order names it or the app could not know its state, and a caller is told ok only
\* if the charger did what was ordered, or an older request's answer or the charger's
\* contrary report came in between.
THEOREM OrdersTheorem == Spec => OrdersFaithful
<1>1. PortInv => TypeOK
  BY DEF PortInv
<1>2. PortInv /\ [Next]_vars =>
         [\A p \in Differ(dev'.mask) :
             \/ p \in touched
             \/ left'.outside # left.outside
             \/ p \in Head(jobs).names]_vars
  BY BystanderStep
<1>3. PortInv /\ [Next]_vars =>
         [\A c \in Callers : call[c] # "ok" /\ call'[c] = "ok" => met' \/ misled']_vars
  BY OkStep
<1>4. Spec => []TypeOK
  BY <1>1, PortInvariance, PTL
<1>5. Spec => BystandersKept
  BY <1>2, PortInvariance, PTL DEF Spec, BystandersKept
<1>6. Spec => OkWasDone
  BY <1>3, PortInvariance, PTL DEF Spec, OkWasDone
<1>. QED BY <1>4, <1>5, <1>6 DEF OrdersFaithful

\* After a refresh that is not the first since the link came up, the front ends know the
\* state of every port, but for those a command had told them of (_emit_port_control_changes,
\* ble_manager.py:2170).
THEOREM ToldTheorem == Spec => ToldAfterRefresh
<1>1. ASSUME PortInv, PortInv', [Next]_vars, pc = "fetch21", pc' = "idle", NEW p \in Ports \ flipped'
      PROVE  (p \in told') = (p \in cache'.mask)
  <2>1. FetchProtocol
    <3>1. ~(Aside \/ Fails \/ FallsBack \/ Asks \/ Cut \/ Changes)
      BY <1>1 DEF Aside, Fails, FallsBack, Asks, Cut, Changes, App
    <3>2. ~(TakeCommand \/ ReadMask \/ WriteConfirmed \/ DropAnswer \/ FetchMask)
      BY <1>1 DEF TakeCommand, ReadMask, WriteConfirmed, DropAnswer, FetchMask
    <3>3. ~(Charger \/ RequestLost)
      BY <1>1 DEF Charger, ChargerReads, ChargerWrites, RequestLost, App
    <3>. QED BY <1>1, <3>1, <3>2, <3>3, StepKinds
  <2>2. cache'.mask = new /\ last' = [mask |-> new, known |-> TRUE]
    BY <2>1, ProtocolFacts
  <2>. QED BY <1>1, <2>2 DEF PortInv, ToldInv
<1>2. PortInv /\ PortInv' /\ [Next]_vars =>
         [pc = "fetch21" /\ pc' = "idle" /\ last.known =>
             \A p \in Ports \ flipped' : (p \in told') = (p \in cache'.mask)]_vars
  BY <1>1
<1>. QED BY <1>2, PortInvariance, PTL DEF Spec, ToldAfterRefresh

=============================================================================
