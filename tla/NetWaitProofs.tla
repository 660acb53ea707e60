--------------------------- MODULE NetWaitProofs ---------------------------
(***************************************************************************)
(* Theorems about NetWait, for every set of hosts, every size of the cache *)
(* and of the table of pings, and every number of questions.               *)
(***************************************************************************)
EXTENDS NetWait, WellFoundedInduction, TLAPS

-----------------------------------------------------------------------------
(* Searches.                                                               *)

(* The first slot that qualifies: a search from slot 0 upwards that has    *)
(* something to find ends at a first one.                                  *)
LEMMA LeastExists ==
    ASSUME NEW S, S \subseteq Nat, S # {}
    PROVE  \E k \in S : \A j \in S : k <= j
<1> DEFINE Less == {ss \in Nat \X Nat : ss[1] < ss[2]}
<1>1. PICK k \in S : \A j \in S : ~(<<j, k>> \in Less)
  <2>1. IsWellFoundedOn(Less, Nat)
    BY NatLessThanWellFounded DEF OpToRel
  <2> QED BY <2>1, WFMin
<1>2. \A i, j \in Nat : i < j => <<i, j>> \in Less
  OBVIOUS
<1>3. \A j \in S : ~(j < k)
  BY <1>1, <1>2
<1> QED BY <1>3

-----------------------------------------------------------------------------
(* The inductive invariant.                                                *)

Ops == {"none", "ping", "nslookup", "udpsend", "dhcp"}
Waited == {"none", "address", "echo", "next", "answer", "offer", "ack"}
Calls == [op : Ops, for : Waited, dst : Local \cup Targets \cup {None}, seq : 0 .. MaxSeq,
          slot : 0 .. PingSlots, q : Nat]
Slots == [seq : 0 .. MaxSeq, q : Nat, got : Nat, active : BOOLEAN, replied : BOOLEAN]

TypeInv ==
    /\ TypeOK
    /\ slots \in [1 .. PingSlots -> Slots]
    /\ call \in [Tasks -> Calls]
    /\ udp \in [waiting : BOOLEAN, port : {"none", "dns", "dhcp"}, received : BOOLEAN]
    /\ heard \in [Tasks -> BOOLEAN]

(* Who may be in a command: a job only while it has the CPU, and both tasks *)
(* only if the job has come in between.                                    *)
WhoInv ==
    /\ call["job"].op # "none" => cur = "job"
    /\ call["job"].op = "none" => at["job"] = "top"
    /\ call["job"].op # "none" /\ call["shell"].op # "none" => crossed

(* What a command may wait for, and what it needs for that.                *)
CallInv ==
    \A t \in Tasks :
        /\ call[t].op = "none" <=> call[t].for = "none"
        /\ call[t].for \in {"echo", "next"} => call[t].op = "ping"
        /\ call[t].for = "answer" => call[t].op = "nslookup"
        /\ call[t].op = "ping" => call[t].slot \in 1 .. PingSlots
        /\ call[t].op = "nslookup" => call[t].seq = 0
        /\ call[t].q <= asked

Numbered(f) == f.kind \in {"echo", "udp"}
IsDns(f) == f.kind = "udp" /\ f.port = "dns"

IsFrame(f) ==
    /\ f.kind = "arp" => f.from \in Local
    /\ Numbered(f) => f.q \in 1 .. asked
    /\ f.kind = "udp" /\ f.port = "dhcp" => f.lease \in Offers /\ (f.type = "ack" => f.lease \in acks)

(* Frames are what was sent, and no answer comes twice.                    *)
FrameInv ==
    /\ \A f \in air : IsFrame(f)
    /\ IsFrame(pkt)
    /\ \A f, g \in air : Numbered(f) /\ Numbered(g) /\ f.q = g.q => f = g
    /\ Numbered(pkt) => \A f \in air : Numbered(f) => f.q # pkt.q

ArpInv == \A i, j \in 1 .. ArpSize : arp[i] = arp[j] /\ arp[i] # None => i = j

InUse(i) == slots[i].active \/ slots[i].replied

(* A slot in use was filled for one request, whose number it has.          *)
SlotInv ==
    /\ SlotsAccounted
    /\ \A i \in 1 .. PingSlots :
         /\ ~(slots[i].active /\ slots[i].replied)
         /\ slots[i].q <= asked /\ slots[i].got <= asked
    /\ \A i, j \in 1 .. PingSlots : InUse(i) /\ InUse(j) /\ slots[i].q = slots[j].q => i = j
    /\ \A i \in 1 .. PingSlots, t \in Tasks :
         InUse(i) /\ call[t].for = "echo" /\ call[t].q = slots[i].q => slots[i].seq = call[t].seq

(* A reply under way is for a ping that is waited for, or has the number of *)
(* one given up; what a slot has been given is the reply to its request.   *)
Pinged(f) == \E t \in Tasks : call[t].for = "echo" /\ call[t].q = f.q /\ call[t].seq = f.seq
EchoInv ==
    /\ \A f \in air : f.kind = "echo" => Stale("ping", f.seq) \/ Pinged(f)
    /\ at[cur] = "have" /\ pkt.kind = "echo" =>
         \/ Stale("ping", pkt.seq) \/ Pinged(pkt)
         \/ \A i \in 1 .. PingSlots : slots[i].active => slots[i].seq # pkt.seq
    /\ \A i \in 1 .. PingSlots : slots[i].replied =>
         /\ Stale("ping", slots[i].seq) \/ slots[i].got = slots[i].q
         /\ \A f \in air : Numbered(f) => f.q # slots[i].got

(* An answer to a query under way is to the one that is waited for, unless *)
(* one has been given up; so is the datagram that the slot announces.      *)
Queried(f) == \E t \in Tasks : call[t].for = "answer" /\ call[t].q = f.q
UdpInv ==
    /\ udp.received => udp.waiting
    /\ udp.waiting => crossed \/ \E t \in Tasks : call[t].for \in {"answer", "offer", "ack"}
    /\ \A t \in Tasks : call[t].for = "answer" => crossed \/ udp.port = "dns"
DnsInv ==
    /\ \A f \in air : IsDns(f) => Stale("nslookup", 0) \/ Queried(f)
    /\ at[cur] = "have" /\ IsDns(pkt) =>
         Stale("nslookup", 0) \/ Queried(pkt) \/ ~udp.waiting \/ udp.received
    /\ \A t \in Tasks : udp.received /\ call[t].for = "answer" =>
         \/ Stale("nslookup", 0)
         \/ /\ IsDns(pkt) => pkt.q = call[t].q
            /\ \A f \in air : IsDns(f) => f.q # call[t].q

IInv == /\ TypeInv /\ WhoInv /\ CallInv /\ FrameInv /\ ArpInv /\ HeardIsFound
        /\ SlotInv /\ EchoInv /\ UdpInv /\ DnsInv /\ AnswersMatch

-----------------------------------------------------------------------------
(* Lemmas about single definitions.                                        *)

(* An address goes to the entry that has it, and to one that is valid and  *)
(* another's only if no entry has it.                                      *)
LEMMA EntryFound ==
    ASSUME NEW h
    PROVE  /\ ArpEntry(h) \in 1 .. ArpSize
           /\ \A i \in 1 .. ArpSize : arp[i] = h => arp[ArpEntry(h)] = h
<1> DEFINE mine == {i \in 1 .. ArpSize : arp[i] = h}
           empty == {i \in 1 .. ArpSize : arp[i] = None}
           S == IF mine # {} THEN mine ELSE empty
<1>1. ArpEntry(h) = IF S = {} THEN 1 ELSE CHOOSE i \in S : \A j \in S : i <= j
  BY DEF ArpEntry
<1>2. 1 \in 1 .. ArpSize
  BY NetAssumption
<1>3. CASE S = {}
  BY <1>1, <1>2, <1>3
<1>4. CASE S # {}
  <2>1. S \subseteq Nat
    OBVIOUS
  <2>2. ArpEntry(h) \in S
    <3> HIDE DEF S
    <3> QED BY <1>1, <1>4, <2>1, LeastExists
  <2> QED BY <2>2
<1> QED BY <1>3, <1>4

(* A number that has been given up stays so.                               *)
LEMMA StaleStays ==
    ASSUME missed \subseteq missed', crossed => crossed'
    PROVE  /\ \A op, s : Stale(op, s) => Stale(op, s)'
           /\ crossed' => \A op, s : Stale(op, s)'
BY DEF Stale

-----------------------------------------------------------------------------
(* What a task does that looks for an address: the commands that ask, and  *)
(* the wait for the address.                                               *)

GoodCall(c) ==
    /\ c \in Calls
    /\ c.op = "ping" => c.slot \in 1 .. PingSlots
    /\ c.op = "nslookup" => c.seq = 0
    /\ c.q <= asked

(* resolve_mac asks for the address.                                       *)
AsksAddress(t, c) ==
    /\ call' = [call EXCEPT ![t] = WaitsFor(c, "address", c.q)]
    /\ air' = IF Hop(c.dst) \in Local THEN air \cup {ArpFrame(Hop(c.dst))} ELSE air
    /\ heard' = [heard EXCEPT ![t] = FALSE]
    /\ Continues
    /\ UNCHANGED <<slots, udp, asked>>

Asks(t) ==
    \/ \E c : GoodCall(c) /\ c.op = "ping" /\ SendEcho(t, c) /\ UNCHANGED heard
    \/ \E c : GoodCall(c) /\ c.op = "nslookup" /\ SendDns(t, c) /\ UNCHANGED heard
    \/ \E c : GoodCall(c) /\ c.op \in {"ping", "nslookup", "udpsend"} /\ AsksAddress(t, c)
    \/ Ends(t) /\ UNCHANGED <<slots, udp, air, asked, heard>>
    \/ Continues /\ UNCHANGED <<call, slots, udp, air, asked, heard>>

AskStep(t) ==
    /\ cur = t /\ at[t] # "have"
    /\ call[t].for \in {"none", "address", "next"}
    /\ Asks(t)
    /\ at' = [at EXCEPT ![t] = "top"]
    /\ told' = NoReport
    /\ IF call[t].for = "none" THEN Crossing(t) ELSE UNCHANGED crossed
    /\ UNCHANGED <<cfg, arp, pkt, missed, evicted, acks, strays>>

(* A request sent at once, the address being known (resolve_mac).          *)
LEMMA SendAsks ==
    ASSUME NEW t, NEW c, GoodCall(c), Send(t, c), UNCHANGED heard
    PROVE  Asks(t)
BY DEF Send, Asks

(* resolve_mac for a call that is in order is one of the things that       *)
(* asking is.                                                              *)
LEMMA ResolveAsks ==
    ASSUME NEW t, NEW c, GoodCall(c), c.op \in {"ping", "nslookup", "udpsend"}, Resolve(t, c)
    PROVE  Asks(t)
<1>1. CASE Cached(Hop(c.dst))
  BY <1>1, SendAsks DEF Resolve
<1>2. CASE ~Cached(Hop(c.dst))
  BY <1>2 DEF Resolve, Asks, AsksAddress
<1> QED BY <1>1, <1>2

(* The calls that the commands make are in order.                          *)
LEMMA WantsGood ==
    ASSUME TypeInv, NEW op \in Ops, NEW dst \in Local \cup Targets \cup {None},
           NEW s \in 0 .. MaxSeq, NEW i \in 0 .. PingSlots,
           op = "ping" => i # 0, op = "nslookup" => s = 0
    PROVE  GoodCall(Wants(op, dst, s, i)) /\ Wants(op, dst, s, i).op = op
BY NetAssumption DEF GoodCall, Wants, Calls, Waited, TypeInv, TypeOK

(* net_ping asks: it takes a free slot, or it fails.                       *)
LEMMA PingAsks ==
    ASSUME TypeInv, NEW t \in Tasks, NEW dst \in Local \cup Targets \cup {None},
           NEW s \in 0 .. MaxSeq, Ping(t, dst, s)
    PROVE  Asks(t)
<1>1. CASE FreeSlots = {}
  BY <1>1 DEF Ping, Asks
<1>2. CASE FreeSlots # {}
  <2>1. PICK i \in FreeSlots : Resolve(t, Wants("ping", dst, s, i))
    BY <1>2 DEF Ping
  <2>2. GoodCall(Wants("ping", dst, s, i)) /\ Wants("ping", dst, s, i).op = "ping"
    BY WantsGood, NetAssumption DEF FreeSlots, Ops
  <2> QED BY <2>1, <2>2, ResolveAsks
<1> QED BY <1>1, <1>2

(* Every step that sends, or looks for an address to send to, is an        *)
(* AskStep.                                                                *)
LEMMA AskSteps ==
    ASSUME TypeInv, CallInv, NEW t \in Tasks,
           CmdPing(t) \/ CmdNslookup(t) \/ CmdUdpSend(t) \/ NextSeq(t) \/ CheckAddress(t)
    PROVE  AskStep(t)
<1> USE DEF TypeInv, TypeOK
<1>1. ASSUME at[t] = "top", UNCHANGED at
      PROVE  at[t] # "have" /\ at' = [at EXCEPT ![t] = "top"]
  BY <1>1
<1>2. ASSUME MayStart(t), UNCHANGED at
      PROVE  /\ cur = t /\ at[t] # "have" /\ call[t].for = "none"
             /\ at' = [at EXCEPT ![t] = "top"] /\ told' = NoReport /\ Crossing(t)
  BY <1>1, <1>2 DEF MayStart, CallInv
<1>3. CASE CmdPing(t)
  <2>1. PICK dst \in Targets : Ping(t, dst, 1)
    BY <1>3 DEF CmdPing
  <2>2. 1 \in 0 .. MaxSeq
    BY NetAssumption
  <2>3. Asks(t)
    BY <2>1, <2>2, PingAsks
  <2> QED BY <1>2, <1>3, <2>3 DEF CmdPing, AskStep
<1>4. CASE CmdNslookup(t)
  <2>1. GoodCall(Wants("nslookup", Server, 0, 0)) /\ Wants("nslookup", Server, 0, 0).op = "nslookup"
    BY WantsGood, NetAssumption DEF Ops
  <2>2. Asks(t)
    BY <1>4, <2>1, ResolveAsks DEF CmdNslookup
  <2> QED BY <1>2, <1>4, <2>2 DEF CmdNslookup, AskStep
<1>5. CASE CmdUdpSend(t)
  <2>1. PICK dst \in Targets : Resolve(t, Wants("udpsend", dst, 0, 0))
    BY <1>5 DEF CmdUdpSend
  <2>2. GoodCall(Wants("udpsend", dst, 0, 0)) /\ Wants("udpsend", dst, 0, 0).op = "udpsend"
    BY WantsGood, NetAssumption DEF Ops
  <2>3. Asks(t)
    BY <2>1, <2>2, ResolveAsks
  <2> QED BY <1>2, <1>5, <2>3 DEF CmdUdpSend, AskStep
<1>6. CASE NextSeq(t)
  <2>1. Asks(t)
    <3>1. CASE call[t].seq < MaxSeq /\ Ping(t, call[t].dst, call[t].seq + 1)
      <4>1. call[t].dst \in Local \cup Targets \cup {None} /\ call[t].seq + 1 \in 0 .. MaxSeq
        BY <3>1, NetAssumption DEF Calls
      <4> QED BY <3>1, <4>1, PingAsks
    <3>2. CASE Ends(t) /\ UNCHANGED <<slots, udp, air, asked, heard>>
      BY <3>2 DEF Asks
    <3> QED BY <1>6, <3>1, <3>2 DEF NextSeq
  <2> QED BY <1>1, <1>6, <2>1 DEF NextSeq, AskStep
<1>7. CASE CheckAddress(t)
  <2>1. Asks(t)
    <3>1. GoodCall(call[t])
      BY DEF GoodCall, CallInv
    <3>2. CASE Cached(Hop(call[t].dst))
      BY <1>7, <3>1, <3>2, SendAsks DEF CheckAddress
    <3>3. CASE ~Cached(Hop(call[t].dst))
      BY <1>7, <3>3 DEF CheckAddress, Asks
    <3> QED BY <3>2, <3>3
  <2> QED BY <1>7, <2>1 DEF CheckAddress, Polled, Loop, AskStep
<1> QED BY <1>3, <1>4, <1>5, <1>6, <1>7

-----------------------------------------------------------------------------
(* The steps, each with the task that takes it.                            *)

(* All steps, those that ask taken together.                               *)
LEMMA Steps ==
    ASSUME TypeInv, CallInv, Next
    PROVE  \/ \E t \in Tasks :
                \/ AskStep(t) \/ CmdDhcp(t) \/ CmdNetReinit(t)
                \/ Fetch(t) \/ Handle(t) \/ PollEnds(t)
                \/ CheckEcho(t) \/ CheckAnswer(t) \/ CheckOffer(t) \/ CheckAck(t)
                \/ Timeout(t) \/ GiveUp(t)
           \/ JobStarts
<1>1. ASSUME NEW t \in Tasks, Command(t)
      PROVE  AskStep(t) \/ CmdDhcp(t) \/ CmdNetReinit(t)
  BY <1>1, AskSteps DEF Command
<1>2. ASSUME NEW t \in Tasks, Waits(t)
      PROVE  \/ AskStep(t) \/ Fetch(t) \/ Handle(t) \/ PollEnds(t)
             \/ CheckEcho(t) \/ CheckAnswer(t) \/ CheckOffer(t) \/ CheckAck(t)
  BY <1>2, AskSteps DEF Waits
<1> QED BY <1>1, <1>2 DEF Next

(* What has happened stays so, and a task that takes a step while another  *)
(* is in a command has crossed it.                                         *)
LEMMA Facts ==
    ASSUME TypeInv, WhoInv, CallInv, [Next]_vars
    PROVE  /\ crossed => crossed'
           /\ missed \subseteq missed'
           /\ acks \subseteq acks'
           /\ asked' \in Nat /\ asked <= asked'
           /\ \A u \in Tasks : UNCHANGED vars \/ u = cur \/ call[u].op = "none" \/ JobStarts \/ crossed'
<1> USE DEF TypeInv, TypeOK
<1>0. asked \in Nat /\ asked + 1 \in Nat /\ asked <= asked + 1 /\ asked + 1 <= asked + 1
  OBVIOUS
<1>1. CASE UNCHANGED vars
  BY <1>1 DEF vars, code, outside, history
<1>2. CASE JobStarts
  BY <1>2 DEF JobStarts, outside
<1>3. ASSUME NEW t \in Tasks, cur = t, crossed => crossed', Crossing(t) \/ crossed' = crossed,
             call[t].op = "none" => t = "shell" \/ Crossing(t)
      PROVE  \A u \in Tasks : u = cur \/ call[u].op = "none" \/ crossed'
  BY <1>3 DEF WhoInv, Crossing, Tasks
<1>4. ASSUME NEW t \in Tasks, AskStep(t)
      PROVE  /\ cur = t /\ (crossed => crossed') /\ missed' = missed /\ acks' = acks
             /\ Crossing(t) \/ crossed' = crossed
             /\ call[t].op = "none" => Crossing(t)
             /\ asked' = asked \/ asked' = asked + 1
  <2>1. asked' = asked \/ asked' = asked + 1
    BY <1>4 DEF AskStep, Asks, AsksAddress, SendEcho, SendDns
  <2> QED BY <1>4, <2>1 DEF AskStep, Crossing, CallInv
<1>5. ASSUME NEW t \in Tasks, CmdDhcp(t) \/ CmdNetReinit(t)
      PROVE  /\ cur = t /\ (crossed => crossed') /\ missed' = missed /\ acks \subseteq acks'
             /\ Crossing(t) /\ asked' = asked + 1
  BY <1>5 DEF CmdDhcp, CmdNetReinit, MayStart, AskDhcp, Crossing
<1>6. ASSUME NEW t \in Tasks,
             \/ Fetch(t) \/ Handle(t) \/ PollEnds(t) \/ CheckEcho(t) \/ CheckAnswer(t)
             \/ CheckOffer(t) \/ CheckAck(t) \/ Timeout(t) \/ GiveUp(t)
      PROVE  /\ cur = t /\ crossed' = crossed /\ acks \subseteq acks' /\ missed \subseteq missed'
             /\ call[t].op = "none" => t = "shell"
             /\ asked' = asked \/ asked' = asked + 1
  <2>1. CASE Fetch(t)
    BY <1>6, <2>1 DEF Fetch, Quiet
  <2>2. CASE Handle(t)
    BY <1>6, <2>2 DEF Handle, outside, WhoInv, Tasks
  <2>3. CASE PollEnds(t)
    BY <1>6, <2>3 DEF PollEnds, Quiet, outside
  <2>4. CASE CheckEcho(t)
    BY <1>6, <2>4 DEF CheckEcho, Polled, outside, CallInv
  <2>5. CASE CheckAnswer(t)
    BY <1>6, <2>5 DEF CheckAnswer, Polled, outside, CallInv
  <2>6. CASE CheckOffer(t)
    BY <1>6, <2>6 DEF CheckOffer, Polled, AskDhcp, CallInv
  <2>7. CASE CheckAck(t)
    BY <1>6, <2>7 DEF CheckAck, Polled, outside, CallInv
  <2>8. CASE Timeout(t)
    BY <1>6, <2>8 DEF Timeout, Missing, outside
  <2>9. CASE GiveUp(t)
    BY <1>6, <2>9 DEF GiveUp, Missing, outside, CallInv
  <2> QED BY <1>6, <2>1, <2>2, <2>3, <2>4, <2>5, <2>6, <2>7, <2>8, <2>9
<1>7. ASSUME NEW t \in Tasks, ~UNCHANGED vars, ~JobStarts,
             \/ AskStep(t) \/ CmdDhcp(t) \/ CmdNetReinit(t)
             \/ Fetch(t) \/ Handle(t) \/ PollEnds(t)
             \/ CheckEcho(t) \/ CheckAnswer(t) \/ CheckOffer(t) \/ CheckAck(t)
             \/ Timeout(t) \/ GiveUp(t)
      PROVE  /\ cur = t /\ (crossed => crossed') /\ missed \subseteq missed' /\ acks \subseteq acks'
             /\ asked' = asked \/ asked' = asked + 1
             /\ call[t].op = "none" => t = "shell" \/ Crossing(t)
             /\ Crossing(t) \/ crossed' = crossed
  BY <1>4, <1>5, <1>6, <1>7
<1>8. CASE ~UNCHANGED vars /\ ~JobStarts
  <2>1. PICK t \in Tasks :
             \/ AskStep(t) \/ CmdDhcp(t) \/ CmdNetReinit(t)
             \/ Fetch(t) \/ Handle(t) \/ PollEnds(t)
             \/ CheckEcho(t) \/ CheckAnswer(t) \/ CheckOffer(t) \/ CheckAck(t)
             \/ Timeout(t) \/ GiveUp(t)
    BY <1>8, Steps
  <2>2. /\ cur = t /\ (crossed => crossed') /\ missed \subseteq missed' /\ acks \subseteq acks'
        /\ asked' = asked \/ asked' = asked + 1
        /\ call[t].op = "none" => t = "shell" \/ Crossing(t)
        /\ Crossing(t) \/ crossed' = crossed
    BY <1>7, <1>8, <2>1
  <2>3. \A u \in Tasks : u = cur \/ call[u].op = "none" \/ crossed'
    BY <1>3, <2>2
  <2> QED BY <1>0, <2>2, <2>3
<1> QED BY <1>0, <1>1, <1>2, <1>8

-----------------------------------------------------------------------------
(* What the parts of a step do to the calls and the slots.                 *)

(* A task in no command waits for nothing.                                 *)
LEMMA IdleCall ==
    /\ Idle \in Calls /\ Idle.op = "none" /\ Idle.for = "none" /\ Idle.q = 0 /\ Idle.seq = 0
BY NetAssumption DEF Idle, Wants, Calls, Ops, Waited

(* A command that ends gives up its call and leaves the CPU to the shell.  *)
LEMMA EndsDoes ==
    ASSUME TypeInv, NEW t \in Tasks, Ends(t)
    PROVE  /\ call' \in [Tasks -> Calls] /\ call'[t] = Idle
           /\ \A u \in Tasks \ {t} : call'[u] = call[u]
           /\ cur' = "shell"
BY IdleCall DEF Ends, TypeInv

(* A call that waits is the call that asked, but for what it waits for.    *)
LEMMA WaitsForFields ==
    ASSUME NEW c \in Calls, NEW for \in Waited, NEW q \in Nat
    PROVE  /\ WaitsFor(c, for, q) \in Calls
           /\ WaitsFor(c, for, q).op = c.op /\ WaitsFor(c, for, q).for = for
           /\ WaitsFor(c, for, q).q = q /\ WaitsFor(c, for, q).dst = c.dst
           /\ WaitsFor(c, for, q).seq = c.seq /\ WaitsFor(c, for, q).slot = c.slot
BY DEF WaitsFor, Calls

(* cmd_ping between two numbers keeps everything but what it waits for.    *)
LEMMA NextDoes ==
    ASSUME TypeInv, NEW t \in Tasks, call' = [call EXCEPT ![t].for = "next"]
    PROVE  /\ call' \in [Tasks -> Calls]
           /\ call'[t].op = call[t].op /\ call'[t].for = "next" /\ call'[t].q = call[t].q
           /\ call'[t].seq = call[t].seq /\ call'[t].slot = call[t].slot
           /\ \A u \in Tasks \ {t} : call'[u] = call[u]
<1>1. call[t] \in Calls /\ call \in [Tasks -> Calls]
  BY DEF TypeInv
<1>2. call'[t] = [call[t] EXCEPT !.for = "next"]
  BY <1>1
<1>3. /\ call'[t] \in Calls
      /\ call'[t].op = call[t].op /\ call'[t].for = "next" /\ call'[t].q = call[t].q
      /\ call'[t].seq = call[t].seq /\ call'[t].slot = call[t].slot
  BY <1>1, <1>2 DEF Calls, Waited
<1> QED BY <1>1, <1>3

(* What asking the DHCP server does (net_dhcp_request).                    *)
LEMMA DhcpAsked ==
    ASSUME TypeInv, NEW t \in Tasks, NEW for \in {"offer", "ack"}, NEW answers,
           AskDhcp(t, for, answers)
    PROVE  /\ call' \in [Tasks -> Calls]
           /\ call'[t].op = "dhcp" /\ call'[t].for = for /\ call'[t].q = asked + 1
           /\ \A u \in Tasks \ {t} : call'[u] = call[u]
           /\ asked' = asked + 1
           /\ udp' = [waiting |-> TRUE, port |-> "dhcp", received |-> FALSE]
           /\ \E a \in answers :
                 /\ air' = air \cup {a}
                 /\ acks' = IF a.type = "ack" THEN acks \cup {a.lease} ELSE acks
<1> DEFINE c == [op |-> "dhcp", for |-> for, dst |-> None, seq |-> 0, slot |-> 0, q |-> asked + 1]
<1>1. c \in Calls
  BY NetAssumption DEF Calls, Ops, Waited, TypeInv, TypeOK
<1>2. call' = [call EXCEPT ![t] = c]
  BY DEF AskDhcp
<1>3. c.op = "dhcp" /\ c.for = for /\ c.q = asked + 1
  OBVIOUS
<1> HIDE DEF c
<1> QED BY <1>1, <1>2, <1>3 DEF AskDhcp, TypeInv

(* A slot that is filled, and one that is emptied.                         *)
LEMMA EchoFills ==
    ASSUME TypeInv, NEW t \in Tasks, NEW c, GoodCall(c), c.op = "ping", SendEcho(t, c)
    PROVE  /\ slots' \in [1 .. PingSlots -> Slots]
           /\ slots'[c.slot].seq = c.seq /\ slots'[c.slot].q = asked + 1
           /\ slots'[c.slot].active /\ ~slots'[c.slot].replied /\ slots'[c.slot].got = 0
           /\ \A i \in 1 .. PingSlots : i # c.slot => slots'[i] = slots[i]
<1> DEFINE s == [seq |-> c.seq, q |-> asked + 1, got |-> 0, active |-> TRUE, replied |-> FALSE]
<1>1. s \in Slots
  BY DEF Slots, GoodCall, Calls, TypeInv, TypeOK
<1>2. slots' = [slots EXCEPT ![c.slot] = s] /\ c.slot \in 1 .. PingSlots
  BY DEF SendEcho, GoodCall
<1>3. s.seq = c.seq /\ s.q = asked + 1 /\ s.active /\ ~s.replied /\ s.got = 0
  OBVIOUS
<1> HIDE DEF s
<1> QED BY <1>1, <1>2, <1>3 DEF TypeInv

(* Clearing one flag of a slot leaves its other fields alone.              *)
LEMMA SlotFields ==
    ASSUME NEW s \in Slots
    PROVE  /\ [s EXCEPT !.replied = FALSE] \in Slots
           /\ [s EXCEPT !.replied = FALSE].seq = s.seq /\ [s EXCEPT !.replied = FALSE].q = s.q
           /\ [s EXCEPT !.replied = FALSE].got = s.got
           /\ ~[s EXCEPT !.replied = FALSE].replied
           /\ [s EXCEPT !.replied = FALSE].active = s.active
           /\ [s EXCEPT !.active = FALSE] \in Slots
           /\ [s EXCEPT !.active = FALSE].seq = s.seq /\ [s EXCEPT !.active = FALSE].q = s.q
           /\ [s EXCEPT !.active = FALSE].got = s.got
           /\ [s EXCEPT !.active = FALSE].replied = s.replied
           /\ ~[s EXCEPT !.active = FALSE].active
BY DEF Slots

(* handle_icmp gives a reply to one slot that waits for its number, or to  *)
(* none.                                                                   *)
LEMMA EchoTaken ==
    ASSUME TypeInv, HandleEcho, pkt.q \in Nat
    PROVE  /\ slots' \in [1 .. PingSlots -> Slots]
           /\ \/ slots' = slots
              \/ \E i \in EchoSlot :
                   /\ slots'[i].seq = slots[i].seq /\ slots'[i].q = slots[i].q
                   /\ slots'[i].got = pkt.q /\ slots'[i].replied /\ ~slots'[i].active
                   /\ \A j \in 1 .. PingSlots : j # i => slots'[j] = slots[j]
<1>1. CASE EchoSlot = {}
  BY <1>1 DEF HandleEcho, TypeInv
<1>2. CASE EchoSlot # {}
  <2> DEFINE i == CHOOSE k \in EchoSlot : \A j \in EchoSlot : k <= j
  <2>1. EchoSlot \subseteq Nat /\ EchoSlot \subseteq 1 .. PingSlots
    BY DEF EchoSlot
  <2>2. i \in EchoSlot
    BY <1>2, <2>1, LeastExists
  <2> DEFINE s == Answered(slots[i])
  <2>3. slots' = [slots EXCEPT ![i] = s]
    BY <1>2 DEF HandleEcho
  <2> HIDE DEF i
  <2>4. slots[i] \in Slots
    BY <2>1, <2>2 DEF TypeInv
  <2>5. /\ s \in Slots /\ s.seq = slots[i].seq /\ s.q = slots[i].q /\ s.got = pkt.q
        /\ s.replied /\ ~s.active
    BY <2>4 DEF Slots, Answered
  <2> HIDE DEF s
  <2> QED BY <2>1, <2>2, <2>3, <2>5 DEF TypeInv
<1> QED BY <1>1, <1>2

(* net_ping_check frees the slot it reports and touches no other.          *)
LEMMA Consumed ==
    ASSUME TypeInv, NEW i \in 1 .. PingSlots, Consume(i)
    PROVE  /\ slots' \in [1 .. PingSlots -> Slots]
           /\ slots'[i].seq = slots[i].seq /\ slots'[i].q = slots[i].q /\ slots'[i].got = slots[i].got
           /\ ~slots'[i].replied /\ slots'[i].active = slots[i].active
           /\ \A j \in 1 .. PingSlots : j # i => slots'[j] = slots[j]
<1>1. slots' = [slots EXCEPT ![i] = [slots[i] EXCEPT !.replied = FALSE]]
  BY DEF Consume
<1>2. slots[i] \in Slots /\ slots \in [1 .. PingSlots -> Slots]
  BY DEF TypeInv
<1>3. slots'[i] = [slots[i] EXCEPT !.replied = FALSE] /\ slots'[i] \in Slots
  BY <1>1, <1>2, SlotFields
<1>4. /\ slots'[i].seq = slots[i].seq /\ slots'[i].q = slots[i].q /\ slots'[i].got = slots[i].got
      /\ ~slots'[i].replied /\ slots'[i].active = slots[i].active
  <2> DEFINE s == slots[i]
  <2>1. /\ [s EXCEPT !.replied = FALSE].seq = s.seq /\ [s EXCEPT !.replied = FALSE].q = s.q
        /\ [s EXCEPT !.replied = FALSE].got = s.got
        /\ ~[s EXCEPT !.replied = FALSE].replied
        /\ [s EXCEPT !.replied = FALSE].active = s.active
    BY <1>2, SlotFields
  <2> QED BY <1>3, <2>1, Zenon
<1> QED BY <1>1, <1>2, <1>3, <1>4

(* net_init forgets that slots wait, not what they have received.          *)
LEMMA Reinitialised ==
    ASSUME TypeInv, slots' = [i \in 1 .. PingSlots |-> [slots[i] EXCEPT !.active = FALSE]]
    PROVE  /\ slots' \in [1 .. PingSlots -> Slots]
           /\ \A i \in 1 .. PingSlots :
                /\ slots'[i].seq = slots[i].seq /\ slots'[i].q = slots[i].q /\ slots'[i].got = slots[i].got
                /\ ~slots'[i].active /\ slots'[i].replied = slots[i].replied
<1>1. ASSUME NEW i \in 1 .. PingSlots
      PROVE  /\ slots'[i] \in Slots
             /\ slots'[i].seq = slots[i].seq /\ slots'[i].q = slots[i].q /\ slots'[i].got = slots[i].got
             /\ ~slots'[i].active /\ slots'[i].replied = slots[i].replied
  <2>1. slots[i] \in Slots
    BY DEF TypeInv
  <2>2. slots'[i] = [slots[i] EXCEPT !.active = FALSE]
    BY Zenon
  <2> QED BY <2>1, <2>2, SlotFields, Zenon
<1>2. slots' \in [1 .. PingSlots -> Slots]
  <2> DEFINE F(i) == [slots[i] EXCEPT !.active = FALSE]
  <2>1. slots' = [i \in 1 .. PingSlots |-> F(i)]
    OBVIOUS
  <2>2. \A i \in 1 .. PingSlots : F(i) \in Slots
    BY SlotFields, NetAssumption DEF TypeInv
  <2> HIDE DEF F
  <2> QED BY <2>1, <2>2
<1> QED BY <1>1, <1>2

(* What asking does: it sends an echo request or a query, asks for the      *)
(* address, or ends the command.                                           *)
Others(t) == \A u \in Tasks \ {t} : call'[u] = call[u]

Echoes(t) ==
    /\ call'[t].op = "ping" /\ call'[t].for = "echo" /\ call'[t].q = asked + 1
    /\ call'[t].slot \in 1 .. PingSlots /\ asked' = asked + 1
    /\ slots' \in [1 .. PingSlots -> Slots]
    /\ \E i \in 1 .. PingSlots :
          /\ slots'[i].seq = call'[t].seq /\ slots'[i].q = asked + 1
          /\ slots'[i].active /\ ~slots'[i].replied /\ slots'[i].got = 0
          /\ \A j \in 1 .. PingSlots : j # i => slots'[j] = slots[j]
    /\ \E to : air' = air \cup {EchoReply(call'[t].seq, asked + 1, to)}
    /\ UNCHANGED <<cur, flag, udp, heard>>

Queries(t) ==
    /\ call'[t].op = "nslookup" /\ call'[t].for = "answer" /\ call'[t].q = asked + 1
    /\ call'[t].seq = 0 /\ asked' = asked + 1
    /\ udp' = [waiting |-> TRUE, port |-> "dns", received |-> FALSE]
    /\ \E ok, to : air' = air \cup {Dns(asked + 1, ok, to)}
    /\ UNCHANGED <<cur, flag, heard, slots>>

Seeks(t) ==
    /\ call'[t].op \in {"ping", "nslookup", "udpsend"} /\ call'[t].for = "address"
    /\ call'[t].op = "ping" => call'[t].slot \in 1 .. PingSlots
    /\ call'[t].op = "nslookup" => call'[t].seq = 0
    /\ call'[t].q <= asked /\ heard' = [heard EXCEPT ![t] = FALSE]
    /\ air' = air \/ \E h \in Local : air' = air \cup {ArpFrame(h)}
    /\ UNCHANGED <<cur, flag, asked, slots, udp>>

(* net_ping with the address at hand: one slot is filled, one reply may    *)
(* come.                                                                   *)
LEMMA EchoDoes ==
    ASSUME TypeInv, NEW t \in Tasks, NEW c, GoodCall(c), c.op = "ping", SendEcho(t, c),
           UNCHANGED heard
    PROVE  call' \in [Tasks -> Calls] /\ Others(t) /\ Echoes(t)
<1>1. asked \in Nat /\ asked + 1 \in Nat /\ call \in [Tasks -> Calls] /\ "echo" \in Waited
  BY DEF TypeInv, TypeOK, Waited
<1>2. c \in Calls /\ c.slot \in 1 .. PingSlots
  BY DEF GoodCall
<1> DEFINE w == WaitsFor(c, "echo", asked + 1)
<1>3. /\ w \in Calls /\ w.op = c.op /\ w.for = "echo" /\ w.q = asked + 1
      /\ w.slot = c.slot /\ w.seq = c.seq
  <2>1. c \in Calls /\ "echo" \in Waited /\ asked + 1 \in Nat
    BY <1>1, <1>2
  <2> QED BY <2>1, WaitsForFields
<1>4. call' = [call EXCEPT ![t] = w]
  BY DEF SendEcho
<1> HIDE DEF w
<1>5. call'[t] = w /\ call' \in [Tasks -> Calls] /\ Others(t)
  BY <1>1, <1>3, <1>4 DEF Others
<1>6. /\ slots' \in [1 .. PingSlots -> Slots]
      /\ slots'[c.slot].seq = c.seq /\ slots'[c.slot].q = asked + 1
      /\ slots'[c.slot].active /\ ~slots'[c.slot].replied /\ slots'[c.slot].got = 0
      /\ \A i \in 1 .. PingSlots : i # c.slot => slots'[i] = slots[i]
  BY EchoFills
<1>7. /\ asked' = asked + 1 /\ UNCHANGED <<cur, flag, udp, heard>>
      /\ air' = air \cup {EchoReply(c.seq, asked + 1, cfg.ip)}
  BY DEF SendEcho, Continues
<1>8. \E i \in 1 .. PingSlots :
          /\ slots'[i].seq = call'[t].seq /\ slots'[i].q = asked + 1
          /\ slots'[i].active /\ ~slots'[i].replied /\ slots'[i].got = 0
          /\ \A j \in 1 .. PingSlots : j # i => slots'[j] = slots[j]
  BY <1>2, <1>3, <1>5, <1>6
<1>9. \E to : air' = air \cup {EchoReply(call'[t].seq, asked + 1, to)}
  BY <1>3, <1>5, <1>7
<1> QED BY <1>2, <1>3, <1>5, <1>6, <1>7, <1>8, <1>9 DEF Echoes

(* net_dns_resolve with the address at hand: one answer may come.          *)
LEMMA DnsDoes ==
    ASSUME TypeInv, NEW t \in Tasks, NEW c, GoodCall(c), c.op = "nslookup", SendDns(t, c),
           UNCHANGED heard
    PROVE  call' \in [Tasks -> Calls] /\ Others(t) /\ Queries(t)
<1>1. asked \in Nat /\ asked + 1 \in Nat /\ call \in [Tasks -> Calls] /\ "answer" \in Waited
  BY DEF TypeInv, TypeOK, Waited
<1>2. c \in Calls /\ c.seq = 0
  BY DEF GoodCall
<1> DEFINE w == WaitsFor(c, "answer", asked + 1)
<1>3. w \in Calls /\ w.op = c.op /\ w.for = "answer" /\ w.q = asked + 1 /\ w.seq = c.seq
  <2>1. c \in Calls /\ "answer" \in Waited /\ asked + 1 \in Nat
    BY <1>1, <1>2
  <2> QED BY <2>1, WaitsForFields
<1>4. call' = [call EXCEPT ![t] = w]
  BY DEF SendDns
<1> HIDE DEF w
<1>5. call'[t] = w /\ call' \in [Tasks -> Calls] /\ Others(t)
  BY <1>1, <1>3, <1>4 DEF Others
<1>6. /\ asked' = asked + 1 /\ UNCHANGED <<cur, flag, heard, slots>>
      /\ udp' = [waiting |-> TRUE, port |-> "dns", received |-> FALSE]
      /\ \E ok, to : air' = air \cup {Dns(asked + 1, ok, to)}
  BY DEF SendDns, Continues
<1> QED BY <1>2, <1>3, <1>5, <1>6 DEF Queries

(* resolve_mac without the address: the host may tell it.                  *)
LEMMA AddressDoes ==
    ASSUME TypeInv, NEW t \in Tasks, NEW c, GoodCall(c), c.op \in {"ping", "nslookup", "udpsend"},
           AsksAddress(t, c)
    PROVE  call' \in [Tasks -> Calls] /\ Others(t) /\ Seeks(t)
<1>1. call \in [Tasks -> Calls] /\ "address" \in Waited
  BY DEF TypeInv, Waited
<1>2. c \in Calls /\ c.q \in Nat /\ c.q <= asked
  BY DEF GoodCall, Calls
<1> DEFINE w == WaitsFor(c, "address", c.q)
<1>3. /\ w \in Calls /\ w.op = c.op /\ w.for = "address" /\ w.q = c.q
      /\ w.slot = c.slot /\ w.seq = c.seq
  <2>1. c \in Calls /\ "address" \in Waited /\ c.q \in Nat
    BY <1>1, <1>2
  <2> QED BY <2>1, WaitsForFields
<1>4. call' = [call EXCEPT ![t] = w]
  BY DEF AsksAddress
<1> HIDE DEF w
<1>5. call'[t] = w /\ call' \in [Tasks -> Calls] /\ Others(t)
  BY <1>1, <1>3, <1>4 DEF Others
<1>6. /\ heard' = [heard EXCEPT ![t] = FALSE]
      /\ UNCHANGED <<cur, flag, asked, slots, udp>>
      /\ air' = air \/ \E h \in Local : air' = air \cup {ArpFrame(h)}
  BY DEF AsksAddress, Continues
<1> QED BY <1>2, <1>3, <1>5, <1>6 DEF Seeks, GoodCall

(* Asking is one of these and leaves the calls of the other tasks alone.   *)
LEMMA AskDoes ==
    ASSUME TypeInv, NEW t \in Tasks, Asks(t)
    PROVE  /\ call' \in [Tasks -> Calls] /\ Others(t)
           /\ \/ Echoes(t)
              \/ Queries(t)
              \/ Seeks(t)
              \/ Ends(t) /\ call'[t] = Idle /\ UNCHANGED <<slots, udp, air, asked, heard>>
              \/ UNCHANGED <<call, cur, flag, slots, udp, air, asked, heard>>
<1>1. ASSUME NEW c, GoodCall(c), c.op = "ping", SendEcho(t, c), UNCHANGED heard
      PROVE  call' \in [Tasks -> Calls] /\ Others(t) /\ Echoes(t)
  BY <1>1, EchoDoes
<1>2. ASSUME NEW c, GoodCall(c), c.op = "nslookup", SendDns(t, c), UNCHANGED heard
      PROVE  call' \in [Tasks -> Calls] /\ Others(t) /\ Queries(t)
  BY <1>2, DnsDoes
<1>3. ASSUME NEW c, GoodCall(c), c.op \in {"ping", "nslookup", "udpsend"}, AsksAddress(t, c)
      PROVE  call' \in [Tasks -> Calls] /\ Others(t) /\ Seeks(t)
  BY <1>3, AddressDoes
<1>4. CASE Ends(t) /\ UNCHANGED <<slots, udp, air, asked, heard>>
  BY <1>4, EndsDoes DEF Others
<1>5. CASE Continues /\ UNCHANGED <<call, slots, udp, air, asked, heard>>
  BY <1>5 DEF Continues, TypeInv, Others
<1> QED BY <1>1, <1>2, <1>3, <1>4, <1>5 DEF Asks

-----------------------------------------------------------------------------
(* The calls.                                                              *)

(* What a task waits for goes with the command it is in.                   *)
LEMMA CallKept ==
    ASSUME TypeInv, WhoInv, CallInv, [Next]_vars
    PROVE  call' \in [Tasks -> Calls] /\ CallInv'
<1>1. /\ asked \in Nat /\ asked' \in Nat /\ asked <= asked'
      /\ call \in [Tasks -> Calls]
  BY Facts DEF TypeInv, TypeOK
<1>2. CASE UNCHANGED call
  BY <1>1, <1>2 DEF CallInv, Calls
<1>3. ASSUME NEW t \in Tasks, call' \in [Tasks -> Calls],
             \A u \in Tasks \ {t} : call'[u] = call[u], call'[t] = Idle
      PROVE  CallInv'
  BY <1>1, <1>3, IdleCall DEF CallInv, Calls
<1>4. ASSUME NEW t \in Tasks, call' = [call EXCEPT ![t].for = "next"], call[t].for = "echo"
      PROVE  call' \in [Tasks -> Calls] /\ CallInv'
  <2>1. /\ call' \in [Tasks -> Calls]
        /\ call'[t].op = call[t].op /\ call'[t].for = "next" /\ call'[t].q = call[t].q
        /\ call'[t].seq = call[t].seq /\ call'[t].slot = call[t].slot
        /\ \A u \in Tasks \ {t} : call'[u] = call[u]
    BY <1>4, NextDoes
  <2> QED BY <1>1, <1>4, <2>1 DEF CallInv, Calls
<1>5. ASSUME NEW t \in Tasks, AskStep(t)
      PROVE  call' \in [Tasks -> Calls] /\ CallInv'
  <2>1. Asks(t)
    BY <1>5 DEF AskStep
  <2>2. call' \in [Tasks -> Calls] /\ Others(t)
    BY <2>1, AskDoes
  <2>3. ASSUME call'[t].op # "none", call'[t].for \in {"echo", "answer", "address"},
               call'[t].for = "echo" => call'[t].op = "ping",
               call'[t].for = "answer" => call'[t].op = "nslookup",
               call'[t].op = "ping" => call'[t].slot \in 1 .. PingSlots,
               call'[t].op = "nslookup" => call'[t].seq = 0,
               call'[t].q <= asked'
        PROVE  CallInv'
    BY <1>1, <2>2, <2>3 DEF CallInv, Calls, Others
  <2>4. CASE Echoes(t)
    BY <1>1, <2>2, <2>3, <2>4 DEF Echoes
  <2>5. CASE Queries(t)
    BY <1>1, <2>2, <2>3, <2>5 DEF Queries
  <2>6. CASE Seeks(t)
    BY <1>1, <2>2, <2>3, <2>6 DEF Seeks
  <2> QED BY <1>2, <1>3, <2>1, <2>2, <2>4, <2>5, <2>6, AskDoes DEF Others
<1>6. ASSUME NEW t \in Tasks, NEW for \in {"offer", "ack"}, NEW answers, AskDhcp(t, for, answers)
      PROVE  call' \in [Tasks -> Calls] /\ CallInv'
  BY <1>1, <1>6, DhcpAsked DEF CallInv, Calls
<1>7. ASSUME NEW t \in Tasks, Ends(t)
      PROVE  call' \in [Tasks -> Calls] /\ CallInv'
  BY <1>3, <1>7, EndsDoes
<1>8. ASSUME NEW t \in Tasks, CmdDhcp(t) \/ CmdNetReinit(t)
      PROVE  call' \in [Tasks -> Calls] /\ CallInv'
  BY <1>6, <1>7, <1>8 DEF CmdDhcp, CmdNetReinit
<1>9. ASSUME NEW t \in Tasks, Fetch(t) \/ Handle(t) \/ PollEnds(t)
      PROVE  UNCHANGED call
  BY <1>9 DEF Fetch, Handle, PollEnds
<1>10. ASSUME NEW t \in Tasks, CheckEcho(t) \/ GiveUp(t)
       PROVE  call' \in [Tasks -> Calls] /\ CallInv'
  BY <1>2, <1>1, <1>4, <1>10 DEF CheckEcho, GiveUp
<1>11. ASSUME NEW t \in Tasks, CheckAnswer(t) \/ CheckOffer(t) \/ CheckAck(t) \/ Timeout(t)
       PROVE  call' \in [Tasks -> Calls] /\ CallInv'
  BY <1>1, <1>2, <1>6, <1>7, <1>11 DEF CheckAnswer, CheckOffer, CheckAck, Timeout
<1>12. CASE UNCHANGED vars \/ JobStarts
  BY <1>1, <1>2, <1>12 DEF vars, code, JobStarts
<1> QED BY <1>1, <1>2, <1>5, <1>8, <1>9, <1>10, <1>11, <1>12, Steps

-----------------------------------------------------------------------------
(* Who takes a step, and what it leaves to the others.                     *)

(* Only the task that has the CPU moves.                                   *)
LEMMA OthersStay ==
    ASSUME TypeInv, CallInv, [Next]_vars, NEW u \in Tasks, u # cur
    PROVE  call'[u] = call[u] /\ at'[u] = at[u]
<1>1. call \in [Tasks -> Calls] /\ at \in [Tasks -> {"top", "have", "poll"}]
  BY DEF TypeInv, TypeOK
<1>2. CASE UNCHANGED vars \/ JobStarts
  BY <1>2 DEF vars, code, JobStarts
<1>3. ASSUME NEW t \in Tasks, AskStep(t)
      PROVE  call'[u] = call[u] /\ at'[u] = at[u]
  <2>1. u # t /\ Asks(t) /\ at'[u] = at[u]
    BY <1>1, <1>3 DEF AskStep
  <2> QED BY <2>1, AskDoes DEF Others
<1>4. ASSUME NEW t \in Tasks, CmdDhcp(t) \/ CmdNetReinit(t)
      PROVE  call'[u] = call[u] /\ at'[u] = at[u]
  <2>1. u # t /\ at' = at
    BY <1>4 DEF CmdDhcp, CmdNetReinit, MayStart
  <2> QED BY <1>4, <2>1, DhcpAsked, EndsDoes DEF CmdDhcp, CmdNetReinit
<1>5. ASSUME NEW t \in Tasks, Fetch(t) \/ Handle(t) \/ PollEnds(t)
      PROVE  call'[u] = call[u] /\ at'[u] = at[u]
  BY <1>1, <1>5 DEF Fetch, Handle, PollEnds
<1>6. ASSUME NEW t \in Tasks,
             CheckEcho(t) \/ CheckAnswer(t) \/ CheckOffer(t) \/ CheckAck(t) \/ Timeout(t) \/ GiveUp(t)
      PROVE  /\ u # t /\ at'[u] = at[u]
             /\ \/ call' = call \/ Ends(t)
                \/ call' = [call EXCEPT ![t].for = "next"]
                \/ \E answers : AskDhcp(t, "ack", answers)
  <2>1. CASE CheckEcho(t)
    BY <1>1, <2>1 DEF CheckEcho, Polled, Loop
  <2>2. CASE CheckAnswer(t)
    BY <1>1, <2>2 DEF CheckAnswer, Polled, Loop
  <2>3. CASE CheckOffer(t)
    BY <1>1, <2>3 DEF CheckOffer, Polled, Loop
  <2>4. CASE CheckAck(t)
    BY <1>1, <2>4 DEF CheckAck, Polled, Loop
  <2>5. CASE Timeout(t)
    BY <2>5 DEF Timeout
  <2>6. CASE GiveUp(t)
    BY <2>6 DEF GiveUp
  <2> QED BY <1>6, <2>1, <2>2, <2>3, <2>4, <2>5, <2>6
<1>7. ASSUME NEW t \in Tasks,
             CheckEcho(t) \/ CheckAnswer(t) \/ CheckOffer(t) \/ CheckAck(t) \/ Timeout(t) \/ GiveUp(t)
      PROVE  call'[u] = call[u] /\ at'[u] = at[u]
  BY <1>1, <1>6, <1>7, EndsDoes, NextDoes, DhcpAsked
<1> QED BY <1>2, <1>3, <1>4, <1>5, <1>7, Steps

(* While nobody has crossed anybody, the others are in no command.         *)
LEMMA Alone ==
    ASSUME TypeInv, WhoInv, CallInv, [Next]_vars, ~UNCHANGED vars, ~JobStarts, ~crossed'
    PROVE  /\ ~crossed
           /\ \A u \in Tasks \ {cur} :
                /\ call[u].op = "none" /\ call[u].for = "none"
                /\ call'[u].op = "none" /\ call'[u].for = "none"
<1>1. \A u \in Tasks : u = cur \/ call[u].op = "none"
  BY Facts
<1> QED BY <1>1, Facts, OthersStay DEF CallInv

(* A job that is in a command has the CPU; two tasks are in commands at    *)
(* once only if one has crossed the other.                                 *)
LEMMA WhoKept ==
    ASSUME TypeInv, WhoInv, CallInv, [Next]_vars
    PROVE  WhoInv'
<1>1. /\ call \in [Tasks -> Calls] /\ at \in [Tasks -> {"top", "have", "poll"}] /\ cur \in Tasks
      /\ "job" \in Tasks /\ "shell" \in Tasks
  BY DEF TypeInv, TypeOK, Tasks
<1>2. CASE UNCHANGED vars
  BY <1>2 DEF vars, code, history, WhoInv
<1>3. CASE JobStarts
  BY <1>3 DEF JobStarts, WhoInv
<1>4. ASSUME ~UNCHANGED vars, ~JobStarts,
             call'["job"].op # "none" => cur' = cur,
             cur = "job" => at'["job"] = "top" \/ call'["job"].op # "none"
      PROVE  WhoInv'
  <2>1. CASE cur = "job"
    BY <1>1, <1>4, <2>1, Alone, OthersStay DEF WhoInv, Tasks
  <2>2. CASE cur = "shell"
    BY <1>1, <1>4, <2>2, Alone, OthersStay DEF WhoInv, Tasks
  <2> QED BY <1>1, <2>1, <2>2 DEF Tasks
<1>5. ASSUME NEW t \in Tasks, AskStep(t)
      PROVE  /\ call'["job"].op # "none" => cur' = cur
             /\ cur = "job" => at'["job"] = "top" \/ call'["job"].op # "none"
  <2>1. Asks(t) /\ cur = t /\ at' = [at EXCEPT ![t] = "top"]
    BY <1>5 DEF AskStep
  <2>2. cur' = cur \/ (Ends(t) /\ call'[t] = Idle)
    BY <2>1, AskDoes DEF Echoes, Queries, Seeks
  <2> QED BY <1>1, <2>1, <2>2, IdleCall, EndsDoes DEF WhoInv, Tasks
<1>6. ASSUME NEW t \in Tasks, Ends(t), cur = t, at[t] = "top" \/ at'[t] = "top", at' = at \/ at'[t] = "top"
      PROVE  /\ call'["job"].op # "none" => cur' = cur
             /\ cur = "job" => at'["job"] = "top" \/ call'["job"].op # "none"
  BY <1>1, <1>6, IdleCall, EndsDoes DEF WhoInv, Tasks
<1> QED
  <2>1. SUFFICES ASSUME NEW t \in Tasks, ~UNCHANGED vars, ~JobStarts,
                        \/ AskStep(t) \/ CmdDhcp(t) \/ CmdNetReinit(t)
                        \/ Fetch(t) \/ Handle(t) \/ PollEnds(t)
                        \/ CheckEcho(t) \/ CheckAnswer(t) \/ CheckOffer(t) \/ CheckAck(t)
                        \/ Timeout(t) \/ GiveUp(t)
                 PROVE  /\ call'["job"].op # "none" => cur' = cur
                        /\ cur = "job" => at'["job"] = "top" \/ call'["job"].op # "none"
    BY <1>2, <1>3, <1>4, Steps
  <2>2. CASE CmdDhcp(t)
    BY <1>1, <2>2 DEF CmdDhcp, MayStart, Continues
  <2>3. CASE CmdNetReinit(t)
    BY <1>6, <2>3 DEF CmdNetReinit, MayStart
  <2>4. CASE Fetch(t)
    BY <1>1, <2>4 DEF Fetch, Tasks
  <2>5. CASE Handle(t)
    BY <1>1, <2>5 DEF Handle, WhoInv
  <2>6. CASE PollEnds(t)
    BY <1>1, <2>6 DEF PollEnds
  <2>7. CASE CheckEcho(t)
    BY <1>1, <2>7 DEF CheckEcho, Polled, Loop
  <2>8. CASE CheckAnswer(t)
    BY <1>1, <1>6, <2>8 DEF CheckAnswer, Polled, Loop, Continues
  <2>9. CASE CheckOffer(t)
    BY <1>1, <1>6, <2>9 DEF CheckOffer, Polled, Loop, Continues
  <2>10. CASE CheckAck(t)
    BY <1>1, <1>6, <2>10 DEF CheckAck, Polled, Loop, Continues
  <2>11. CASE Timeout(t)
    BY <1>6, <2>11 DEF Timeout
  <2>12. CASE GiveUp(t)
    BY <1>1, <2>12 DEF GiveUp
  <2> QED BY <1>5, <2>1, <2>2, <2>3, <2>4, <2>5, <2>6, <2>7, <2>8, <2>9, <2>10, <2>11, <2>12

-----------------------------------------------------------------------------
(* The frames.                                                             *)

(* A frame that is added, one that is taken away, and the buffer.          *)
LEMMA FrameAdded ==
    ASSUME FrameInv, asked \in Nat, NEW f, air' = air \cup {f}, pkt' = pkt, IsFrame(f)',
           acks \subseteq acks', asked' \in Nat, asked <= asked',
           Numbered(f) => f.q = asked + 1
    PROVE  FrameInv'
<1>1. ASSUME NEW g, IsFrame(g) PROVE IsFrame(g)' /\ (Numbered(g) => g.q \in 1 .. asked)
  BY <1>1 DEF IsFrame
<1>2. ASSUME NEW g, IsFrame(g), Numbered(g), Numbered(f) PROVE g.q # f.q
  BY <1>1, <1>2
<1> QED BY <1>1, <1>2 DEF FrameInv

(* Frames stay what they are when none is added.                           *)
LEMMA FrameStays ==
    ASSUME FrameInv, asked \in Nat, air' \subseteq air, pkt' \in {pkt, NoFrame},
           acks \subseteq acks', asked' \in Nat, asked <= asked'
    PROVE  FrameInv'
<1>1. ASSUME NEW g, IsFrame(g) PROVE IsFrame(g)'
  BY <1>1 DEF IsFrame
<1>2. IsFrame(NoFrame)' /\ ~Numbered(NoFrame)
  BY DEF IsFrame, NoFrame, Numbered
<1> QED BY <1>1, <1>2 DEF FrameInv

(* Frames under way are answers to questions asked, no two to the same     *)
(* one.                                                                    *)
LEMMA FrameKept ==
    ASSUME TypeInv, WhoInv, CallInv, FrameInv, [Next]_vars
    PROVE  FrameInv'
<1>1. /\ asked \in Nat /\ asked + 1 \in Nat /\ asked' \in Nat /\ asked <= asked'
      /\ acks \subseteq acks'
  BY Facts DEF TypeInv, TypeOK
<1>2. CASE UNCHANGED <<air, pkt>>
  BY <1>1, <1>2, FrameStays
<1>3. ASSUME NEW t \in Tasks, AskStep(t)
      PROVE  FrameInv'
  <2>1. Asks(t) /\ pkt' = pkt
    BY <1>3 DEF AskStep
  <2>2. CASE Echoes(t)
    <3>1. PICK f : air' = air \cup {f} /\ f.kind = "echo" /\ f.q = asked + 1 /\ asked' = asked + 1
      BY <2>2 DEF Echoes, EchoReply
    <3>2. IsFrame(f)'
      BY <1>1, <3>1 DEF IsFrame, Numbered
    <3> QED BY <1>1, <2>1, <3>1, <3>2, FrameAdded
  <2>3. CASE Queries(t)
    <3>1. PICK f : /\ air' = air \cup {f} /\ f.kind = "udp" /\ f.port = "dns" /\ f.q = asked + 1
                   /\ asked' = asked + 1
      BY <2>3 DEF Queries, Dns
    <3>2. IsFrame(f)'
      BY <1>1, <3>1 DEF IsFrame, Numbered
    <3> QED BY <1>1, <2>1, <3>1, <3>2, FrameAdded
  <2>4. CASE Seeks(t)
    <3>1. ASSUME NEW h \in Local, air' = air \cup {ArpFrame(h)}
          PROVE  FrameInv'
      <4>1. IsFrame(ArpFrame(h))' /\ ~Numbered(ArpFrame(h))
        BY DEF IsFrame, ArpFrame, Numbered
      <4> QED BY <1>1, <2>1, <3>1, <4>1, FrameAdded
    <3> QED BY <1>2, <2>1, <2>4, <3>1 DEF Seeks
  <2> QED BY <1>2, <2>1, <2>2, <2>3, <2>4, AskDoes
<1>4. ASSUME NEW t \in Tasks, CmdDhcp(t) \/ CheckOffer(t)
      PROVE  FrameInv'
  <2>1. ASSUME NEW type \in {"offer", "ack", "nak"}, NEW l \in Offers, type = "ack" => l \in acks',
               asked' = asked + 1, pkt' = pkt, NEW f, f = Dhcp(asked + 1, type, l), air' = air \cup {f}
        PROVE  FrameInv'
    <3>1. f.kind = "udp" /\ f.q = asked + 1 /\ f.type = type /\ f.lease = l
      BY <2>1 DEF Dhcp
    <3>2. IsFrame(f)'
      BY <1>1, <2>1, <3>1 DEF IsFrame, Numbered
    <3> QED BY <1>1, <2>1, <3>1, <3>2, FrameAdded
  <2>2. ASSUME NEW for \in {"offer", "ack"}, NEW answers, AskDhcp(t, for, answers),
               \A a \in answers : \E type \in {"offer", "ack", "nak"}, l \in Offers :
                                     a = Dhcp(asked + 1, type, l),
               pkt' = pkt
        PROVE  FrameInv'
    <3>1. PICK a \in answers : /\ air' = air \cup {a}
                               /\ acks' = IF a.type = "ack" THEN acks \cup {a.lease} ELSE acks
      BY <2>2 DEF AskDhcp
    <3>2. PICK type \in {"offer", "ack", "nak"}, l \in Offers : a = Dhcp(asked + 1, type, l)
      BY <2>2
    <3>3. a.type = type /\ a.lease = l
      BY <3>2 DEF Dhcp
    <3>4. asked' = asked + 1
      BY <2>2 DEF AskDhcp
    <3> QED BY <2>1, <2>2, <3>1, <3>2, <3>3, <3>4
  <2>3. CASE CmdDhcp(t)
    BY <2>2, <2>3 DEF CmdDhcp
  <2>4. CASE CheckOffer(t)
    <3>1. pkt' = pkt
      BY <2>4 DEF CheckOffer
    <3>2. CASE udp.received /\ Got("dhcp", "offer")
      <4>1. pkt.lease \in Offers
        BY <3>2 DEF Got, FrameInv, IsFrame
      <4> QED BY <2>2, <2>4, <3>1, <3>2, <4>1 DEF CheckOffer
    <3>3. CASE ~(udp.received /\ Got("dhcp", "offer"))
      BY <1>2, <2>4, <3>1, <3>3 DEF CheckOffer
    <3> QED BY <3>2, <3>3
  <2> QED BY <1>4, <2>3, <2>4
<1>5. ASSUME NEW t \in Tasks, Fetch(t)
      PROVE  FrameInv'
  <2>1. acks' = acks /\ asked' = asked
    BY <1>5 DEF Fetch, Quiet
  <2>2. ASSUME NEW g PROVE IsFrame(g)' <=> IsFrame(g)
    BY <2>1 DEF IsFrame
  <2>3. CASE \E f \in air : pkt' = f /\ air' = air \ {f}
    BY <2>2, <2>3 DEF FrameInv
  <2>4. CASE \E h \in Strangers : pkt' = ArpFrame(h) /\ UNCHANGED air
    <3>1. \A h \in Strangers : IsFrame(ArpFrame(h)) /\ ~Numbered(ArpFrame(h))
      BY NetAssumption DEF IsFrame, ArpFrame, Numbered
    <3> QED BY <2>2, <2>4, <3>1 DEF FrameInv
  <2> QED BY <1>5, <2>3, <2>4 DEF Fetch
<1>6. ASSUME NEW t \in Tasks, Handle(t)
      PROVE  FrameInv'
  <2>1. air' = air /\ pkt' \in {pkt, NoFrame}
    BY <1>6 DEF Handle, outside
  <2> QED BY <1>1, <2>1, FrameStays
<1>7. ASSUME NEW t \in Tasks,
             \/ CmdNetReinit(t) \/ PollEnds(t)
             \/ CheckEcho(t) \/ CheckAnswer(t) \/ CheckAck(t) \/ Timeout(t) \/ GiveUp(t)
      PROVE  UNCHANGED <<air, pkt>>
  BY <1>7 DEF CmdNetReinit, PollEnds, CheckEcho, CheckAnswer, CheckAck, Timeout, GiveUp, outside
<1>8. CASE UNCHANGED vars \/ JobStarts
  BY <1>2, <1>8 DEF vars, code, outside, JobStarts
<1> QED BY <1>2, <1>3, <1>4, <1>5, <1>6, <1>7, <1>8, Steps

-----------------------------------------------------------------------------
(* Types, the cache, the configuration and what has been heard.            *)

(* Which steps change what.                                                *)
LEMMA OnlyThese ==
    ASSUME TypeInv, CallInv, [Next]_vars
    PROVE  /\ cfg' = cfg \/ \E t \in Tasks : CmdNetReinit(t) \/ CheckAck(t)
           /\ arp' = arp \/ \E t \in Tasks : CmdNetReinit(t) \/ (Handle(t) /\ pkt.kind = "arp" /\ HandleArp)
           /\ slots' = slots \/ \E t \in Tasks :
                 \/ AskStep(t) \/ CmdNetReinit(t) \/ CheckEcho(t)
                 \/ Handle(t) /\ pkt.kind = "echo" /\ HandleEcho
           /\ udp' = udp \/ \E t \in Tasks :
                 \/ AskStep(t) \/ CmdDhcp(t) \/ CheckAnswer(t) \/ CheckOffer(t) \/ CheckAck(t)
                 \/ Timeout(t) \/ (Handle(t) /\ pkt.kind = "udp" /\ HandleUdp)
           /\ heard' = heard \/ \E t \in Tasks :
                 AskStep(t) \/ (Handle(t) /\ pkt.kind = "arp" /\ HandleArp)
           /\ strays' = strays \/ \E t \in Tasks : Fetch(t)
<1>1. CASE UNCHANGED vars \/ JobStarts
  BY <1>1 DEF vars, code, outside, history, JobStarts
<1>2. ASSUME NEW t \in Tasks, AskStep(t)
      PROVE  cfg' = cfg /\ arp' = arp /\ strays' = strays
  BY <1>2 DEF AskStep
<1>3. ASSUME NEW t \in Tasks, CmdDhcp(t)
      PROVE  UNCHANGED <<cfg, arp, slots, heard, strays>>
  BY <1>3 DEF CmdDhcp
<1>4. ASSUME NEW t \in Tasks, CmdNetReinit(t)
      PROVE  UNCHANGED <<udp, heard, strays>>
  BY <1>4 DEF CmdNetReinit
<1>5. ASSUME NEW t \in Tasks, Fetch(t) \/ PollEnds(t) \/ GiveUp(t)
      PROVE  /\ UNCHANGED <<cfg, arp, slots, udp, heard>>
             /\ strays' = strays \/ Fetch(t)
  BY <1>5 DEF Fetch, PollEnds, GiveUp, Quiet, outside
<1>6. ASSUME NEW t \in Tasks, Handle(t)
      PROVE  /\ UNCHANGED <<cfg, strays>>
             /\ \/ pkt.kind = "arp" /\ HandleArp /\ UNCHANGED <<slots, udp>>
                \/ pkt.kind = "echo" /\ HandleEcho /\ UNCHANGED <<arp, udp, heard>>
                \/ pkt.kind = "udp" /\ HandleUdp /\ UNCHANGED <<arp, slots, heard>>
                \/ UNCHANGED <<arp, slots, udp, heard>>
  <2>1. HandleFrame /\ UNCHANGED <<cfg, strays>>
    BY <1>6 DEF Handle, outside
  <2> QED BY <2>1 DEF HandleFrame, HandleArp, HandleEcho, HandleUdp, HandleOther
<1>7. ASSUME NEW t \in Tasks, CheckEcho(t)
      PROVE  UNCHANGED <<cfg, arp, udp, heard, strays>>
  BY <1>7 DEF CheckEcho, outside
<1>8. ASSUME NEW t \in Tasks, CheckAnswer(t) \/ CheckOffer(t) \/ CheckAck(t) \/ Timeout(t)
      PROVE  /\ UNCHANGED <<arp, slots, heard, strays>>
             /\ cfg' = cfg \/ CheckAck(t)
  BY <1>8 DEF CheckAnswer, CheckOffer, CheckAck, Timeout, outside
<1> QED BY <1>1, <1>2, <1>3, <1>4, <1>5, <1>6, <1>7, <1>8, Steps

(* No address gets a second entry: arp_cache_put looks for it first.       *)
LEMMA ArpKept ==
    ASSUME TypeInv, CallInv, FrameInv, ArpInv, [Next]_vars
    PROVE  arp' \in [1 .. ArpSize -> Local \cup {None}] /\ ArpInv'
<1>1. arp \in [1 .. ArpSize -> Local \cup {None}]
  BY DEF TypeInv, TypeOK
<1>2. CASE arp' = arp
  BY <1>1, <1>2 DEF ArpInv
<1>3. ASSUME NEW t \in Tasks, CmdNetReinit(t)
      PROVE  arp' \in [1 .. ArpSize -> Local \cup {None}] /\ ArpInv'
  BY <1>3 DEF CmdNetReinit, ArpInv
<1>4. CASE pkt.kind = "arp" /\ HandleArp
  <2>1. pkt.from \in Local
    BY <1>4 DEF FrameInv, IsFrame
  <2>2. PICK i \in 1 .. ArpSize : /\ arp' = [arp EXCEPT ![i] = pkt.from]
                                  /\ \A j \in 1 .. ArpSize : arp[j] = pkt.from => arp[i] = pkt.from
    BY <1>4, EntryFound DEF HandleArp
  <2> QED BY <1>1, <2>1, <2>2, NetAssumption DEF ArpInv
<1> QED BY <1>2, <1>3, <1>4, OnlyThese

(* Every step keeps the types.                                             *)
LEMMA TypeKept ==
    ASSUME TypeInv, WhoInv, CallInv, FrameInv, ArpInv, [Next]_vars
    PROVE  TypeInv'
<1>1. /\ cfg \in [ip : Leases \cup {Home}, gateway : Local]
      /\ slots \in [1 .. PingSlots -> Slots]
      /\ udp \in [waiting : BOOLEAN, port : {"none", "dns", "dhcp"}, received : BOOLEAN]
      /\ heard \in [Tasks -> BOOLEAN]
      /\ at \in [Tasks -> {"top", "have", "poll"}]
      /\ cur \in Tasks /\ flag \in BOOLEAN /\ strays \in 0 .. MaxStray
      /\ Tasks = {"shell", "job"}
  BY DEF TypeInv, TypeOK, Tasks
<1>2. call' \in [Tasks -> Calls] /\ asked' \in Nat
  BY CallKept, Facts
<1>3. arp' \in [1 .. ArpSize -> Local \cup {None}]
  BY ArpKept
<1>4. cfg' \in [ip : Leases \cup {Home}, gateway : Local]
  <2>1. ASSUME NEW t \in Tasks, CheckAck(t)
        PROVE  cfg' \in [ip : Leases \cup {Home}, gateway : Local]
    <3>1. Confirmed => pkt.lease \in Offers
      BY DEF Confirmed, Got, FrameInv, IsFrame
    <3>2. Confirmed => pkt.lease.ip \in Leases /\ pkt.lease.router \in Local \cup {None}
      BY <3>1, NetAssumption DEF Offers
    <3> QED BY <1>1, <2>1, <3>2 DEF CheckAck
  <2>2. ASSUME NEW t \in Tasks, CmdNetReinit(t)
        PROVE  cfg' \in [ip : Leases \cup {Home}, gateway : Local]
    BY <2>2, NetAssumption DEF CmdNetReinit
  <2> QED BY <1>1, <2>1, <2>2, OnlyThese
<1>5. slots' \in [1 .. PingSlots -> Slots]
  <2>1. ASSUME NEW t \in Tasks, AskStep(t)
        PROVE  slots' \in [1 .. PingSlots -> Slots]
    BY <1>1, <2>1, AskDoes DEF AskStep, Echoes, Queries, Seeks
  <2>2. ASSUME NEW t \in Tasks, CmdNetReinit(t)
        PROVE  slots' \in [1 .. PingSlots -> Slots]
    BY <2>2, Reinitialised DEF CmdNetReinit
  <2>3. ASSUME NEW t \in Tasks, CheckEcho(t)
        PROVE  slots' \in [1 .. PingSlots -> Slots]
    BY <1>1, <2>3, Consumed DEF CheckEcho, Replied
  <2>4. CASE pkt.kind = "echo" /\ HandleEcho
    <3>1. pkt.q \in Nat
      BY <2>4 DEF FrameInv, IsFrame, Numbered, TypeInv, TypeOK
    <3> QED BY <2>4, <3>1, EchoTaken
  <2> QED BY <1>1, <2>1, <2>2, <2>3, <2>4, OnlyThese
<1>6. udp' \in [waiting : BOOLEAN, port : {"none", "dns", "dhcp"}, received : BOOLEAN]
  <2> DEFINE Udp == [waiting : BOOLEAN, port : {"none", "dns", "dhcp"}, received : BOOLEAN]
  <2>1. /\ udp \in Udp /\ Closed \in Udp /\ [udp EXCEPT !.received = TRUE] \in Udp
        /\ [waiting |-> TRUE, port |-> "dns", received |-> FALSE] \in Udp
        /\ [waiting |-> TRUE, port |-> "dhcp", received |-> FALSE] \in Udp
    BY <1>1 DEF Closed
  <2> HIDE DEF Udp
  <2>2. ASSUME NEW t \in Tasks, AskStep(t)
        PROVE  udp' \in Udp
    BY <2>1, <2>2, AskDoes DEF AskStep, Echoes, Queries, Seeks
  <2>3. ASSUME NEW t \in Tasks, CmdDhcp(t)
        PROVE  udp' \in Udp
    BY <2>1, <2>3 DEF CmdDhcp, AskDhcp
  <2>4. ASSUME NEW t \in Tasks, CheckAnswer(t) \/ CheckAck(t) \/ Timeout(t)
        PROVE  udp' = udp \/ udp' = Closed
    BY <2>4 DEF CheckAnswer, CheckAck, Timeout
  <2>5. ASSUME NEW t \in Tasks, CheckOffer(t)
        PROVE  udp' \in Udp
    BY <2>1, <2>5 DEF CheckOffer, AskDhcp
  <2>6. ASSUME HandleUdp
        PROVE  udp' \in Udp
    <3>1. CASE Wanted
      BY <2>1, <2>6, <3>1 DEF HandleUdp
    <3>2. CASE ~Wanted
      BY <2>1, <2>6, <3>2 DEF HandleUdp
    <3> QED BY <3>1, <3>2
  <2>7. udp' \in Udp
    BY <2>1, <2>2, <2>3, <2>4, <2>5, <2>6, OnlyThese
  <2> QED BY <2>7 DEF Udp
<1>7. heard' \in [Tasks -> BOOLEAN]
  <2>1. ASSUME NEW t \in Tasks, AskStep(t)
        PROVE  heard' \in [Tasks -> BOOLEAN]
    BY <1>1, <2>1, AskDoes DEF AskStep, Echoes, Queries, Seeks
  <2>2. CASE HandleArp
    BY <1>1, <2>2, Zenon DEF HandleArp
  <2> QED BY <1>1, <2>1, <2>2, OnlyThese
<1>8. strays' \in 0 .. MaxStray
  <2>1. ASSUME NEW t \in Tasks, Fetch(t)
        PROVE  strays' \in 0 .. MaxStray
    BY <1>1, <2>1, NetAssumption DEF Fetch
  <2> QED BY <1>1, <2>1, OnlyThese
<1>9. at' \in [Tasks -> {"top", "have", "poll"}] /\ cur' \in Tasks /\ flag' \in BOOLEAN
  <2>1. ASSUME NEW t \in Tasks, Ends(t) \/ UNCHANGED <<cur, flag>>
        PROVE  cur' \in Tasks /\ flag' \in BOOLEAN
    BY <1>1, <2>1 DEF Ends
  <2>2. ASSUME NEW t \in Tasks, AskStep(t)
        PROVE  at' \in [Tasks -> {"top", "have", "poll"}] /\ cur' \in Tasks /\ flag' \in BOOLEAN
    BY <1>1, <2>1, <2>2, AskDoes DEF AskStep, Echoes, Queries, Seeks
  <2>3. ASSUME NEW t \in Tasks, CmdDhcp(t) \/ CmdNetReinit(t) \/ Timeout(t) \/ GiveUp(t)
        PROVE  at' \in [Tasks -> {"top", "have", "poll"}] /\ cur' \in Tasks /\ flag' \in BOOLEAN
    BY <1>1, <2>1, <2>3 DEF CmdDhcp, CmdNetReinit, Timeout, GiveUp, Continues
  <2>4. ASSUME NEW t \in Tasks, Fetch(t) \/ Handle(t) \/ PollEnds(t)
        PROVE  at' \in [Tasks -> {"top", "have", "poll"}] /\ cur' \in Tasks /\ flag' \in BOOLEAN
    BY <1>1, <2>4 DEF Fetch, Handle, PollEnds
  <2>5. ASSUME NEW t \in Tasks, CheckEcho(t) \/ CheckAnswer(t) \/ CheckOffer(t) \/ CheckAck(t)
        PROVE  Loop(t) /\ (Ends(t) \/ UNCHANGED <<cur, flag>>)
    BY <2>5 DEF CheckEcho, CheckAnswer, CheckOffer, CheckAck, Continues
  <2>6. ASSUME NEW t \in Tasks, Loop(t)
        PROVE  at' \in [Tasks -> {"top", "have", "poll"}]
    BY <1>1, <2>6 DEF Loop
  <2>7. CASE UNCHANGED vars \/ JobStarts
    BY <1>1, <2>7 DEF vars, code, JobStarts
  <2> QED BY <2>1, <2>2, <2>3, <2>4, <2>5, <2>6, <2>7, Steps
<1>10. \A i \in 1 .. PingSlots : slots'[i].seq \in 0 .. MaxSeq
  BY <1>5 DEF Slots
<1>11. udp'.waiting \in BOOLEAN /\ udp'.received \in BOOLEAN
  BY <1>6
<1> QED BY <1>2, <1>3, <1>4, <1>5, <1>6, <1>7, <1>8, <1>9, <1>10, <1>11 DEF TypeInv, TypeOK

(* The address is changed by CheckAck alone, to one that has been          *)
(* confirmed.                                                              *)
LEMMA ConfigKept ==
    ASSUME TypeInv, WhoInv, CallInv, FrameInv, ConfigLeased, [Next]_vars
    PROVE  ConfigLeased'
<1>1. acks \subseteq acks'
  BY Facts
<1>2. CASE cfg' = cfg
  BY <1>1, <1>2 DEF ConfigLeased
<1>3. ASSUME NEW t \in Tasks, CmdNetReinit(t)
      PROVE  ConfigLeased'
  BY <1>3 DEF CmdNetReinit, ConfigLeased
<1>4. ASSUME NEW t \in Tasks, CheckAck(t), cfg' # cfg
      PROVE  ConfigLeased'
  <2>1. Got("dhcp", "ack") /\ cfg' = [ip |-> pkt.lease.ip,
                                      gateway |-> IF pkt.lease.router = None THEN cfg.gateway
                                                  ELSE pkt.lease.router]
    BY <1>4 DEF CheckAck, Confirmed
  <2>2. pkt.lease \in acks'
    BY <1>1, <2>1 DEF Got, FrameInv, IsFrame
  <2>3. cfg'.ip = pkt.lease.ip /\ pkt.lease.router \in {None, cfg'.gateway}
    BY <2>1
  <2> QED BY <2>2, <2>3 DEF ConfigLeased
<1> QED BY <1>2, <1>3, <1>4, OnlyThese

(* The host's answer is in the cache from when it has come: it was put     *)
(* there, nothing valid was overwritten, and the gateway is the one that   *)
(* was asked for.                                                          *)
LEMMA HeardKept ==
    ASSUME TypeInv, WhoInv, CallInv, FrameInv, HeardIsFound, [Next]_vars
    PROVE  HeardIsFound'
<1>1. /\ heard \in [Tasks -> BOOLEAN] /\ arp \in [1 .. ArpSize -> Local \cup {None}]
      /\ cfg.gateway \in Local /\ call \in [Tasks -> Calls]
  BY DEF TypeInv, TypeOK
<1>2. CASE UNCHANGED vars \/ JobStarts
  <2>1. UNCHANGED <<cfg, arp, call, heard, evicted, crossed>>
    BY <1>2 DEF vars, code, history, JobStarts
  <2> QED BY <2>1 DEF HeardIsFound, Cached, Hop
<1>3. ASSUME NEW u \in Tasks, UNCHANGED <<cfg, arp>>, call'[u] = call[u], heard'[u] = heard[u],
             call'[u].for = "address", heard'[u], ~evicted, ~crossed
      PROVE  Cached(Hop(call[u].dst))'
  BY <1>3 DEF HeardIsFound, Cached, Hop
<1>4. ASSUME NEW t \in Tasks, cur = t, ~UNCHANGED vars, ~JobStarts, ~crossed',
             NEW u \in Tasks, call'[u].for = "address"
      PROVE  u = t /\ ~crossed
  BY <1>4, Alone
<1>5. ASSUME NEW t \in Tasks, AskStep(t), ~UNCHANGED vars, ~JobStarts
      PROVE  HeardIsFound'
  <2>1. Asks(t) /\ cur = t /\ UNCHANGED <<cfg, arp, evicted>>
    BY <1>5 DEF AskStep
  <2>2. ASSUME NEW u \in Tasks, call'[u].for = "address", heard'[u], ~evicted', ~crossed'
        PROVE  Cached(Hop(call[u].dst))'
    <3>1. u = t /\ ~crossed
      BY <1>4, <1>5, <2>1, <2>2
    <3>2. CASE UNCHANGED <<call, heard>>
      BY <1>3, <2>1, <2>2, <3>1, <3>2
    <3>3. CASE ~UNCHANGED <<call, heard>>
      BY <1>1, <2>1, <2>2, <3>1, <3>3, AskDoes, IdleCall DEF Echoes, Queries, Seeks
    <3> QED BY <3>2, <3>3
  <2> QED BY <2>2 DEF HeardIsFound
<1>6. ASSUME NEW t \in Tasks, cur = t, ~UNCHANGED vars, ~JobStarts, UNCHANGED <<arp, heard, evicted>>,
             \/ call'[t].for # "address"
             \/ cfg' = cfg /\ call' = call
      PROVE  HeardIsFound'
  BY <1>3, <1>4, <1>6 DEF HeardIsFound
<1>7. ASSUME NEW t \in Tasks, CmdNetReinit(t), ~UNCHANGED vars, ~JobStarts
      PROVE  HeardIsFound'
  <2>1. cur = t /\ call'[t] = Idle
    BY <1>7, EndsDoes DEF CmdNetReinit, MayStart
  <2> QED BY <1>4, <1>7, <2>1, IdleCall DEF HeardIsFound
<1>8. ASSUME NEW t \in Tasks, Handle(t), ~UNCHANGED vars, ~JobStarts
      PROVE  HeardIsFound'
  <2>1. cur = t /\ UNCHANGED <<cfg, call, crossed>> /\ HandleFrame
    BY <1>8 DEF Handle
  <2>2. CASE UNCHANGED <<arp, heard, evicted>>
    BY <1>6, <1>8, <2>1, <2>2
  <2>3. CASE pkt.kind = "arp" /\ HandleArp
    <3>1. PICK i \in 1 .. ArpSize : /\ arp' = [arp EXCEPT ![i] = pkt.from]
                                    /\ evicted' = (evicted \/ arp[i] \notin {None, pkt.from})
      BY <2>3, EntryFound DEF HandleArp
    <3>2. \A u \in Tasks : heard'[u] = (heard[u] \/ (call[u].for = "address" /\ Hop(call[u].dst) = pkt.from))
      BY <2>3, Zenon DEF HandleArp
    <3>3. ASSUME NEW u \in Tasks, call[u].for = "address", heard'[u], ~evicted', ~crossed
          PROVE  Cached(Hop(call[u].dst))'
      <4> DEFINE h == Hop(call[u].dst)
      <4>1. h' = h
        BY <2>1 DEF Hop
      <4>2. h \in Local /\ h # None
        BY <1>1, NetAssumption DEF Hop
      <4>3. CASE h = pkt.from
        BY <1>1, <3>1, <4>1, <4>3 DEF Cached
      <4>4. CASE heard[u] /\ h # pkt.from
        <5>1. ~evicted /\ arp[i] \in {None, pkt.from}
          BY <3>1, <3>3
        <5>2. PICK j \in 1 .. ArpSize : arp[j] = h
          BY <3>3, <4>4, <5>1 DEF HeardIsFound, Cached
        <5>3. arp'[j] = h
          BY <1>1, <3>1, <4>2, <4>4, <5>1, <5>2
        <5> QED BY <4>1, <5>3 DEF Cached
      <4> QED BY <3>2, <3>3, <4>3, <4>4
    <3> QED BY <2>1, <3>3 DEF HeardIsFound
  <2> QED BY <2>1, <2>2, <2>3 DEF HandleFrame, HandleEcho, HandleUdp, HandleOther
<1>9. ASSUME NEW t \in Tasks, CmdDhcp(t)
      PROVE  cur = t /\ UNCHANGED <<arp, heard, evicted>> /\ call'[t].for # "address"
  BY <1>9, DhcpAsked DEF CmdDhcp, MayStart
<1>10. ASSUME NEW t \in Tasks, Fetch(t) \/ PollEnds(t)
       PROVE  cur = t /\ UNCHANGED <<arp, heard, evicted, cfg, call>>
  BY <1>10 DEF Fetch, PollEnds, Quiet
<1>11. ASSUME NEW t \in Tasks, CheckEcho(t) \/ CheckAnswer(t) \/ CheckOffer(t) \/ CheckAck(t)
       PROVE  /\ cur = t /\ UNCHANGED <<arp, heard, evicted>>
              /\ call'[t].for # "address"
  <2>1. /\ cur = t /\ UNCHANGED <<arp, heard, evicted>> /\ call[t].for # "address"
        /\ \/ call' = call \/ Ends(t) \/ call' = [call EXCEPT ![t].for = "next"]
           \/ \E answers : AskDhcp(t, "ack", answers)
    BY <1>11 DEF CheckEcho, CheckAnswer, CheckOffer, CheckAck, Polled
  <2> QED BY <2>1, EndsDoes, NextDoes, DhcpAsked, IdleCall
<1>12. ASSUME NEW t \in Tasks, Timeout(t) \/ GiveUp(t)
       PROVE  /\ cur = t /\ UNCHANGED <<arp, heard, evicted>>
              /\ call'[t].for # "address"
  BY <1>12, EndsDoes, NextDoes, IdleCall DEF Timeout, GiveUp
<1> QED BY <1>2, <1>5, <1>6, <1>7, <1>8, <1>9, <1>10, <1>11, <1>12, Steps

-----------------------------------------------------------------------------
(* The slots.                                                              *)

(* The calls that wait for one thing are the same after the step.          *)
SameFor(w) == \A u \in Tasks : call[u].for = w \/ call'[u].for = w => call'[u] = call[u]

(* A step that fills no slot and changes no call that waits for an echo    *)
(* keeps the invariant of the slots.                                       *)
LEMMA SlotsKept ==
    ASSUME SlotInv, SameFor("echo"), \A s : Stale("ping", s) => Stale("ping", s)',
           \A i \in 1 .. PingSlots :
               /\ InUse(i)' => InUse(i) /\ slots'[i].q = slots[i].q /\ slots'[i].seq = slots[i].seq
               /\ ~(slots'[i].active /\ slots'[i].replied)
               /\ slots'[i].q <= asked' /\ slots'[i].got <= asked'
    PROVE  SlotInv'
<1>1. ASSUME NEW i \in 1 .. PingSlots, InUse(i)'
      PROVE  \/ \E u \in Tasks : call'[u].for = "echo" /\ call'[u].q = slots'[i].q
             \/ Stale("ping", slots[i].seq)'
  BY <1>1 DEF SlotInv, SlotsAccounted, InUse, SameFor
<1>2. SlotsAccounted'
  <2>1. ASSUME NEW i \in 1 .. PingSlots, slots'[i].active \/ slots'[i].replied
        PROVE  \/ \E u \in Tasks : call'[u].for = "echo" /\ call'[u].q = slots'[i].q
               \/ Stale("ping", slots[i].seq)'
    <3>1. slots'[i].seq = slots[i].seq /\ InUse(i)'
      BY <2>1 DEF InUse
    <3> QED BY <1>1, <3>1
  <2> QED BY <2>1 DEF SlotsAccounted
<1>3. \A i, j \in 1 .. PingSlots : InUse(i)' /\ InUse(j)' /\ slots'[i].q = slots'[j].q => i = j
  BY DEF SlotInv
<1>4. \A i \in 1 .. PingSlots, t \in Tasks :
         InUse(i)' /\ call'[t].for = "echo" /\ call'[t].q = slots'[i].q => slots'[i].seq = call'[t].seq
  BY DEF SlotInv, SameFor
<1> QED BY <1>2, <1>3, <1>4 DEF SlotInv

(* Every step keeps the invariant of the slots: net_ping fills one with a  *)
(* new request, handle_icmp and net_ping_check empty theirs, a ping given  *)
(* up leaves its number behind.                                            *)
LEMMA SlotKept ==
    ASSUME TypeInv, WhoInv, CallInv, FrameInv, SlotInv, [Next]_vars
    PROVE  SlotInv'
<1>1. /\ slots \in [1 .. PingSlots -> Slots] /\ call \in [Tasks -> Calls]
      /\ asked \in Nat /\ asked' \in Nat /\ asked <= asked'
      /\ \A s : Stale("ping", s) => Stale("ping", s)'
      /\ crossed' => \A s : Stale("ping", s)'
  BY Facts, StaleStays DEF TypeInv, TypeOK
<1>2. ASSUME slots' = slots, SameFor("echo")
      PROVE  SlotInv'
  <2>1. ASSUME NEW i \in 1 .. PingSlots
        PROVE  /\ InUse(i)' => InUse(i) /\ slots'[i].q = slots[i].q /\ slots'[i].seq = slots[i].seq
               /\ ~(slots'[i].active /\ slots'[i].replied)
               /\ slots'[i].q <= asked' /\ slots'[i].got <= asked'
    BY <1>1, <1>2, <2>1 DEF SlotInv, InUse, Slots
  <2> QED BY <1>1, <1>2, <2>1, SlotsKept
<1>3. ASSUME NEW t \in Tasks, Others(t), Echoes(t), call[t].for # "echo"
      PROVE  SlotInv'
  <2>1. PICK i \in 1 .. PingSlots :
          /\ slots'[i].seq = call'[t].seq /\ slots'[i].q = asked + 1
          /\ slots'[i].active /\ ~slots'[i].replied /\ slots'[i].got = 0
          /\ \A j \in 1 .. PingSlots : j # i => slots'[j] = slots[j]
    BY <1>3 DEF Echoes
  <2>2. asked' = asked + 1 /\ call'[t].for = "echo" /\ call'[t].q = asked + 1
    BY <1>3 DEF Echoes
  <2>3. \A j \in 1 .. PingSlots : /\ slots[j].q \in Nat /\ slots[j].q <= asked
                                  /\ slots[j].got \in Nat /\ slots[j].got <= asked
    BY <1>1 DEF SlotInv, Slots
  <2>4. \A u \in Tasks \ {t} : call'[u] = call[u] /\ call[u].q \in Nat /\ call[u].q <= asked
    BY <1>1, <1>3 DEF Others, CallInv, Calls
  <2>5. SlotsAccounted'
    <3>1. ASSUME NEW j \in 1 .. PingSlots, slots'[j].active \/ slots'[j].replied, j # i
          PROVE  \/ \E u \in Tasks : call'[u].for = "echo" /\ call'[u].q = slots'[j].q
                 \/ Stale("ping", slots[j].seq)'
      BY <1>1, <1>3, <2>1, <2>4, <3>1 DEF SlotInv, SlotsAccounted
    <3>2. ASSUME NEW j \in 1 .. PingSlots, j # i PROVE slots'[j].seq = slots[j].seq
      BY <2>1, <3>2
    <3> QED BY <2>1, <2>2, <3>1, <3>2 DEF SlotsAccounted
  <2>6. \A j \in 1 .. PingSlots : /\ ~(slots'[j].active /\ slots'[j].replied)
                                  /\ slots'[j].q <= asked' /\ slots'[j].got <= asked'
    BY <1>1, <2>1, <2>2, <2>3 DEF SlotInv
  <2>7. \A j, k \in 1 .. PingSlots : InUse(j)' /\ InUse(k)' /\ slots'[j].q = slots'[k].q => j = k
    <3>1. ASSUME NEW j \in 1 .. PingSlots, j # i
          PROVE  slots'[j].q # slots'[i].q /\ (InUse(j)' => InUse(j)) /\ slots'[j].q = slots[j].q
      BY <1>1, <2>1, <2>3, <3>1 DEF InUse
    <3> QED BY <3>1 DEF SlotInv
  <2>8. \A j \in 1 .. PingSlots, u \in Tasks :
          InUse(j)' /\ call'[u].for = "echo" /\ call'[u].q = slots'[j].q => slots'[j].seq = call'[u].seq
    BY <1>1, <2>1, <2>2, <2>3, <2>4 DEF SlotInv, InUse
  <2> QED BY <2>5, <2>6, <2>7, <2>8 DEF SlotInv
<1>4. ASSUME NEW t \in Tasks, AskStep(t)
      PROVE  SlotInv'
  <2>1. Asks(t) /\ call[t].for # "echo"
    BY <1>4 DEF AskStep
  <2>2. CASE Echoes(t)
    BY <1>3, <2>1, <2>2, AskDoes
  <2>3. CASE ~Echoes(t)
    <3>1. /\ Others(t) /\ slots' = slots
          /\ call'[t].for # "echo" \/ call' = call
      BY <2>1, <2>3, AskDoes, IdleCall DEF Queries, Seeks
    <3> QED BY <1>2, <2>1, <3>1 DEF Others, SameFor
  <2> QED BY <2>2, <2>3
<1>5. ASSUME NEW t \in Tasks, CmdDhcp(t)
      PROVE  SlotInv'
  <2>1. call[t].for = "none" /\ slots' = slots
    BY <1>5 DEF CmdDhcp, MayStart, CallInv
  <2> QED BY <1>2, <1>5, <2>1, DhcpAsked DEF CmdDhcp, SameFor
<1>6. ASSUME NEW t \in Tasks, CmdNetReinit(t)
      PROVE  SlotInv'
  <2>1. call[t].for = "none" /\ slots' = [i \in 1 .. PingSlots |-> [slots[i] EXCEPT !.active = FALSE]]
    BY <1>6 DEF CmdNetReinit, MayStart, CallInv
  <2>2. SameFor("echo")
    BY <1>6, <2>1, EndsDoes, IdleCall DEF CmdNetReinit, SameFor
  <2>3. ASSUME NEW i \in 1 .. PingSlots
        PROVE  /\ slots'[i].seq = slots[i].seq /\ slots'[i].q = slots[i].q /\ slots'[i].got = slots[i].got
               /\ ~slots'[i].active /\ slots'[i].replied = slots[i].replied
               /\ slots[i].q \in Nat /\ slots[i].got \in Nat
    BY <1>1, <2>1, Reinitialised DEF Slots
  <2>4. ASSUME NEW i \in 1 .. PingSlots
        PROVE  slots'[i].q <= asked' /\ slots'[i].got <= asked'
    BY <1>1, <2>3 DEF SlotInv
  <2>5. ASSUME NEW i \in 1 .. PingSlots
        PROVE  (InUse(i)' => InUse(i)) /\ ~(slots'[i].active /\ slots'[i].replied)
    BY <2>3 DEF InUse
  <2> QED BY <1>1, <2>2, <2>3, <2>4, <2>5, SlotsKept
<1>7. ASSUME NEW t \in Tasks, Handle(t), pkt.kind = "echo", HandleEcho
      PROVE  SlotInv'
  <2>1. pkt.q \in Nat /\ pkt.q <= asked
    BY <1>1, <1>7 DEF FrameInv, IsFrame, Numbered
  <2>2. call' = call /\ asked' = asked
    BY <1>7 DEF Handle, outside
  <2>3. SameFor("echo")
    BY <2>2 DEF SameFor
  <2>4. CASE slots' = slots
    BY <1>2, <2>3, <2>4
  <2>5. ASSUME NEW i \in EchoSlot,
               slots'[i].seq = slots[i].seq, slots'[i].q = slots[i].q,
               slots'[i].got = pkt.q, slots'[i].replied, ~slots'[i].active,
               \A j \in 1 .. PingSlots : j # i => slots'[j] = slots[j]
        PROVE  SlotInv'
    <3>1. ASSUME NEW j \in 1 .. PingSlots
          PROVE  /\ InUse(j)' => InUse(j) /\ slots'[j].q = slots[j].q /\ slots'[j].seq = slots[j].seq
                 /\ ~(slots'[j].active /\ slots'[j].replied)
                 /\ slots'[j].q <= asked' /\ slots'[j].got <= asked'
      BY <2>1, <2>2, <2>5, <3>1 DEF EchoSlot, SlotInv, InUse
    <3> QED BY <1>1, <2>3, <3>1, SlotsKept
  <2> QED BY <1>7, <2>1, <2>4, <2>5, EchoTaken
<1>8. ASSUME NEW t \in Tasks, CheckEcho(t), slots' = slots, call' = call
      PROVE  SlotInv'
  BY <1>2, <1>8 DEF SameFor
<1>9. ASSUME NEW t \in Tasks, CheckEcho(t), ~(slots' = slots /\ call' = call)
      PROVE  SlotInv'
  <2> DEFINE c == call[t]
  <2>1. /\ c.for = "echo" /\ call' = [call EXCEPT ![t].for = "next"] /\ crossed' = crossed
        /\ asked' = asked /\ missed' = missed
    BY <1>9 DEF CheckEcho, outside
  <2>2. PICK i \in 1 .. PingSlots : slots[i].replied /\ slots[i].seq = c.seq /\ Consume(i)
    BY <1>9 DEF CheckEcho, Replied
  <2>3. /\ slots' \in [1 .. PingSlots -> Slots]
        /\ slots'[i].seq = slots[i].seq /\ slots'[i].q = slots[i].q /\ slots'[i].got = slots[i].got
        /\ ~slots'[i].replied /\ slots'[i].active = slots[i].active
        /\ \A j \in 1 .. PingSlots : j # i => slots'[j] = slots[j]
    BY <2>2, Consumed
  <2>4. ~slots[i].active /\ InUse(i)
    BY <2>2 DEF SlotInv, InUse
  <2>5. call'[t].for = "next" /\ \A u \in Tasks \ {t} : call'[u] = call[u]
    BY <2>1, NextDoes
  <2>6. ASSUME NEW j \in 1 .. PingSlots, InUse(j)'
        PROVE  j # i /\ InUse(j) /\ slots'[j] = slots[j]
    BY <2>3, <2>4, <2>6 DEF InUse
  <2>7. ASSUME NEW j \in 1 .. PingSlots, InUse(j), j # i
        PROVE  \/ \E u \in Tasks \ {t} : call[u].for = "echo" /\ call[u].q = slots[j].q
               \/ Stale("ping", slots[j].seq)
    <3>1. CASE c.q = slots[j].q
      <4>1. slots[j].seq = c.seq
        BY <2>1, <2>7, <3>1 DEF SlotInv
      <4>2. slots[i].q # c.q
        BY <2>4, <2>7, <3>1 DEF SlotInv
      <4>3. Stale("ping", slots[i].seq) \/ \E u \in Tasks \ {t} : call[u].for = "echo"
        BY <2>4, <4>2 DEF SlotInv, SlotsAccounted, InUse
      <4>4. (\E u \in Tasks \ {t} : call[u].for = "echo") => crossed
        BY <2>1 DEF WhoInv, CallInv, Tasks
      <4> QED BY <2>2, <4>1, <4>3, <4>4 DEF Stale
    <3>2. CASE c.q # slots[j].q
      BY <2>7, <3>2 DEF SlotInv, SlotsAccounted, InUse
    <3> QED BY <3>1, <3>2
  <2>8. SlotsAccounted'
    <3>1. ASSUME NEW j \in 1 .. PingSlots, slots'[j].active \/ slots'[j].replied
          PROVE  /\ slots'[j].seq = slots[j].seq
                 /\ \/ \E u \in Tasks : call'[u].for = "echo" /\ call'[u].q = slots'[j].q
                    \/ Stale("ping", slots[j].seq)'
      <4>1. j # i /\ InUse(j) /\ slots'[j] = slots[j]
        BY <2>6, <3>1 DEF InUse
      <4> QED BY <1>1, <2>5, <2>7, <4>1
    <3> QED BY <3>1 DEF SlotsAccounted
  <2>9. \A j \in 1 .. PingSlots : /\ ~(slots'[j].active /\ slots'[j].replied)
                                  /\ slots'[j].q <= asked' /\ slots'[j].got <= asked'
    BY <2>1, <2>3 DEF SlotInv
  <2>10. \A j, k \in 1 .. PingSlots : InUse(j)' /\ InUse(k)' /\ slots'[j].q = slots'[k].q => j = k
    BY <2>6 DEF SlotInv
  <2>11. \A j \in 1 .. PingSlots, u \in Tasks :
          InUse(j)' /\ call'[u].for = "echo" /\ call'[u].q = slots'[j].q => slots'[j].seq = call'[u].seq
    BY <2>5, <2>6 DEF SlotInv
  <2> QED BY <2>8, <2>9, <2>10, <2>11 DEF SlotInv
<1>10. ASSUME NEW t \in Tasks, GiveUp(t)
       PROVE  SlotInv'
  <2>1. /\ call[t].for = "echo" /\ call' = [call EXCEPT ![t].for = "next"]
        /\ UNCHANGED <<slots, asked, crossed>>
        /\ missed' = missed \cup {[op |-> call[t].op, seq |-> call[t].seq, q |-> call[t].q]}
    BY <1>10 DEF GiveUp, Missing, outside
  <2>2. call'[t].for = "next" /\ \A u \in Tasks \ {t} : call'[u] = call[u]
    BY <2>1, NextDoes
  <2>3. \A s : s = call[t].seq => Stale("ping", s)'
    <3> DEFINE m == [op |-> call[t].op, seq |-> call[t].seq, q |-> call[t].q]
    <3>1. m \in missed' /\ m.op = "ping" /\ m.seq = call[t].seq
      BY <2>1 DEF CallInv
    <3> HIDE DEF m
    <3> QED BY <3>1 DEF Stale
  <2>4. SlotsAccounted'
    <3>1. ASSUME NEW j \in 1 .. PingSlots, slots[j].active \/ slots[j].replied
          PROVE  \/ \E u \in Tasks : call'[u].for = "echo" /\ call'[u].q = slots[j].q
                 \/ Stale("ping", slots[j].seq)'
      <4>1. CASE call[t].q = slots[j].q
        BY <2>1, <2>3, <3>1, <4>1 DEF SlotInv, InUse
      <4>2. CASE call[t].q # slots[j].q
        BY <1>1, <2>1, <2>2, <3>1, <4>2 DEF SlotInv, SlotsAccounted
      <4> QED BY <4>1, <4>2
    <3> QED BY <2>1, <3>1 DEF SlotsAccounted
  <2> QED BY <2>1, <2>2, <2>4 DEF SlotInv, InUse
<1>11. ASSUME NEW t \in Tasks, CheckAnswer(t) \/ CheckOffer(t) \/ CheckAck(t) \/ Timeout(t)
       PROVE  SlotInv'
  <2>1. /\ slots' = slots /\ call[t].for # "echo"
        /\ call' = call \/ Ends(t) \/ \E answers : AskDhcp(t, "ack", answers)
    BY <1>11 DEF CheckAnswer, CheckOffer, CheckAck, Timeout
  <2>2. /\ call'[t].for # "echo" \/ call' = call
        /\ \A u \in Tasks \ {t} : call'[u] = call[u]
    BY <2>1, EndsDoes, DhcpAsked, IdleCall
  <2> QED BY <1>2, <2>1, <2>2 DEF SameFor
<1>12. ASSUME NEW t \in Tasks, Fetch(t) \/ Handle(t) \/ PollEnds(t)
       PROVE  SlotInv'
  <2>1. SameFor("echo") /\ (slots' = slots \/ (Handle(t) /\ pkt.kind = "echo" /\ HandleEcho))
    BY <1>12 DEF SameFor, Fetch, Handle, PollEnds, HandleFrame, HandleArp, HandleUdp, HandleOther
  <2> QED BY <1>2, <1>7, <2>1
<1>13. CASE UNCHANGED vars \/ JobStarts
  BY <1>2, <1>13 DEF SameFor, vars, code, JobStarts
<1> QED BY <1>4, <1>5, <1>6, <1>8, <1>9, <1>10, <1>11, <1>12, <1>13, Steps

-----------------------------------------------------------------------------
(* The replies.                                                            *)

(* Who waits for an echo reply is the one the frame or the slot is about,  *)
(* or somebody has been crossed.                                           *)
LEMMA OneWaits ==
    ASSUME TypeInv, WhoInv, CallInv, ~crossed,
           NEW t \in Tasks, NEW u \in Tasks, call[t].for # "none", call[u].for # "none"
    PROVE  t = u
BY DEF WhoInv, CallInv, Tasks

(* After any step but a fetch, the task that has the CPU has no frame in   *)
(* hand that it did not have before, or no task waits any more.            *)
LEMMA InHand ==
    ASSUME TypeInv, WhoInv, CallInv, [Next]_vars, at'[cur'] = "have", ~crossed'
    PROVE  \/ UNCHANGED vars
           \/ Fetch(cur)
           \/ \A u \in Tasks : call'[u].for = "none"
<1>1. at \in [Tasks -> {"top", "have", "poll"}] /\ cur \in Tasks /\ Tasks = {"shell", "job"}
  BY DEF TypeInv, TypeOK, Tasks
<1>2. CASE JobStarts
  <2>1. cur' = "job" /\ cur = "shell" /\ at' = at /\ call' = call
    BY <1>2 DEF JobStarts
  <2> QED BY <1>1, <2>1 DEF WhoInv
<1>3. CASE ~UNCHANGED vars /\ ~JobStarts
  <2> DEFINE t == cur
  <2>1. at'[t] = "have" => Fetch(t)
    <3>1. ASSUME NEW u \in Tasks,
                 \/ AskStep(u) \/ Handle(u) \/ PollEnds(u)
                 \/ CheckEcho(u) \/ CheckAnswer(u) \/ CheckOffer(u) \/ CheckAck(u)
          PROVE  u = cur /\ at'[u] # "have"
      <4>1. u = cur /\ \E place \in {"top", "poll"} : at' = [at EXCEPT ![u] = place]
        BY <3>1 DEF AskStep, Handle, PollEnds, CheckEcho, CheckAnswer, CheckOffer, CheckAck,
             Polled, Loop
      <4> QED BY <1>1, <4>1
    <3>2. ASSUME NEW u \in Tasks, CmdDhcp(u) \/ CmdNetReinit(u) \/ Timeout(u) \/ GiveUp(u)
          PROVE  u = cur /\ at'[u] # "have"
      BY <3>2 DEF CmdDhcp, CmdNetReinit, MayStart, Timeout, GiveUp
    <3>3. ASSUME NEW u \in Tasks, Fetch(u) PROVE u = cur
      BY <3>3 DEF Fetch
    <3> QED BY <1>3, <3>1, <3>2, <3>3, Steps
  <2>2. ASSUME cur' # cur PROVE \A u \in Tasks : call'[u].for = "none"
    <3>1. Ends(t)
      BY <1>1, <1>3, <2>2, Steps, AskDoes DEF AskStep, Echoes, Queries, Seeks, CmdDhcp, CmdNetReinit,
           Fetch, Handle, PollEnds, CheckEcho, CheckAnswer, CheckOffer, CheckAck, Timeout, GiveUp,
           Continues, MayStart, Polled
    <3> QED BY <1>1, <1>3, <3>1, EndsDoes, IdleCall, Alone
  <2> QED BY <2>1, <2>2
<1> QED BY <1>2, <1>3

(* Every step keeps what is known of the replies, under way, in pkt_buf    *)
(* and in the slots.                                                       *)
LEMMA EchoKept ==
    ASSUME TypeInv, WhoInv, CallInv, FrameInv, SlotInv, EchoInv, [Next]_vars
    PROVE  EchoInv'
<1>1. /\ slots \in [1 .. PingSlots -> Slots] /\ call \in [Tasks -> Calls]
      /\ asked \in Nat /\ asked' \in Nat /\ asked <= asked'
      /\ \A s : Stale("ping", s) => Stale("ping", s)'
      /\ crossed' => \A s : Stale("ping", s)'
      /\ crossed => \A s : Stale("ping", s)
  BY Facts, StaleStays DEF TypeInv, TypeOK, Stale
<1>2. SlotInv'
  BY SlotKept
<1> DEFINE E1 == \A f \in air : f.kind = "echo" => Stale("ping", f.seq) \/ Pinged(f)
           E2 == at[cur] = "have" /\ pkt.kind = "echo" =>
                   \/ Stale("ping", pkt.seq) \/ Pinged(pkt)
                   \/ \A i \in 1 .. PingSlots : slots[i].active => slots[i].seq # pkt.seq
           E3 == \A i \in 1 .. PingSlots : slots[i].replied =>
                   /\ Stale("ping", slots[i].seq) \/ slots[i].got = slots[i].q
                   /\ \A f \in air : Numbered(f) => f.q # slots[i].got
<1>3. E1 /\ E2 /\ E3
  BY DEF EchoInv
<1>4. ASSUME NEW f, Stale("ping", f.seq) \/ Pinged(f), f.kind = "echo",
             SameFor("echo")
      PROVE  Stale("ping", f.seq)' \/ Pinged(f)'
  BY <1>1, <1>4 DEF Pinged, SameFor
<1>5. ASSUME SameFor("echo"), \A f \in air' : f.kind = "echo" => f \in air
      PROVE  E1'
  BY <1>3, <1>4, <1>5
<1>6. ASSUME \A f \in air' : f \in air \/ (Numbered(f) => f.q = asked + 1),
             \A i \in 1 .. PingSlots : slots'[i].replied =>
                /\ slots[i].replied /\ slots'[i].q = slots[i].q /\ slots'[i].got = slots[i].got
                /\ slots'[i].seq = slots[i].seq
      PROVE  E3'
  <2>1. ASSUME NEW i \in 1 .. PingSlots, slots'[i].replied
        PROVE  /\ Stale("ping", slots[i].seq)' \/ slots'[i].got = slots'[i].q
               /\ \A f \in air' : Numbered(f) => f.q # slots'[i].got
    <3>1. /\ slots[i].replied /\ slots'[i].q = slots[i].q /\ slots'[i].got = slots[i].got
          /\ slots'[i].seq = slots[i].seq
      BY <1>6, <2>1
    <3>2. slots[i].got \in Nat /\ slots[i].got <= asked
      BY <1>1 DEF SlotInv, Slots
    <3>3. \A f \in air' : Numbered(f) => f.q # slots[i].got
      BY <1>1, <1>3, <1>6, <3>1, <3>2
    <3>4. Stale("ping", slots[i].seq)' \/ slots'[i].got = slots'[i].q
      BY <1>1, <1>3, <3>1
    <3> QED BY <3>1, <3>3, <3>4
  <2> QED BY <2>1
<1>7. E2'
  <2>1. SUFFICES ASSUME at'[cur'] = "have", pkt'.kind = "echo", ~crossed'
                 PROVE  \/ Stale("ping", pkt.seq)' \/ Pinged(pkt)'
                        \/ \A i \in 1 .. PingSlots : slots'[i].active => slots'[i].seq # pkt'.seq
    BY <1>1
  <2>2. CASE UNCHANGED vars
    BY <1>3, <2>1, <2>2 DEF vars, code, history, Stale, Pinged
  <2>3. CASE Fetch(cur)
    <3>1. /\ call' = call /\ UNCHANGED <<missed, crossed>>
          /\ pkt' \in air \/ \E h \in Strangers : pkt' = ArpFrame(h)
      BY <2>3 DEF Fetch, Quiet
    <3>2. \A h : ArpFrame(h).kind # "echo"
      BY DEF ArpFrame
    <3> QED BY <1>3, <2>1, <3>1, <3>2 DEF Stale, Pinged
  <2>4. CASE \A u \in Tasks : call'[u].for = "none"
    <3>1. \A i \in 1 .. PingSlots : slots'[i].active => Stale("ping", slots[i].seq)'
      BY <1>2, <2>4 DEF SlotInv, SlotsAccounted
    <3>2. ASSUME NEW i \in 1 .. PingSlots, slots'[i].active, slots'[i].seq = pkt'.seq
          PROVE  Stale("ping", pkt.seq)'
      BY <3>1, <3>2 DEF Stale
    <3> QED BY <3>2
  <2> QED BY <2>1, <2>2, <2>3, <2>4, InHand
<1>8. ASSUME NEW t \in Tasks, AskStep(t)
      PROVE  E1' /\ E3'
  <2>1. Asks(t) /\ call[t].for # "echo"
    BY <1>8 DEF AskStep
  <2>2. CASE Echoes(t)
    <3>1. PICK f : air' = air \cup {f} /\ f.kind = "echo" /\ f.q = asked + 1 /\ f.seq = call'[t].seq
      <4>1. PICK to : air' = air \cup {EchoReply(call'[t].seq, asked + 1, to)}
        BY <2>2 DEF Echoes
      <4> DEFINE g == EchoReply(call'[t].seq, asked + 1, to)
      <4>2. air' = air \cup {g} /\ g.kind = "echo" /\ g.q = asked + 1 /\ g.seq = call'[t].seq
        BY <4>1 DEF EchoReply
      <4> HIDE DEF g
      <4> QED BY <4>2
    <3>2. Pinged(f)'
      BY <2>2, <3>1 DEF Echoes, Pinged
    <3>3. ASSUME NEW g \in air, g.kind = "echo" PROVE Stale("ping", g.seq)' \/ Pinged(g)'
      BY <1>1, <1>3, <2>1, <3>3, AskDoes DEF Pinged, Others
    <3>4. E1'
      BY <3>1, <3>2, <3>3
    <3>5. PICK i \in 1 .. PingSlots : /\ ~slots'[i].replied
                                      /\ \A j \in 1 .. PingSlots : j # i => slots'[j] = slots[j]
      BY <2>2 DEF Echoes
    <3>6. \A j \in 1 .. PingSlots : slots'[j].replied =>
                /\ slots[j].replied /\ slots'[j].q = slots[j].q /\ slots'[j].got = slots[j].got
                /\ slots'[j].seq = slots[j].seq
      BY <3>5
    <3> QED BY <1>6, <3>1, <3>4, <3>6
  <2>3. CASE ~Echoes(t)
    <3>1. /\ Others(t) /\ slots' = slots
          /\ call'[t].for # "echo" \/ call' = call
          /\ air' = air \/ \E f : air' = air \cup {f} /\ f.kind # "echo" /\ (Numbered(f) => f.q = asked + 1)
      <4>1. CASE Queries(t)
        <5>1. PICK ok, to : air' = air \cup {Dns(asked + 1, ok, to)}
          BY <4>1 DEF Queries
        <5>2. Dns(asked + 1, ok, to).kind = "udp" /\ Dns(asked + 1, ok, to).q = asked + 1
          BY DEF Dns
        <5> QED BY <2>1, <4>1, <5>1, <5>2, AskDoes DEF Queries
      <4>2. CASE Seeks(t)
        <5>1. \A h : ArpFrame(h).kind = "arp" /\ ~Numbered(ArpFrame(h))
          BY DEF ArpFrame, Numbered
        <5>2. air' = air \/ \E f : air' = air \cup {f} /\ f.kind = "arp" /\ ~Numbered(f)
          BY <4>2, <5>1 DEF Seeks
        <5> QED BY <2>1, <4>2, <5>2, AskDoes DEF Seeks
      <4> QED BY <2>1, <2>3, <4>1, <4>2, AskDoes, IdleCall
    <3>2. SameFor("echo")
      BY <2>1, <3>1 DEF Others, SameFor
    <3> QED BY <1>5, <1>6, <3>1, <3>2
  <2> QED BY <2>2, <2>3
<1>9. ASSUME NEW t \in Tasks, NEW for \in {"offer", "ack"}, NEW answers, AskDhcp(t, for, answers),
             \A a \in answers : a.kind = "udp" /\ a.q = asked + 1,
             call[t].for # "echo", slots' = slots
      PROVE  E1' /\ E3'
  <2>1. PICK a \in answers : air' = air \cup {a}
    BY <1>9 DEF AskDhcp
  <2>2. SameFor("echo")
    BY <1>9, DhcpAsked DEF SameFor
  <2> QED BY <1>5, <1>6, <1>9, <2>1, <2>2
<1>10. \A q, type, l : Dhcp(q, type, l).kind = "udp" /\ Dhcp(q, type, l).q = q
  BY DEF Dhcp
<1>11. ASSUME NEW t \in Tasks, CmdDhcp(t)
       PROVE  E1' /\ E3'
  BY <1>9, <1>10, <1>11 DEF CmdDhcp, MayStart, CallInv
<1>12. ASSUME NEW t \in Tasks, air' \subseteq air, slots' = slots, \A u \in Tasks \ {t} : call'[u] = call[u],
              call[t].for # "echo", call'[t].for # "echo"
       PROVE  E1' /\ E3'
  BY <1>5, <1>6, <1>12 DEF SameFor
<1>13. ASSUME NEW t \in Tasks, CmdNetReinit(t)
       PROVE  E1' /\ E3'
  <2>1. /\ call[t].for = "none" /\ air' = air
        /\ slots' = [i \in 1 .. PingSlots |-> [slots[i] EXCEPT !.active = FALSE]]
    BY <1>13 DEF CmdNetReinit, MayStart, CallInv
  <2>2. SameFor("echo")
    BY <1>13, <2>1, EndsDoes, IdleCall DEF CmdNetReinit, SameFor
  <2> QED BY <1>5, <1>6, <2>1, <2>2, Reinitialised
<1>14. ASSUME NEW t \in Tasks, Fetch(t) \/ PollEnds(t)
       PROVE  E1' /\ E3'
  <2>1. call' = call /\ slots' = slots /\ air' \subseteq air
    BY <1>14 DEF Fetch, PollEnds, outside
  <2> QED BY <1>5, <1>6, <2>1 DEF SameFor
<1>15. ASSUME NEW t \in Tasks, Handle(t)
       PROVE  E1' /\ E3'
  <2>1. call' = call /\ air' = air /\ SameFor("echo") /\ at[cur] = "have"
    BY <1>15 DEF Handle, outside, SameFor
  <2>2. CASE slots' = slots
    BY <1>5, <1>6, <2>1, <2>2
  <2>3. CASE pkt.kind = "echo" /\ HandleEcho /\ slots' # slots
    <3>1. pkt.q \in Nat /\ Numbered(pkt)
      BY <1>1, <2>3 DEF FrameInv, IsFrame, Numbered
    <3>2. PICK i \in EchoSlot :
             /\ slots'[i].seq = slots[i].seq /\ slots'[i].q = slots[i].q
             /\ slots'[i].got = pkt.q /\ slots'[i].replied /\ ~slots'[i].active
             /\ \A j \in 1 .. PingSlots : j # i => slots'[j] = slots[j]
      BY <2>3, <3>1, EchoTaken
    <3>3. i \in 1 .. PingSlots /\ slots[i].active /\ slots[i].seq = pkt.seq
      BY DEF EchoSlot
    <3>4. Stale("ping", slots[i].seq) \/ pkt.q = slots[i].q
      <4>1. SUFFICES ASSUME ~Stale("ping", pkt.seq) PROVE pkt.q = slots[i].q
        BY <3>3
      <4>2. PICK u \in Tasks : call[u].for = "echo" /\ call[u].q = pkt.q
        BY <1>3, <2>1, <2>3, <3>3, <4>1 DEF Pinged
      <4>3. PICK w \in Tasks : call[w].for = "echo" /\ call[w].q = slots[i].q
        BY <3>3, <4>1 DEF SlotInv, SlotsAccounted
      <4> QED BY <1>1, <4>1, <4>2, <4>3, OneWaits
    <3>5. \A f \in air : Numbered(f) => f.q # pkt.q
      BY <3>1 DEF FrameInv
    <3>6. Stale("ping", slots[i].seq)' \/ slots'[i].got = slots'[i].q
      BY <1>1, <3>2, <3>4
    <3>7. ASSUME NEW j \in 1 .. PingSlots, slots'[j].replied
          PROVE  /\ Stale("ping", slots[j].seq)' \/ slots'[j].got = slots'[j].q
                 /\ \A f \in air' : Numbered(f) => f.q # slots'[j].got
      <4>1. CASE j = i
        BY <2>1, <3>2, <3>5, <3>6, <4>1
      <4>2. CASE j # i
        <5>1. slots'[j] = slots[j]
          BY <3>2, <4>2
        <5> QED BY <1>1, <1>3, <2>1, <3>7, <5>1
      <4> QED BY <4>1, <4>2
    <3> QED BY <1>5, <2>1, <3>7
  <2> QED BY <1>15, <2>2, <2>3 DEF Handle, HandleFrame, HandleArp, HandleUdp, HandleOther
<1>16. ASSUME NEW t \in Tasks, CheckEcho(t)
       PROVE  E1' /\ E3'
  <2> DEFINE c == call[t]
  <2>1. CASE slots' = slots /\ call' = call
    BY <1>5, <1>6, <1>16, <2>1 DEF SameFor, CheckEcho, outside
  <2>2. CASE ~(slots' = slots /\ call' = call)
    <3>1. c.for = "echo" /\ call' = [call EXCEPT ![t].for = "next"] /\ air' = air
      BY <1>16, <2>2 DEF CheckEcho, outside
    <3>2. PICK i \in 1 .. PingSlots : slots[i].replied /\ slots[i].seq = c.seq /\ Consume(i)
      BY <1>16, <2>2 DEF CheckEcho, Replied
    <3>3. /\ ~slots'[i].replied
          /\ \A j \in 1 .. PingSlots : j # i => slots'[j] = slots[j]
      BY <3>2, Consumed
    <3>4. \A u \in Tasks \ {t} : call'[u] = call[u]
      BY <3>1, NextDoes
    <3>5. ASSUME NEW f \in air, f.kind = "echo"
          PROVE  Stale("ping", f.seq)' \/ Pinged(f)'
      <4>1. SUFFICES ASSUME ~Stale("ping", f.seq) PROVE Pinged(f)'
        BY <1>1
      <4>2. PICK u \in Tasks : call[u].for = "echo" /\ call[u].q = f.q /\ call[u].seq = f.seq
        BY <1>3, <3>5, <4>1 DEF Pinged
      <4>3. ASSUME u = t PROVE FALSE
        <5>1. slots[i].got = slots[i].q /\ f.q # slots[i].got
          BY <1>3, <3>2, <3>5, <4>1, <4>2, <4>3 DEF Numbered
        <5>2. PICK w \in Tasks : call[w].for = "echo" /\ call[w].q = slots[i].q
          BY <3>2, <4>1, <4>2, <4>3 DEF SlotInv, SlotsAccounted
        <5>3. w = t
          BY <1>1, <3>1, <4>1, <5>2, OneWaits
        <5> QED BY <4>2, <4>3, <5>1, <5>2, <5>3
      <4> QED BY <3>4, <4>2, <4>3 DEF Pinged
    <3>6. \A j \in 1 .. PingSlots : slots'[j].replied => slots'[j] = slots[j]
      BY <3>3
    <3> QED BY <1>6, <3>1, <3>5, <3>6
  <2> QED BY <2>1, <2>2
<1>17. ASSUME NEW t \in Tasks, GiveUp(t)
       PROVE  E1' /\ E3'
  <2>1. /\ call[t].for = "echo" /\ call' = [call EXCEPT ![t].for = "next"]
        /\ UNCHANGED <<slots, air, crossed>>
        /\ missed' = missed \cup {[op |-> call[t].op, seq |-> call[t].seq, q |-> call[t].q]}
    BY <1>17 DEF GiveUp, Missing, outside
  <2>2. \A u \in Tasks \ {t} : call'[u] = call[u]
    BY <2>1, NextDoes
  <2>3. \A s : s = call[t].seq => Stale("ping", s)'
    <3> DEFINE m == [op |-> call[t].op, seq |-> call[t].seq, q |-> call[t].q]
    <3>1. m \in missed' /\ m.op = "ping" /\ m.seq = call[t].seq
      BY <2>1 DEF CallInv
    <3> HIDE DEF m
    <3> QED BY <3>1 DEF Stale
  <2>4. ASSUME NEW f \in air, f.kind = "echo"
        PROVE  Stale("ping", f.seq)' \/ Pinged(f)'
    BY <1>1, <1>3, <2>2, <2>3, <2>4 DEF Pinged
  <2> QED BY <1>6, <2>1, <2>4
<1>18. ASSUME NEW t \in Tasks, CheckOffer(t)
       PROVE  E1' /\ E3'
  <2>1. slots' = slots /\ call[t].for = "offer"
    BY <1>18 DEF CheckOffer
  <2>2. CASE udp.received /\ Got("dhcp", "offer")
    BY <1>9, <1>10, <1>18, <2>1, <2>2 DEF CheckOffer
  <2>3. CASE ~(udp.received /\ Got("dhcp", "offer"))
    <3>1. air' = air /\ (call' = call \/ Ends(t))
      BY <1>18, <2>3 DEF CheckOffer
    <3> QED BY <1>12, <2>1, <3>1, EndsDoes, IdleCall
  <2> QED BY <2>2, <2>3
<1>19. ASSUME NEW t \in Tasks, CheckAnswer(t) \/ CheckAck(t) \/ Timeout(t)
       PROVE  E1' /\ E3'
  <2>1. slots' = slots /\ call[t].for # "echo" /\ air' = air /\ (call' = call \/ Ends(t))
    BY <1>19 DEF CheckAnswer, CheckAck, Timeout, outside
  <2> QED BY <1>12, <2>1, EndsDoes, IdleCall
<1>20. ASSUME UNCHANGED vars \/ JobStarts
       PROVE  E1' /\ E3'
  <2>1. UNCHANGED <<air, slots, call>>
    BY <1>20 DEF vars, code, outside, JobStarts
  <2>2. SameFor("echo")
    BY <2>1 DEF SameFor
  <2>3. E1'
    BY <1>5, <2>1, <2>2
  <2>4. E3'
    BY <1>6, <2>1
  <2> QED BY <2>3, <2>4
<1>21. E1' /\ E3'
  <2>1. ASSUME NEW t \in Tasks,
               \/ AskStep(t) \/ CmdDhcp(t) \/ CmdNetReinit(t)
               \/ Fetch(t) \/ Handle(t) \/ PollEnds(t)
               \/ CheckEcho(t) \/ CheckAnswer(t) \/ CheckOffer(t) \/ CheckAck(t)
               \/ Timeout(t) \/ GiveUp(t)
        PROVE  E1' /\ E3'
    <3> HIDE DEF E1, E3
    <3> QED BY <2>1, <1>8, <1>11, <1>13, <1>14, <1>15, <1>16, <1>17, <1>18, <1>19
  <2> HIDE DEF E1, E3
  <2> QED BY <2>1, <1>20, Steps
<1> QED BY <1>7, <1>21 DEF EchoInv

-----------------------------------------------------------------------------
(* The datagrams.                                                          *)

(* What any step does to the slot for a datagram.                          *)
LEMMA UdpDoes ==
    ASSUME TypeInv, WhoInv, CallInv, [Next]_vars
    PROVE  \/ udp' = udp /\ SameFor("answer") /\ SameFor("offer") /\ SameFor("ack")
           \/ \E t \in Tasks : Queries(t) /\ AskStep(t)
           \/ \E t \in Tasks : /\ call'[t].for \in {"offer", "ack"}
                               /\ udp' = [waiting |-> TRUE, port |-> "dhcp", received |-> FALSE]
                               /\ call[t].for # "answer"
           \/ \E t \in Tasks : udp' = Closed /\ Ends(t)
           \/ \E t \in Tasks : /\ Handle(t) /\ call' = call /\ pkt.kind = "udp"
                               /\ Wanted /\ udp' = [udp EXCEPT !.received = TRUE]
<1>1. call \in [Tasks -> Calls]
  BY DEF TypeInv
<1>2. ASSUME NEW t \in Tasks, Others(t), call[t].for \notin {"answer", "offer", "ack"},
             call' = call \/ call'[t].for \notin {"answer", "offer", "ack"}
      PROVE  SameFor("answer") /\ SameFor("offer") /\ SameFor("ack")
  BY <1>2 DEF SameFor, Others
<1>3. ASSUME NEW t \in Tasks, AskStep(t), ~Queries(t)
      PROVE  udp' = udp /\ SameFor("answer") /\ SameFor("offer") /\ SameFor("ack")
  <2>1. Asks(t) /\ call[t].for \notin {"answer", "offer", "ack"}
    BY <1>3 DEF AskStep
  <2>2. udp' = udp /\ Others(t) /\ (call' = call \/ call'[t].for \notin {"answer", "offer", "ack"})
    BY <1>3, <2>1, AskDoes, IdleCall DEF Echoes, Seeks
  <2> QED BY <1>2, <2>1, <2>2
<1>4. ASSUME NEW t \in Tasks, CmdDhcp(t)
      PROVE  /\ call'[t].for \in {"offer", "ack"} /\ call[t].for # "answer"
             /\ udp' = [waiting |-> TRUE, port |-> "dhcp", received |-> FALSE]
  BY <1>4, DhcpAsked DEF CmdDhcp, MayStart, CallInv
<1>5. ASSUME NEW t \in Tasks, CmdNetReinit(t)
      PROVE  udp' = udp /\ SameFor("answer") /\ SameFor("offer") /\ SameFor("ack")
  BY <1>2, <1>5, EndsDoes, IdleCall DEF CmdNetReinit, MayStart, CallInv, Others
<1>6. ASSUME UNCHANGED <<udp, call>>
      PROVE  udp' = udp /\ SameFor("answer") /\ SameFor("offer") /\ SameFor("ack")
  BY <1>6 DEF SameFor
<1>7. ASSUME NEW t \in Tasks, Handle(t)
      PROVE  \/ UNCHANGED <<udp, call>>
             \/ call' = call /\ pkt.kind = "udp" /\ Wanted /\ udp' = [udp EXCEPT !.received = TRUE]
  BY <1>7 DEF Handle, HandleFrame, HandleArp, HandleEcho, HandleUdp, HandleOther
<1>8. ASSUME NEW t \in Tasks, CheckEcho(t) \/ GiveUp(t)
      PROVE  udp' = udp /\ SameFor("answer") /\ SameFor("offer") /\ SameFor("ack")
  <2>1. /\ udp' = udp /\ call[t].for = "echo"
        /\ call' = call \/ call' = [call EXCEPT ![t].for = "next"]
    BY <1>8 DEF CheckEcho, GiveUp
  <2> QED BY <1>2, <1>6, <2>1, NextDoes DEF Others
<1>9. ASSUME NEW t \in Tasks, CheckAnswer(t) \/ CheckAck(t)
      PROVE  UNCHANGED <<udp, call>> \/ (udp' = Closed /\ Ends(t))
  BY <1>9 DEF CheckAnswer, CheckAck
<1>10. ASSUME NEW t \in Tasks, CheckOffer(t)
       PROVE  \/ UNCHANGED <<udp, call>> \/ (udp' = Closed /\ Ends(t))
              \/ /\ call'[t].for \in {"offer", "ack"} /\ call[t].for # "answer"
                 /\ udp' = [waiting |-> TRUE, port |-> "dhcp", received |-> FALSE]
  BY <1>10, DhcpAsked DEF CheckOffer
<1>11. ASSUME NEW t \in Tasks, Timeout(t)
       PROVE  \/ udp' = Closed /\ Ends(t)
              \/ udp' = udp /\ SameFor("answer") /\ SameFor("offer") /\ SameFor("ack")
  <2>1. CASE call[t].for # "address"
    BY <1>11, <2>1 DEF Timeout
  <2>2. CASE call[t].for = "address"
    BY <1>2, <1>11, <2>2, EndsDoes, IdleCall DEF Timeout, Others
  <2> QED BY <2>1, <2>2
<1>12. ASSUME NEW t \in Tasks, Fetch(t) \/ PollEnds(t)
       PROVE  UNCHANGED <<udp, call>>
  BY <1>12 DEF Fetch, PollEnds
<1>13. ASSUME UNCHANGED vars \/ JobStarts
       PROVE  UNCHANGED <<udp, call>>
  BY <1>13 DEF vars, code, JobStarts
<1>14. ASSUME NEW t \in Tasks,
               \/ AskStep(t) \/ CmdDhcp(t) \/ CmdNetReinit(t)
               \/ Fetch(t) \/ Handle(t) \/ PollEnds(t)
               \/ CheckEcho(t) \/ CheckAnswer(t) \/ CheckOffer(t) \/ CheckAck(t)
               \/ Timeout(t) \/ GiveUp(t)
       PROVE  \/ udp' = udp /\ SameFor("answer") /\ SameFor("offer") /\ SameFor("ack")
              \/ Queries(t) /\ AskStep(t)
              \/ /\ call'[t].for \in {"offer", "ack"}
                 /\ udp' = [waiting |-> TRUE, port |-> "dhcp", received |-> FALSE]
                 /\ call[t].for # "answer"
              \/ udp' = Closed /\ Ends(t)
              \/ /\ Handle(t) /\ call' = call /\ pkt.kind = "udp"
                 /\ Wanted /\ udp' = [udp EXCEPT !.received = TRUE]
  BY <1>3, <1>4, <1>5, <1>6, <1>7, <1>8, <1>9, <1>10, <1>11, <1>12, <1>14
<1> QED BY <1>6, <1>13, <1>14, Steps

(* udp_recv_wait closes the slot on return; a datagram only fills it.      *)
LEMMA ClosedUdp ==
    ASSUME TypeInv
    PROVE  /\ ~Closed.waiting /\ ~Closed.received /\ Closed.port = udp.port
           /\ [udp EXCEPT !.received = TRUE].received
           /\ [udp EXCEPT !.received = TRUE].waiting = udp.waiting
           /\ [udp EXCEPT !.received = TRUE].port = udp.port
BY DEF TypeInv, Closed

(* The slot for a datagram is open only for a command that waits.          *)
LEMMA UdpKept ==
    ASSUME TypeInv, WhoInv, CallInv, UdpInv, [Next]_vars
    PROVE  UdpInv'
<1>1. /\ udp \in [waiting : BOOLEAN, port : {"none", "dns", "dhcp"}, received : BOOLEAN]
      /\ call \in [Tasks -> Calls] /\ call' \in [Tasks -> Calls] /\ (crossed => crossed')
  BY Facts, CallKept DEF TypeInv
<1>2. CASE udp' = udp /\ SameFor("answer") /\ SameFor("offer") /\ SameFor("ack")
  <2>1. \A t \in Tasks : call'[t].for = "answer" => call[t].for = "answer"
    BY <1>2 DEF SameFor
  <2>2. (\E t \in Tasks : call[t].for \in {"answer", "offer", "ack"})
          => \E t \in Tasks : call'[t].for \in {"answer", "offer", "ack"}
    BY <1>2 DEF SameFor
  <2> QED BY <1>1, <1>2, <2>1, <2>2 DEF UdpInv
<1>3. ASSUME NEW t \in Tasks, Queries(t)
      PROVE  UdpInv'
  BY <1>3 DEF Queries, UdpInv
<1>4. ASSUME NEW t \in Tasks, call'[t].for \in {"offer", "ack"}, call[t].for # "answer",
             udp' = [waiting |-> TRUE, port |-> "dhcp", received |-> FALSE]
      PROVE  UdpInv'
  <2>1. udp'.waiting /\ ~udp'.received
    BY <1>4
  <2>2. ASSUME NEW u \in Tasks, call'[u].for = "answer", ~crossed'
        PROVE  FALSE
    <3>1. u # t
      BY <1>4, <2>2
    <3>2. CallInv' /\ WhoInv' /\ TypeInv /\ "job" \in Tasks /\ "shell" \in Tasks
      BY CallKept, WhoKept DEF Tasks
    <3>3. call'[u].op # "none" /\ call'[t].op # "none"
      BY <1>4, <2>2, <3>2 DEF CallInv
    <3> QED BY <2>2, <3>1, <3>2, <3>3 DEF WhoInv, Tasks
  <2> QED BY <1>4, <2>1, <2>2 DEF UdpInv
<1>5. ASSUME udp'.port = udp.port, udp'.received => udp'.waiting, udp'.waiting => udp.waiting,
             \A u \in Tasks : call'[u].for = "answer" => call[u].for = "answer",
             call' = call \/ ~udp'.waiting
      PROVE  UdpInv'
  BY <1>1, <1>5 DEF UdpInv
<1>6. ASSUME NEW t \in Tasks, udp' = Closed, Ends(t)
      PROVE  UdpInv'
  <2>1. \A u \in Tasks : call'[u].for = "answer" => call[u].for = "answer"
    BY <1>6, EndsDoes, IdleCall
  <2> QED BY <1>5, <1>6, <2>1, ClosedUdp
<1>7. CASE call' = call /\ Wanted /\ udp' = [udp EXCEPT !.received = TRUE]
  BY <1>5, <1>7, ClosedUdp DEF Wanted
<1> QED BY <1>2, <1>3, <1>4, <1>6, <1>7, UdpDoes

(* Where the answers to queries are, and which waits for one end.          *)
LEMMA DnsMoves ==
    ASSUME TypeInv, WhoInv, CallInv, [Next]_vars
    PROVE  /\ \A f \in air' : IsDns(f) => f \in air \/ \E t \in Tasks : Queries(t) /\ Queried(f)'
           /\ pkt' = pkt \/ pkt' \in air \/ ~IsDns(pkt)'
           /\ \A u \in Tasks : call[u].for = "answer" /\ call'[u] # call[u] =>
                 (CheckAnswer(u) /\ udp.received) \/ Stale("nslookup", 0)'
<1> DEFINE Air == \A f \in air' : IsDns(f) => f \in air \/ \E t \in Tasks : Queries(t) /\ Queried(f)'
           Pkt == pkt' = pkt \/ pkt' \in air \/ ~IsDns(pkt)'
           Calling == \A u \in Tasks : call[u].for = "answer" /\ call'[u] # call[u] =>
                         (CheckAnswer(u) /\ udp.received) \/ Stale("nslookup", 0)'
<1>1. call \in [Tasks -> Calls]
  BY DEF TypeInv
<1>2. ASSUME NEW t \in Tasks, Others(t), call[t].for # "answer"
      PROVE  Calling
  BY <1>2 DEF Others
<1>3. ASSUME NEW t \in Tasks, AskStep(t)
      PROVE  Air /\ Pkt /\ Calling
  <2>1. Asks(t) /\ call[t].for # "answer" /\ pkt' = pkt
    BY <1>3 DEF AskStep
  <2>2. Calling
    BY <1>2, <2>1, AskDoes
  <2>3. CASE Queries(t)
    <3>1. PICK ok, to : air' = air \cup {Dns(asked + 1, ok, to)}
      BY <2>3 DEF Queries
    <3> DEFINE g == Dns(asked + 1, ok, to)
    <3>2. air' = air \cup {g} /\ g.q = asked + 1
      BY <3>1 DEF Dns
    <3> HIDE DEF g
    <3>3. call'[t].for = "answer" /\ call'[t].q = asked + 1
      BY <2>3 DEF Queries
    <3>4. ASSUME NEW f \in air', f \notin air
          PROVE  Queried(f)'
      BY <3>2, <3>3, <3>4 DEF Queried
    <3> QED BY <2>1, <2>2, <2>3, <3>4
  <2>4. CASE Echoes(t)
    <3>1. \A s, q, to : ~IsDns(EchoReply(s, q, to))
      BY DEF IsDns, EchoReply
    <3>2. PICK to : air' = air \cup {EchoReply(call'[t].seq, asked + 1, to)}
      BY <2>4 DEF Echoes
    <3> QED BY <2>1, <2>2, <3>1, <3>2
  <2>5. CASE Seeks(t)
    <3>1. \A h : ~IsDns(ArpFrame(h))
      BY DEF IsDns, ArpFrame
    <3> QED BY <2>1, <2>2, <2>5, <3>1 DEF Seeks
  <2> QED BY <2>1, <2>2, <2>3, <2>4, <2>5, AskDoes
<1>4. ASSUME NEW t \in Tasks, NEW for \in {"offer", "ack"}, NEW answers, AskDhcp(t, for, answers),
             \A a \in answers : ~IsDns(a), pkt' = pkt, call[t].for # "answer"
      PROVE  Air /\ Pkt /\ Calling
  <2>1. PICK a \in answers : air' = air \cup {a}
    BY <1>4 DEF AskDhcp
  <2>2. Others(t)
    BY <1>4, DhcpAsked DEF Others
  <2> QED BY <1>2, <1>4, <2>1, <2>2
<1>5. \A q, type, l : ~IsDns(Dhcp(q, type, l))
  BY DEF Dhcp, IsDns
<1>6. ASSUME NEW t \in Tasks, CmdDhcp(t)
      PROVE  Air /\ Pkt /\ Calling
  BY <1>4, <1>5, <1>6 DEF CmdDhcp, MayStart, CallInv
<1>7. ASSUME NEW t \in Tasks, CheckOffer(t)
      PROVE  Air /\ Pkt /\ Calling
  <2>1. pkt' = pkt /\ call[t].for # "answer"
    BY <1>7 DEF CheckOffer
  <2>2. CASE udp.received /\ Got("dhcp", "offer")
    BY <1>4, <1>5, <1>7, <2>1, <2>2 DEF CheckOffer
  <2>3. CASE ~(udp.received /\ Got("dhcp", "offer"))
    <3>1. air' = air /\ (call' = call \/ Ends(t))
      BY <1>7, <2>3 DEF CheckOffer
    <3> QED BY <1>2, <2>1, <3>1, EndsDoes DEF Others
  <2> QED BY <2>2, <2>3
<1>8. ASSUME air' = air, pkt' = pkt
      PROVE  Air /\ Pkt
  BY <1>8
<1>9. ASSUME NEW t \in Tasks, CmdNetReinit(t) \/ CheckAck(t)
      PROVE  Air /\ Pkt /\ Calling
  <2>1. air' = air /\ pkt' = pkt /\ call[t].for # "answer" /\ (call' = call \/ Ends(t))
    BY <1>9 DEF CmdNetReinit, MayStart, CallInv, CheckAck, outside
  <2> QED BY <1>2, <2>1, EndsDoes DEF Others
<1>10. ASSUME NEW t \in Tasks, CheckEcho(t) \/ GiveUp(t)
       PROVE  Air /\ Pkt /\ Calling
  <2>1. /\ air' = air /\ pkt' = pkt /\ call[t].for # "answer"
        /\ call' = call \/ call' = [call EXCEPT ![t].for = "next"]
    BY <1>10 DEF CheckEcho, GiveUp, outside
  <2> QED BY <1>2, <2>1, NextDoes DEF Others
<1>11. ASSUME NEW t \in Tasks, Fetch(t)
       PROVE  Air /\ Pkt /\ Calling
  <2>1. \A h : ~IsDns(ArpFrame(h))
    BY DEF IsDns, ArpFrame
  <2>2. air' \subseteq air /\ call' = call /\ (pkt' \in air \/ \E h : pkt' = ArpFrame(h))
    BY <1>11 DEF Fetch
  <2> QED BY <2>1, <2>2 DEF IsDns
<1>12. ASSUME NEW t \in Tasks, Handle(t)
       PROVE  Air /\ Pkt /\ Calling
  <2>1. air' = air /\ call' = call /\ pkt' \in {pkt, NoFrame}
    BY <1>12 DEF Handle, outside
  <2> QED BY <2>1 DEF IsDns, NoFrame
<1>13. ASSUME NEW t \in Tasks, CheckAnswer(t)
       PROVE  Air /\ Pkt /\ Calling
  <2>1. /\ air' = air /\ pkt' = pkt
        /\ call' = call \/ (Ends(t) /\ udp.received)
    BY <1>13 DEF CheckAnswer, outside
  <2> QED BY <1>13, <2>1, EndsDoes
<1>14. ASSUME NEW t \in Tasks, Timeout(t)
       PROVE  Air /\ Pkt /\ Calling
  <2>1. /\ air' = air /\ pkt' = pkt /\ Ends(t)
        /\ missed' = missed \cup {[op |-> call[t].op, seq |-> call[t].seq, q |-> call[t].q]}
    BY <1>14 DEF Timeout, Missing, outside
  <2>2. ASSUME call[t].for = "answer" PROVE Stale("nslookup", 0)'
    <3> DEFINE m == [op |-> call[t].op, seq |-> call[t].seq, q |-> call[t].q]
    <3>1. m \in missed' /\ m.op = "nslookup" /\ m.seq = 0
      BY <2>1, <2>2 DEF CallInv
    <3> HIDE DEF m
    <3> QED BY <3>1 DEF Stale
  <2> QED BY <2>1, <2>2, EndsDoes
<1>15. ASSUME NEW t \in Tasks, PollEnds(t)
       PROVE  Air /\ Pkt /\ Calling
  BY <1>15 DEF PollEnds, outside
<1>16. ASSUME UNCHANGED vars \/ JobStarts
       PROVE  Air /\ Pkt /\ Calling
  BY <1>16 DEF vars, code, outside, JobStarts
<1> HIDE DEF Air, Pkt, Calling
<1>17. ASSUME NEW t \in Tasks,
               \/ AskStep(t) \/ CmdDhcp(t) \/ CmdNetReinit(t)
               \/ Fetch(t) \/ Handle(t) \/ PollEnds(t)
               \/ CheckEcho(t) \/ CheckAnswer(t) \/ CheckOffer(t) \/ CheckAck(t)
               \/ Timeout(t) \/ GiveUp(t)
       PROVE  Air /\ Pkt /\ Calling
  BY <1>3, <1>6, <1>7, <1>9, <1>10, <1>11, <1>12, <1>13, <1>14, <1>15, <1>17
<1>18. Air /\ Pkt /\ Calling
  BY <1>16, <1>17, Steps
<1> QED BY <1>18 DEF Air, Pkt, Calling

(* An answer that is under way, in pkt_buf or announced by the slot is to  *)
(* the query that is waited for, unless one has been given up.             *)
LEMMA DnsKept ==
    ASSUME TypeInv, WhoInv, CallInv, FrameInv, UdpInv, DnsInv, [Next]_vars
    PROVE  DnsInv'
<1> DEFINE D1 == \A f \in air : IsDns(f) => Stale("nslookup", 0) \/ Queried(f)
           D2 == at[cur] = "have" /\ IsDns(pkt) =>
                   Stale("nslookup", 0) \/ Queried(pkt) \/ ~udp.waiting \/ udp.received
           D3 == \A t \in Tasks : udp.received /\ call[t].for = "answer" =>
                   \/ Stale("nslookup", 0)
                   \/ /\ IsDns(pkt) => pkt.q = call[t].q
                      /\ \A f \in air : IsDns(f) => f.q # call[t].q
<1>1. D1 /\ D2 /\ D3
  BY DEF DnsInv
<1>2. /\ call \in [Tasks -> Calls]
      /\ udp \in [waiting : BOOLEAN, port : {"none", "dns", "dhcp"}, received : BOOLEAN]
      /\ Stale("nslookup", 0) => Stale("nslookup", 0)'
      /\ crossed' => Stale("nslookup", 0)'
      /\ crossed => Stale("nslookup", 0)
  BY Facts, StaleStays DEF TypeInv, Stale
<1>3. /\ \A f \in air' : IsDns(f) => f \in air \/ \E t \in Tasks : Queries(t) /\ Queried(f)'
      /\ pkt' = pkt \/ pkt' \in air \/ ~IsDns(pkt)'
      /\ \A u \in Tasks : call[u].for = "answer" /\ call'[u] # call[u] =>
             (CheckAnswer(u) /\ udp.received) \/ Stale("nslookup", 0)'
  BY DnsMoves
<1>4. D1'
  <2>1. ASSUME NEW f \in air', IsDns(f), f \in air, ~Stale("nslookup", 0)'
        PROVE  Queried(f)'
    <3>1. PICK u \in Tasks : call[u].for = "answer" /\ call[u].q = f.q
      BY <1>1, <1>2, <2>1 DEF Queried
    <3>2. call'[u] = call[u]
      BY <1>1, <1>2, <1>3, <2>1, <3>1
    <3> QED BY <3>1, <3>2 DEF Queried
  <2>2. ASSUME NEW f \in air', IsDns(f)
        PROVE  Stale("nslookup", 0)' \/ Queried(f)'
    BY <1>3, <2>1, <2>2
  <2> QED BY <2>2 DEF IsDns
<1>5. D2'
  <2>1. SUFFICES ASSUME at'[cur'] = "have", IsDns(pkt)', ~crossed'
                 PROVE  Stale("nslookup", 0)' \/ Queried(pkt)' \/ ~udp'.waiting \/ udp'.received
    BY <1>2
  <2>2. CASE UNCHANGED vars
    BY <1>1, <2>1, <2>2 DEF vars, code, history, Stale, Queried, IsDns
  <2>3. CASE Fetch(cur)
    <3>1. /\ call' = call /\ UNCHANGED <<missed, crossed>>
          /\ pkt' \in air \/ \E h \in Strangers : pkt' = ArpFrame(h)
      BY <2>3 DEF Fetch, Quiet
    <3>2. \A h : ArpFrame(h).kind # "udp"
      BY DEF ArpFrame
    <3> QED BY <1>1, <2>1, <3>1, <3>2 DEF Stale, Queried, IsDns
  <2>4. CASE \A u \in Tasks : call'[u].for = "none"
    BY <2>1, <2>4, UdpKept DEF UdpInv
  <2> QED BY <2>1, <2>2, <2>3, <2>4, InHand
<1>6. D3'
  <2>1. SUFFICES ASSUME NEW t \in Tasks, udp'.received, call'[t].for = "answer", ~Stale("nslookup", 0)'
                 PROVE  /\ IsDns(pkt)' => pkt'.q = call'[t].q
                        /\ \A f \in air' : IsDns(f) => f.q # call'[t].q
    BY DEF IsDns
  <2>2. ~crossed /\ ~Stale("nslookup", 0) /\ \A u \in Tasks : ~Queries(u)
    BY <1>2, <2>1 DEF Queries
  <2>3. CASE udp' = udp /\ SameFor("answer")
    <3>1. call'[t] = call[t] /\ udp.received
      BY <2>1, <2>3 DEF SameFor
    <3>2. (IsDns(pkt) => pkt.q = call[t].q) /\ \A f \in air : IsDns(f) => f.q # call[t].q
      BY <1>1, <2>1, <2>2, <3>1
    <3>3. \A f \in air : IsDns(f) => f.q = call[t].q
      BY <1>1, <2>1, <2>2, <3>1, OneWaits DEF Queried
    <3> QED BY <1>3, <2>2, <3>1, <3>2, <3>3 DEF IsDns
  <2>4. ASSUME NEW u \in Tasks, Handle(u), call' = call, pkt.kind = "udp", Wanted
        PROVE  /\ IsDns(pkt)' => pkt'.q = call'[t].q
               /\ \A f \in air' : IsDns(f) => f.q # call'[t].q
    <3>1. IsDns(pkt) /\ udp.waiting /\ ~udp.received /\ at[cur] = "have" /\ air' = air
          /\ pkt' \in {pkt, NoFrame}
      BY <2>1, <2>2, <2>4 DEF UdpInv, Wanted, IsDns, Handle, outside
    <3>2. PICK w \in Tasks : call[w].for = "answer" /\ call[w].q = pkt.q
      BY <1>1, <2>2, <3>1 DEF Queried
    <3>3. w = t
      BY <2>1, <2>2, <2>4, <3>2, OneWaits
    <3>4. \A f \in air : IsDns(f) => f.q # pkt.q
      BY <3>1 DEF FrameInv, Numbered, IsDns
    <3> QED BY <2>4, <3>1, <3>2, <3>3, <3>4 DEF IsDns, NoFrame
  <2> QED BY <2>1, <2>2, <2>3, <2>4, UdpDoes, ClosedUdp
<1> HIDE DEF D1, D2, D3
<1>7. D1' /\ D2' /\ D3'
  BY <1>4, <1>5, <1>6
<1> QED BY <1>7 DEF D1, D2, D3, DnsInv

-----------------------------------------------------------------------------
(* What is reported.                                                       *)

(* What a command reports is what it asked for: the slot it finds, or the  *)
(* datagram it copies from pkt_buf.                                        *)
LEMMA AnswersKept ==
    ASSUME TypeInv, WhoInv, CallInv, FrameInv, SlotInv, EchoInv, DnsInv, AnswersMatch, [Next]_vars
    PROVE  AnswersMatch'
<1> DEFINE Matching == told.op # "none" /\ ~Stale(told.op, told.seq) =>
                           told.got = told.q /\ (told.op = "ping" => told.sent = told.q)
<1>1. ConfigLeased'
  BY ConfigKept DEF AnswersMatch
<1>2. ASSUME told' = NoReport
      PROVE  Matching'
  BY <1>2 DEF NoReport
<1>3. ASSUME NEW t \in Tasks, CheckEcho(t)
      PROVE  Matching'
  <2> DEFINE c == call[t]
  <2>1. UNCHANGED <<missed, crossed>> /\ c.for = "echo"
    BY <1>3 DEF CheckEcho
  <2>2. CASE Replied(c.seq) = {}
    BY <1>2, <1>3, <2>2 DEF CheckEcho
  <2>3. CASE Replied(c.seq) # {}
    <3>1. PICK i \in Replied(c.seq) :
             told' = [op |-> "ping", seq |-> c.seq, q |-> c.q, got |-> slots[i].got, sent |-> slots[i].q]
      BY <1>3, <2>3 DEF CheckEcho
    <3>2. i \in 1 .. PingSlots /\ slots[i].replied /\ slots[i].seq = c.seq
      BY DEF Replied
    <3>3. ASSUME ~Stale("ping", c.seq)
          PROVE  slots[i].got = c.q /\ slots[i].q = c.q
      <4>1. slots[i].got = slots[i].q
        BY <3>2, <3>3 DEF EchoInv
      <4>2. PICK w \in Tasks : call[w].for = "echo" /\ call[w].q = slots[i].q
        BY <3>2, <3>3 DEF SlotInv, SlotsAccounted
      <4>3. w = t
        BY <2>1, <3>3, <4>2, OneWaits DEF Stale
      <4> QED BY <4>1, <4>2, <4>3
    <3>4. /\ told'.op = "ping" /\ told'.seq = c.seq /\ told'.q = c.q
          /\ told'.got = slots[i].got /\ told'.sent = slots[i].q
      BY <3>1
    <3> QED BY <2>1, <3>3, <3>4 DEF Stale
  <2> QED BY <2>2, <2>3
<1>4. ASSUME NEW t \in Tasks, CheckAnswer(t)
      PROVE  Matching'
  <2> DEFINE c == call[t]
  <2>1. UNCHANGED <<missed, crossed>> /\ c.for = "answer"
    BY <1>4 DEF CheckAnswer
  <2>2. CASE udp.received /\ Got("dns", "answer")
    <3>1. told' = [op |-> "nslookup", seq |-> 0, q |-> c.q, got |-> pkt.q, sent |-> 0]
      BY <1>4, <2>2 DEF CheckAnswer
    <3>2. IsDns(pkt)
      BY <2>2 DEF Got, IsDns
    <3>3. Stale("nslookup", 0) \/ pkt.q = c.q
      BY <2>1, <2>2, <3>2 DEF DnsInv
    <3>4. /\ told'.op = "nslookup" /\ told'.seq = 0 /\ told'.q = c.q /\ told'.got = pkt.q
      BY <3>1
    <3> QED BY <2>1, <3>3, <3>4 DEF Stale
  <2>3. CASE ~(udp.received /\ Got("dns", "answer"))
    BY <1>2, <1>4, <2>3 DEF CheckAnswer
  <2> QED BY <2>2, <2>3
<1>5. ASSUME NEW t \in Tasks,
             \/ AskStep(t) \/ CmdDhcp(t) \/ CmdNetReinit(t)
             \/ Fetch(t) \/ Handle(t) \/ PollEnds(t)
             \/ CheckOffer(t) \/ CheckAck(t) \/ Timeout(t) \/ GiveUp(t)
      PROVE  told' = NoReport
  BY <1>5 DEF AskStep, CmdDhcp, CmdNetReinit, MayStart, Fetch, Handle, PollEnds, Quiet,
       CheckOffer, CheckAck, Timeout, GiveUp
<1>6. ASSUME JobStarts
      PROVE  told' = NoReport
  BY <1>6 DEF JobStarts
<1>7. ASSUME UNCHANGED vars
      PROVE  Matching'
  BY <1>7 DEF vars, history, AnswersMatch, Stale
<1>8. Matching'
  <2> HIDE DEF Matching
  <2> QED BY <1>2, <1>3, <1>4, <1>5, <1>6, <1>7, Steps
<1> QED BY <1>1, <1>8 DEF AnswersMatch

-----------------------------------------------------------------------------
(* The invariant holds and implies the properties.                         *)

(* The network starts with nothing asked and nothing cached (net_init).    *)
LEMMA InitIInv == Init => IInv
<1> SUFFICES ASSUME Init PROVE IInv
  OBVIOUS
<1>1. /\ air = {} /\ pkt = NoFrame /\ acks = {} /\ cur = "shell" /\ asked = 0
      /\ call = [t \in Tasks |-> Idle] /\ at = [t \in Tasks |-> "top"]
      /\ arp = [i \in 1 .. ArpSize |-> None] /\ slots = [i \in 1 .. PingSlots |-> FreeSlot]
      /\ udp = [waiting |-> FALSE, port |-> "none", received |-> FALSE]
      /\ cfg = [ip |-> Home, gateway |-> Router]
  BY DEF Init
<1>2. /\ FreeSlot \in Slots /\ ~FreeSlot.active /\ ~FreeSlot.replied
      /\ FreeSlot.q = 0 /\ FreeSlot.got = 0 /\ FreeSlot.seq = 0
  BY NetAssumption DEF FreeSlot, Slots
<1>3. \A t \in Tasks : call[t] = Idle
  BY <1>1
<1>4. \A i \in 1 .. PingSlots : slots[i] = FreeSlot
  BY <1>1
<1>5. TypeInv
  <2>1. call \in [Tasks -> Calls] /\ slots \in [1 .. PingSlots -> Slots]
    BY <1>1, <1>2, IdleCall
  <2>2. \A i \in 1 .. PingSlots : slots[i].seq \in 0 .. MaxSeq
    BY <1>2, <1>4, NetAssumption
  <2>3. /\ cfg \in [ip : Leases \cup {Home}, gateway : Local]
        /\ arp \in [1 .. ArpSize -> Local \cup {None}]
        /\ udp \in [waiting : BOOLEAN, port : {"none", "dns", "dhcp"}, received : BOOLEAN]
        /\ udp.waiting \in BOOLEAN /\ udp.received \in BOOLEAN
    BY <1>1, NetAssumption
  <2>4. /\ heard \in [Tasks -> BOOLEAN] /\ at \in [Tasks -> {"top", "have", "poll"}]
        /\ cur \in Tasks /\ flag \in BOOLEAN /\ asked \in Nat /\ strays \in 0 .. MaxStray
    <3>1. /\ heard = [t \in Tasks |-> FALSE] /\ at = [t \in Tasks |-> "top"]
          /\ cur = "shell" /\ flag = FALSE /\ asked = 0 /\ strays = 0
      BY DEF Init
    <3>2. MaxStray \in Nat
      BY NetAssumption
    <3>3. heard \in [Tasks -> BOOLEAN] /\ flag \in BOOLEAN
      BY <3>1, Zenon
    <3>4. at \in [Tasks -> {"top", "have", "poll"}]
      BY <3>1
    <3>5. cur \in Tasks /\ asked \in Nat /\ strays \in 0 .. MaxStray
      BY <3>1, <3>2 DEF Tasks
    <3> QED BY <3>3, <3>4, <3>5
  <2> QED BY <2>1, <2>2, <2>3, <2>4 DEF TypeInv, TypeOK
<1>6. WhoInv /\ CallInv
  BY <1>1, <1>3, IdleCall DEF WhoInv, CallInv, Tasks
<1>7. FrameInv /\ ArpInv /\ ConfigLeased
  BY <1>1 DEF FrameInv, ArpInv, ConfigLeased, IsFrame, NoFrame, Numbered
<1>8. HeardIsFound
  BY <1>3, IdleCall DEF HeardIsFound
<1>9. SlotInv
  BY <1>1, <1>2, <1>4 DEF SlotInv, SlotsAccounted, InUse
<1>10. EchoInv /\ UdpInv /\ DnsInv
  BY <1>1, <1>2, <1>3, <1>4, IdleCall DEF EchoInv, UdpInv, DnsInv, NoFrame, IsDns
<1>11. AnswersMatch
  BY <1>7 DEF AnswersMatch, Init, NoReport
<1> QED BY <1>5, <1>6, <1>7, <1>8, <1>9, <1>10, <1>11 DEF IInv

(* Every step of the shell, a job or the timer keeps the whole invariant.  *)
LEMMA NextIInv == IInv /\ [Next]_vars => IInv'
BY CallKept, WhoKept, TypeKept, FrameKept, ArpKept, HeardKept, SlotKept, EchoKept, UdpKept, DnsKept,
   AnswersKept, ConfigKept DEF IInv

(* The invariant holds in every reachable state of net.c and its callers.  *)
THEOREM Inductive == Spec => []IInv
BY InitIInv, NextIInv, PTL DEF Spec

(* The state has its types, and no address is in two entries of the cache, *)
(* so that what arp_cache_put writes is what arp_lookup finds.             *)
THEOREM NetWaitSound == Spec => []NetSound
<1>1. IInv => NetSound
  BY DEF IInv, TypeInv, NetSound, ArpInv
<1> QED BY <1>1, Inductive, PTL

(* Whoever waits in resolve_mac finds the address once it has come.        *)
THEOREM HeardFound == Spec => []HeardIsFound
<1>1. IInv => HeardIsFound
  BY DEF IInv
<1> QED BY <1>1, Inductive, PTL

(* What ping and nslookup report is the answer to what they asked, and the *)
(* configuration is one that a server has confirmed (net_ping_check,       *)
(* dns_parse_response, net_dhcp_request).                                  *)
THEOREM AnswersMatched == Spec => []AnswersMatch
<1>1. IInv => AnswersMatch
  BY DEF IInv
<1> QED BY <1>1, Inductive, PTL

(* net_ping's slots are in use for pings that are waited for or given up.  *)
THEOREM SlotsSound == Spec => []SlotsAccounted
<1>1. IInv => SlotsAccounted
  BY DEF IInv, SlotInv
<1> QED BY <1>1, Inductive, PTL
=============================================================================
