------------------------------ MODULE NetWait ------------------------------
(***************************************************************************)
(* What waits for an answer from the network, other than TCP: address      *)
(* resolution, ping, DHCP and DNS of kernel/net.c with the commands of     *)
(* kernel/terminal.c that call them.                                       *)
(*                                                                         *)
(* There is one packet buffer, one cache of hardware addresses, one table  *)
(* of pings and one slot for a datagram.  Whoever waits polls the network  *)
(* card and handles whatever comes, and so does the shell between commands.*)
(* The shell may be interrupted by the timer anywhere in this; a job then  *)
(* runs its whole command, since it starts with interrupts disabled and    *)
(* nothing here enables them.                                              *)
(***************************************************************************)
EXTENDS Integers, Sequences, FiniteSets, SequencesExt

CONSTANTS
    Local,          \* hosts of the own subnet
    Strangers,      \* those of them that send frames unasked
    Targets,        \* hosts that commands name, some beyond the gateway
    Router, Server, \* the gateway and the name server of net_set_defaults
    Home, Leases,   \* the address of net_set_defaults, those a server gives
    Routers,        \* the gateways a server gives, None for no such option
    None,
    ArpSize,        \* ARP_CACHE_SIZE
    PingSlots,      \* PING_SLOTS
    MaxSeq,         \* bound: echo requests of one ping command
    MaxAsk,         \* bound: questions asked in a behaviour
    MaxStray        \* bound: frames that come unasked

ASSUME NetAssumption ==
    /\ Router \in Local /\ Server \in Local /\ Strangers \subseteq Local /\ None \notin Local \cup Targets
    /\ Routers \subseteq Local \cup {None}
    /\ {ArpSize, PingSlots, MaxSeq} \subseteq Nat \ {0}
    /\ MaxAsk \in Nat /\ MaxStray \in Nat

VARIABLES
    cfg,        \* net_cfg: own address and gateway
    arp,        \* arp_cache: the address in each entry, None if not valid
    slots,      \* ping_slots
    udp,        \* udp_rx; the datagram itself stays in pkt
    pkt,        \* pkt_buf
    air,        \* answers under way: any may come at any time, or never
    call,       \* what each task waits for
    at,         \* where each task is in its loop: at its top, with a frame in
                \* pkt_buf, or inside net_poll between two frames
    cur,        \* the task that has the CPU
    flag,       \* RFLAGS.IF of the shell
    asked,      \* how many questions have been asked
    strays,     \* how many frames have come unasked
    told,       \* history: what the last step reported to its caller
    missed,     \* history: the questions given up before they were answered
    heard,      \* history: the awaited host's address has come since the wait
    evicted,    \* history: a valid cache entry of another address was lost
    crossed,    \* history: a job asked while the shell waited
    acks        \* history: what the server has confirmed

code == <<cfg, arp, slots, udp, pkt, call, at, cur, flag>>
outside == <<air, asked, strays>>
history == <<told, missed, heard, evicted, crossed, acks>>
vars == <<code, outside, history>>

Tasks == {"shell", "job"}
Questions == 1 .. MaxAsk

(* A slot's q stands for send_tick: which request it was filled for; got   *)
(* is the request whose reply it holds.                                    *)
FreeSlot == [seq |-> 0, q |-> 0, got |-> 0, active |-> FALSE, replied |-> FALSE]
Wants(op, dst, s, i) == [op |-> op, for |-> "none", dst |-> dst, seq |-> s, slot |-> i, q |-> 0]
Idle == Wants("none", None, 0, 0)
WaitsFor(c, for, q) == [op |-> c.op, for |-> for, dst |-> c.dst, seq |-> c.seq, slot |-> c.slot, q |-> q]
NoReport == [op |-> "none", seq |-> 0, q |-> 0, got |-> 0, sent |-> 0]

ArpFrame(h) == [kind |-> "arp", from |-> h]
EchoReply(s, q, to) == [kind |-> "echo", seq |-> s, q |-> q, to |-> to]
Dns(q, ok, to) == [kind |-> "udp", port |-> "dns", q |-> q, type |-> ok, to |-> to]
Dhcp(q, type, l) == [kind |-> "udp", port |-> "dhcp", q |-> q, type |-> type,
                     lease |-> l, to |-> "all"]
NoFrame == [kind |-> "other"]

Offers == [ip : Leases, router : Routers]

-----------------------------------------------------------------------------
(* The cache.                                                              *)

Cached(h) == \E i \in 1 .. ArpSize : arp[i] = h

(* Mutant: an address that is known is not looked for.                     *)
ArpPutAgain(h) ==
    LET empty == {i \in 1 .. ArpSize : arp[i] = None}
    IN  IF empty = {} THEN 1 ELSE CHOOSE i \in empty : \A j \in empty : i <= j

(* arp_cache_put: the entry it writes: the one that has the address, else  *)
(* the first that is not valid, else entry 0.                              *)
ArpEntry(h) ==
    LET mine == {i \in 1 .. ArpSize : arp[i] = h}
        empty == {i \in 1 .. ArpSize : arp[i] = None}
        S == IF mine # {} THEN mine ELSE empty
    IN  IF S = {} THEN 1 ELSE CHOOSE i \in S : \A j \in S : i <= j

(* resolve_mac's target. *)
Hop(dst) == IF dst \in Local THEN dst ELSE cfg.gateway

-----------------------------------------------------------------------------
(* The handlers: what handle_frame does with pkt.                          *)

(* Mutant: a full cache stays as it is.                                    *)
HandleArpFull ==
    LET i == ArpEntry(pkt.from)
    IN  /\ arp' = IF arp[i] \in {None, pkt.from} THEN [arp EXCEPT ![i] = pkt.from] ELSE arp
        /\ heard' = [t \in Tasks |->
                       heard[t] \/ (call[t].for = "address" /\ Hop(call[t].dst) = pkt.from)]
        /\ UNCHANGED <<slots, udp, evicted>>

HandleArp ==
    LET i == ArpEntry(pkt.from)
    IN  /\ arp' = [arp EXCEPT ![i] = pkt.from]
        /\ evicted' = (evicted \/ arp[i] \notin {None, pkt.from})
        /\ heard' = [t \in Tasks |->
                       heard[t] \/ (call[t].for = "address" /\ Hop(call[t].dst) = pkt.from)]
        /\ UNCHANGED <<slots, udp>>

(* Mutant: the reply is given to a slot that has been answered, too.       *)
EchoSlotAny == {i \in 1 .. PingSlots : slots[i].seq = pkt.seq}

(* The slots that handle_icmp looks for. *)
EchoSlot == {i \in 1 .. PingSlots : slots[i].active /\ slots[i].seq = pkt.seq}

Answered(s) == [seq |-> s.seq, q |-> s.q, got |-> pkt.q, active |-> FALSE, replied |-> TRUE]

HandleEcho ==
    /\ pkt.to = cfg.ip
    /\ slots' = IF EchoSlot = {} THEN slots
                ELSE LET i == CHOOSE k \in EchoSlot : \A j \in EchoSlot : k <= j
                     IN  [slots EXCEPT ![i] = Answered(@)]
    /\ UNCHANGED <<arp, udp, evicted, heard>>

Wanted == udp.waiting /\ udp.port = pkt.port /\ ~udp.received

HandleUdp ==
    /\ pkt.to \in {cfg.ip, "all"}
    /\ udp' = IF Wanted THEN [udp EXCEPT !.received = TRUE] ELSE udp
    /\ UNCHANGED <<arp, slots, evicted, heard>>

(* A frame for another address, of another protocol, or a request that is  *)
(* only answered.                                                          *)
HandleOther ==
    /\ \/ pkt.kind = "other"
       \/ pkt.kind = "echo" /\ pkt.to # cfg.ip
       \/ pkt.kind = "udp" /\ pkt.to \notin {cfg.ip, "all"}
    /\ UNCHANGED <<arp, slots, udp, evicted, heard>>

HandleFrame ==
    \/ pkt.kind = "arp" /\ HandleArp
    \/ pkt.kind = "echo" /\ HandleEcho
    \/ pkt.kind = "udp" /\ HandleUdp
    \/ HandleOther

-----------------------------------------------------------------------------
(* net_poll                                                                *)

Quiet == told' = NoReport /\ UNCHANGED <<missed, heard, evicted, crossed, acks>>

(* e1000_poll_rx takes the next frame into pkt_buf: whatever has arrived by *)
(* now, answers in any order, or the address of a host that asks for       *)
(* another's.  The bounds keep a poll below the 64 frames of its loop.     *)
Fetch(t) ==
    /\ cur = t /\ at[t] # "have"
    /\ t = "shell" \/ call[t].op # "none"
    /\ call[t].for # "next"
    /\ \/ \E f \in air : pkt' = f /\ air' = air \ {f} /\ UNCHANGED strays
       \/ \E h \in Strangers : /\ strays < MaxStray
                               /\ pkt' = ArpFrame(h) /\ strays' = strays + 1
                               /\ UNCHANGED air
    /\ at' = [at EXCEPT ![t] = "have"]
    /\ Quiet
    /\ UNCHANGED <<cfg, arp, slots, udp, call, cur, flag, asked>>

(* What stays in pkt_buf is kept as long as somebody may still read it.    *)
Handle(t) ==
    /\ cur = t /\ at[t] = "have"
    /\ HandleFrame
    /\ pkt' = IF udp'.received \/ \E u \in Tasks \ {t} : at[u] = "have" THEN pkt
              ELSE NoFrame
    /\ at' = [at EXCEPT ![t] = "poll"]
    /\ told' = NoReport
    /\ UNCHANGED <<cfg, call, cur, flag, outside, missed, crossed, acks>>

(* Nothing more has arrived at the prompt: terminal_poll returns.          *)
PollEnds(t) ==
    /\ cur = t /\ at[t] # "have" /\ call[t].op = "none" /\ t = "shell"
    /\ at' = [at EXCEPT ![t] = "top"]
    /\ Quiet
    /\ UNCHANGED <<cfg, arp, slots, udp, pkt, call, cur, flag, outside>>

-----------------------------------------------------------------------------
(* Commands end: the shell enables interrupts after each one (it reaps     *)
(* zombies), a job leaves the CPU for good.                                *)

Ends(t) ==
    /\ call' = [call EXCEPT ![t] = Idle]
    /\ flag' = (flag \/ t = "shell")
    /\ cur' = "shell"

Continues == UNCHANGED <<flag, cur>>

Crossing(t) == crossed' = (crossed \/ (t = "job" /\ call["shell"].op # "none"))

(* net_ping after resolve_mac: the slot found before the wait is filled.   *)
SendEcho(t, c) ==
    LET q == asked + 1
    IN  /\ slots' = [slots EXCEPT ![c.slot] =
                       [seq |-> c.seq, q |-> q, got |-> 0, active |-> TRUE, replied |-> FALSE]]
        /\ call' = [call EXCEPT ![t] = WaitsFor(c, "echo", q)]
        /\ air' = air \cup {EchoReply(c.seq, q, cfg.ip)}
        /\ asked' = q
        /\ Continues
        /\ UNCHANGED udp

(* net_dns_resolve after net_udp_send, up to the loop of udp_recv_wait.    *)
SendDns(t, c) ==
    LET q == asked + 1
    IN  /\ udp' = [waiting |-> TRUE, port |-> "dns", received |-> FALSE]
        /\ call' = [call EXCEPT ![t] = WaitsFor(c, "answer", q)]
        /\ \E ok \in {"answer", "error"} : air' = air \cup {Dns(q, ok, cfg.ip)}
        /\ asked' = q
        /\ Continues
        /\ UNCHANGED slots

(* What a command does once it has the address: net_udp_send is done.      *)
Send(t, c) ==
    \/ c.op = "ping" /\ SendEcho(t, c)
    \/ c.op = "nslookup" /\ SendDns(t, c)
    \/ c.op = "udpsend" /\ Ends(t) /\ UNCHANGED <<slots, udp, air, asked>>

(* resolve_mac: at once if the address is known, else ask for it and wait. *)
Resolve(t, c) ==
    IF Cached(Hop(c.dst))
    THEN Send(t, c) /\ UNCHANGED heard
    ELSE /\ call' = [call EXCEPT ![t] = WaitsFor(c, "address", c.q)]
         /\ air' = IF Hop(c.dst) \in Local THEN air \cup {ArpFrame(Hop(c.dst))} ELSE air
         /\ heard' = [heard EXCEPT ![t] = FALSE]
         /\ Continues
         /\ UNCHANGED <<slots, udp, asked>>

FreeSlots == {i \in 1 .. PingSlots : ~slots[i].active /\ ~slots[i].replied}

(* net_ping for one sequence number: without a free slot it fails.         *)
Ping(t, dst, s) ==
    IF FreeSlots = {}
    THEN Ends(t) /\ UNCHANGED <<slots, udp, air, asked, heard>>
    ELSE \E i \in FreeSlots :
            /\ \A j \in FreeSlots : i <= j
            /\ Resolve(t, Wants("ping", dst, s, i))

(* A task that runs a command now: the shell at its prompt; a job when it  *)
(* is given the CPU, in the middle of whatever the shell was doing unless  *)
(* the shell's flag is clear.                                              *)
MayStart(t) ==
    /\ call[t].op = "none" /\ at[t] = "top" /\ asked < MaxAsk
    /\ cur = t
    /\ told' = NoReport
    /\ Crossing(t)

(* cmd_ping *)
CmdPing(t) ==
    /\ MayStart(t)
    /\ \E dst \in Targets : Ping(t, dst, 1)
    /\ UNCHANGED <<cfg, arp, pkt, at, missed, evicted, acks, strays>>

(* cmd_nslookup: net_dns_resolve sends to the configured server. *)
CmdNslookup(t) ==
    /\ MayStart(t)
    /\ Resolve(t, Wants("nslookup", Server, 0, 0))
    /\ UNCHANGED <<cfg, arp, pkt, at, missed, evicted, acks, strays>>

(* cmd_udpsend *)
CmdUdpSend(t) ==
    /\ MayStart(t)
    /\ \E dst \in Targets : Resolve(t, Wants("udpsend", dst, 0, 0))
    /\ UNCHANGED <<cfg, arp, pkt, at, missed, evicted, acks, strays>>

(* One half of net_dhcp_request: a broadcast, then udp_recv_wait; the      *)
(* server may answer with any of these.                                    *)
AskDhcp(t, for, answers) ==
    /\ udp' = [waiting |-> TRUE, port |-> "dhcp", received |-> FALSE]
    /\ call' = [call EXCEPT ![t] =
                  [op |-> "dhcp", for |-> for, dst |-> None, seq |-> 0, slot |-> 0,
                   q |-> asked + 1]]
    /\ \E a \in answers :
          /\ air' = air \cup {a}
          /\ acks' = IF a.type = "ack" THEN acks \cup {a.lease} ELSE acks
    /\ asked' = asked + 1

(* cmd_dhcp up to the wait for the offer, of which only the address is used. *)
CmdDhcp(t) ==
    /\ MayStart(t)
    /\ AskDhcp(t, "offer", {Dhcp(asked + 1, "offer", l) :
                                 l \in {o \in Offers : o.router = None}})
    /\ Continues
    /\ UNCHANGED <<cfg, arp, slots, pkt, at, missed, heard, evicted, strays>>

(* cmd_netreinit: net_init with the card present. *)
CmdNetReinit(t) ==
    /\ MayStart(t)
    /\ arp' = [i \in 1 .. ArpSize |-> None]
    /\ slots' = [i \in 1 .. PingSlots |-> [slots[i] EXCEPT !.active = FALSE]]
    /\ cfg' = [ip |-> Home, gateway |-> Router]
    /\ evicted' = (evicted \/ \E i \in 1 .. ArpSize : arp[i] # None)
    /\ asked' = asked + 1
    /\ Ends(t)
    /\ UNCHANGED <<udp, pkt, air, at, missed, heard, acks, strays>>

-----------------------------------------------------------------------------
(* The checks after each net_poll, which may have found nothing.           *)

Polled(t) == cur = t /\ at[t] # "have"
Loop(t) == at' = [at EXCEPT ![t] = "top"]

(* resolve_mac looks the address up again. *)
CheckAddress(t) ==
    /\ Polled(t) /\ call[t].for = "address"
    /\ Loop(t)
    /\ IF Cached(Hop(call[t].dst)) THEN Send(t, call[t])
       ELSE Continues /\ UNCHANGED <<call, slots, udp, air, asked>>
    /\ told' = NoReport
    /\ UNCHANGED <<cfg, arp, pkt, missed, heard, evicted, crossed, acks, strays>>

(* Mutant: net_ping_check leaves the slot as it is.                         *)
ConsumeNothing(i) == UNCHANGED slots

Consume(i) == slots' = [slots EXCEPT ![i].replied = FALSE]

Replied(s) == {i \in 1 .. PingSlots : slots[i].replied /\ slots[i].seq = s}

(* net_ping_check: the first slot with a reply to this number.             *)
CheckEcho(t) ==
    LET c == call[t]
    IN  /\ Polled(t) /\ c.for = "echo"
        /\ Loop(t)
        /\ IF Replied(c.seq) = {}
           THEN told' = NoReport /\ UNCHANGED <<slots, call>>
           ELSE \E i \in Replied(c.seq) :
                  /\ \A j \in Replied(c.seq) : i <= j
                  /\ told' = [op |-> "ping", seq |-> c.seq, q |-> c.q,
                              got |-> slots[i].got, sent |-> slots[i].q]
                  /\ Consume(i)
                  /\ call' = [call EXCEPT ![t].for = "next"]
        /\ UNCHANGED <<cfg, arp, udp, pkt, cur, flag, outside,
                       missed, heard, evicted, crossed, acks>>

(* The end of cmd_ping's loop body: another number, or that was the last.  *)
NextSeq(t) ==
    LET c == call[t]
    IN  /\ cur = t /\ at[t] = "top" /\ c.for = "next"
        /\ \/ c.seq < MaxSeq /\ Ping(t, c.dst, c.seq + 1)
           \/ Ends(t) /\ UNCHANGED <<slots, udp, air, asked, heard>>
        /\ told' = NoReport
        /\ UNCHANGED <<cfg, arp, pkt, at, missed, evicted, crossed, acks, strays>>

Closed == [udp EXCEPT !.waiting = FALSE, !.received = FALSE]

(* udp_recv_wait copies from pkt_buf what is there now.                     *)
Got(port, type) == pkt.kind = "udp" /\ pkt.port = port /\ pkt.type = type

(* udp_recv_wait returns and dns_parse_response looks at the copy.         *)
CheckAnswer(t) ==
    /\ Polled(t) /\ call[t].for = "answer"
    /\ Loop(t)
    /\ IF udp.received
       THEN /\ udp' = Closed
            /\ told' = IF Got("dns", "answer")
                       THEN [op |-> "nslookup", seq |-> 0, q |-> call[t].q, got |-> pkt.q, sent |-> 0]
                       ELSE NoReport
            /\ Ends(t)
       ELSE Continues /\ told' = NoReport /\ UNCHANGED <<udp, call>>
    /\ UNCHANGED <<cfg, arp, slots, pkt, outside,
                   missed, heard, evicted, crossed, acks>>

(* net_dhcp_request with an OFFER sends a REQUEST; the server confirms the *)
(* address it offered, with options of its choice, or refuses.             *)
CheckOffer(t) ==
    /\ Polled(t) /\ call[t].for = "offer"
    /\ Loop(t)
    /\ IF ~udp.received THEN Continues /\ UNCHANGED <<udp, call, air, asked, acks>>
       ELSE IF Got("dhcp", "offer")
       THEN AskDhcp(t, "ack", {Dhcp(asked + 1, "ack", l) :
                                   l \in {o \in Offers : o.ip = pkt.lease.ip}}
                              \cup {Dhcp(asked + 1, "nak", pkt.lease)}) /\ Continues
       ELSE udp' = Closed /\ Ends(t) /\ UNCHANGED <<air, asked, acks>>
    /\ told' = NoReport
    /\ UNCHANGED <<cfg, arp, slots, pkt, missed, heard, evicted, crossed, strays>>

Confirmed == Got("dhcp", "ack")

(* The end of net_dhcp_request: options that the server left out stay.     *)
CheckAck(t) ==
    /\ Polled(t) /\ call[t].for = "ack"
    /\ Loop(t)
    /\ IF udp.received THEN udp' = Closed /\ Ends(t)
       ELSE Continues /\ UNCHANGED <<udp, call>>
    /\ cfg' = IF udp.received /\ Confirmed
              THEN [ip |-> pkt.lease.ip,
                    gateway |-> IF pkt.lease.router = None THEN cfg.gateway
                                ELSE pkt.lease.router]
              ELSE cfg
    /\ told' = NoReport
    /\ UNCHANGED <<arp, slots, pkt, outside,
                   missed, heard, evicted, crossed, acks>>

-----------------------------------------------------------------------------
(* Giving up.                                                              *)

Missing(t) == missed' = missed \cup {[op |-> call[t].op, seq |-> call[t].seq, q |-> call[t].q]}

(* The deadlines of resolve_mac and udp_recv_wait are read from a clock    *)
(* that stands still while interrupts are disabled.                        *)
Timeout(t) ==
    /\ cur = t /\ at[t] = "top" /\ t = "shell" /\ flag
    /\ call[t].for \in {"address", "answer", "offer", "ack"}
    /\ udp' = IF call[t].for = "address" THEN udp ELSE Closed
    /\ Ends(t)
    /\ Missing(t)
    /\ told' = NoReport
    /\ UNCHANGED <<cfg, arp, slots, pkt, at, outside,
                   heard, evicted, crossed, acks>>

(* cmd_ping counts its polls. *)
GiveUp(t) ==
    /\ cur = t /\ at[t] = "top" /\ call[t].for = "echo"
    /\ call' = [call EXCEPT ![t].for = "next"]
    /\ Missing(t)
    /\ told' = NoReport
    /\ UNCHANGED <<cfg, arp, slots, udp, pkt, at, cur, flag, outside,
                   heard, evicted, crossed, acks>>

-----------------------------------------------------------------------------
(* The timer takes the CPU from the shell, or the shell yields after a     *)
(* poll at its prompt, and a job starts.                                   *)
JobStarts ==
    /\ cur = "shell" /\ asked < MaxAsk
    /\ flag \/ (call["shell"].op = "none" /\ at["shell"] = "top")
    /\ cur' = "job"
    /\ told' = NoReport
    /\ UNCHANGED <<cfg, arp, slots, udp, pkt, call, at, flag, outside,
                   missed, heard, evicted, crossed, acks>>

Init ==
    /\ cfg = [ip |-> Home, gateway |-> Router]
    /\ arp = [i \in 1 .. ArpSize |-> None]
    /\ slots = [i \in 1 .. PingSlots |-> FreeSlot]
    /\ udp = [waiting |-> FALSE, port |-> "none", received |-> FALSE]
    /\ pkt = NoFrame /\ air = {}
    /\ call = [t \in Tasks |-> Idle]
    /\ at = [t \in Tasks |-> "top"]
    /\ cur = "shell" /\ flag = FALSE /\ asked = 0 /\ strays = 0
    /\ told = NoReport /\ missed = {} /\ acks = {}
    /\ heard = [t \in Tasks |-> FALSE]
    /\ evicted = FALSE /\ crossed = FALSE

Command(t) ==
    \/ CmdPing(t) \/ CmdNslookup(t) \/ CmdUdpSend(t) \/ CmdDhcp(t) \/ CmdNetReinit(t)

Waits(t) ==
    \/ Fetch(t) \/ Handle(t) \/ PollEnds(t)
    \/ CheckAddress(t) \/ CheckEcho(t) \/ CheckAnswer(t) \/ CheckOffer(t) \/ CheckAck(t)
    \/ NextSeq(t)

Next ==
    \/ \E t \in Tasks : Command(t) \/ Waits(t) \/ Timeout(t) \/ GiveUp(t)
    \/ JobStarts

Spec == Init /\ [][Next]_vars

(* Fairness: whoever has the CPU goes on; a count of polls and, with the   *)
(* timer running, a deadline come to an end.                               *)
Fairness ==
    /\ \A t \in Tasks : WF_vars(Waits(t)) /\ SF_vars(Timeout(t)) /\ SF_vars(GiveUp(t))
    /\ WF_vars(Command("job"))

FairSpec == Spec /\ Fairness

-----------------------------------------------------------------------------
TypeOK ==
    /\ cfg \in [ip : Leases \cup {Home}, gateway : Local]
    /\ arp \in [1 .. ArpSize -> Local \cup {None}]
    /\ \A i \in 1 .. PingSlots : slots[i].seq \in 0 .. MaxSeq
    /\ udp.waiting \in BOOLEAN /\ udp.received \in BOOLEAN
    /\ at \in [Tasks -> {"top", "have", "poll"}]
    /\ cur \in Tasks /\ flag \in BOOLEAN
    /\ asked \in Nat /\ strays \in 0 .. MaxStray

(* The state has its types, and no address is in two entries of the cache: *)
(* an update reaches the entry that look-ups find (arp_cache_put writes,   *)
(* arp_lookup reads).                                                      *)
NetSound ==
    /\ TypeOK
    /\ \A i, j \in 1 .. ArpSize : arp[i] = arp[j] /\ arp[i] # None => i = j

(* Whoever waits for an address finds it once the host's answer has come,  *)
(* whoever took that from the card, unless the full cache has lost an      *)
(* entry since or another task changed the gateway (resolve_mac).          *)
HeardIsFound ==
    \A t \in Tasks :
        call[t].for = "address" /\ heard[t] /\ ~evicted /\ ~crossed
            => Cached(Hop(call[t].dst))

Stale(op, s) == crossed \/ \E m \in missed : m.op = op /\ m.seq = s

(* The configuration is the built-in one or what a server has confirmed,   *)
(* never a mere offer (net_dhcp_request).                                  *)
ConfigLeased ==
    cfg.ip # Home =>
        \E l \in acks : l.ip = cfg.ip /\ l.router \in {None, cfg.gateway}

(* What a command reports answers its own question.  ping: the reply and   *)
(* the round-trip time are those of its own request; nslookup: the address *)
(* is the answer to its own query.  The code tells requests apart by the   *)
(* sequence number alone and queries not at all (net_ping_check,           *)
(* dns_parse_response), so this holds until one with the same number has   *)
(* been given up or two tasks wait at once.  dhcp: see ConfigLeased.       *)
AnswersMatch ==
    /\ ConfigLeased
    /\ told.op # "none" /\ ~Stale(told.op, told.seq) =>
        /\ told.got = told.q
        /\ told.op = "ping" => told.sent = told.q

(* A slot is in use only for a ping that is waited for, except for         *)
(* the numbers of pings given up, which keep theirs (net_ping).            *)
SlotsAccounted ==
    \A i \in 1 .. PingSlots :
        slots[i].active \/ slots[i].replied =>
            \/ \E t \in Tasks : call[t].for = "echo" /\ call[t].q = slots[i].q
            \/ Stale("ping", slots[i].seq)

(* "Send ARP request and wait briefly" (kernel/net.c:538, 2 seconds at     *)
(* line 541): no wait for an address lasts for ever.                       *)
WaitsBriefly ==
    \A t \in Tasks : call[t].for = "address" ~> call[t].for # "address"
=============================================================================
