--------------------------------- MODULE Tcp ---------------------------------
(***************************************************************************)
(* The TCP client of kernel/net.c: one connection from net_tcp_connect to  *)
(* net_tcp_close, over a network that loses, repeats and reorders.         *)
(*                                                                         *)
(* Segments are handled where the code polls: in the waiting loops of the  *)
(* calls, and inside tcp_send_segment, whose resolve_mac polls when the    *)
(* peer's address is not in the ARP cache.  A handler may therefore run    *)
(* inside a call or inside another handler that is about to send; sends is *)
(* the stack of segments that wait for an address.                         *)
(*                                                                         *)
(* Sequence numbers count from the SYN of each side.  The peer is a        *)
(* correct TCP that keeps to the window it is offered; it sends the bytes  *)
(* 1, 2, ... and is sent the chunks 1, 2, ...  An earlier connection's     *)
(* segments carry another local port and match no connection.              *)
(***************************************************************************)
EXTENDS Integers, Sequences

CONSTANTS
    BufSize,   \* NET_TCP_BUF_SIZE
    MaxSeg,    \* the largest segment of the peer, in bytes
    MaxBytes,  \* bound: bytes the peer sends
    MaxChunks, \* bound: chunks the caller sends
    MaxNest    \* bound: segments handled inside one another

ASSUME TcpAssumption ==
    /\ BufSize \in Nat \ {0} /\ MaxSeg \in Nat \ {0}
    /\ MaxBytes \in Nat /\ MaxChunks \in Nat /\ MaxNest \in Nat

VARIABLES
    state,    \* tcp_conn.state
    active,   \* tcp_conn.active
    seq,      \* tcp_conn.seq
    ack,      \* tcp_conn.ack
    rx,       \* tcp_conn.rx_buf up to rx_len
    rx_fin,   \* tcp_conn.rx_fin
    call,     \* the call the caller is in
    left,     \* the chunks that net_tcp_send still has to send
    sends,    \* the segments that wait for an address, the latest first
    wire,     \* the segments sent to the peer that carry a sequence number
    acked,    \* the highest acknowledgement sent to the peer
    prcv,     \* peer: the next sequence number it expects, 0 before the SYN
    plist,    \* peer: the chunks received
    peof,     \* peer: the FIN received
    psent,    \* peer: bytes sent
    pfin,     \* peer: FIN sent
    prst,     \* peer: RST sent
    una,      \* peer: the highest acknowledgement received
    got,      \* history: bytes net_tcp_recv has returned
    sent,     \* history: chunks sent
    ended,    \* history: net_tcp_recv has returned 0 for the peer's FIN
    overflow, \* history: bytes that did not fit have been acknowledged
    apart,    \* history: a segment with something new has not started at
              \* the next expected byte
    nested    \* history: a segment was handled inside tcp_send_segment

conn == <<state, active, seq, ack, rx, rx_fin>>
peer == <<prcv, plist, peof, psent, pfin, prst, una>>
marks == <<overflow, apart, nested>>
vars == <<conn, call, left, sends, wire, acked, peer, got, sent, ended, marks>>

States == {"CLOSED", "SYN_SENT", "ESTABLISHED", "FIN_WAIT_1", "FIN_WAIT_2",
           "CLOSE_WAIT", "LAST_ACK", "TIME_WAIT"}
Calls == {"idle", "connect", "open", "send", "recv", "close", "done"}

(* What tcp_send_segment was called for, and so what follows it: an        *)
(* acknowledgement may be followed by the FIN of the same segment or by    *)
(* the end of the connection.                                              *)
Jobs == {"syn", "data", "fin", "ack", "ack, then FIN", "ack, then close"}

Least(a, b) == IF a <= b THEN a ELSE b

-----------------------------------------------------------------------------
(* The segments that may arrive: anything the peer has sent, in pieces of  *)
(* any size, with an acknowledgement as old as the network has kept it.    *)

Segment(s, n, f, a) == [syn |-> FALSE, rst |-> FALSE, seq |-> s, len |-> n,
                        fin |-> f, ack |-> a]
SynAck == [syn |-> TRUE, rst |-> FALSE, seq |-> 0, len |-> 0, fin |-> FALSE, ack |-> 1]
Rst == [syn |-> FALSE, rst |-> TRUE, seq |-> 0, len |-> 0, fin |-> FALSE, ack |-> 0]

(* Only FIN_WAIT_1 looks at what a segment acknowledges. *)
Acknowledged == IF state = "FIN_WAIT_1" THEN 1 .. prcv ELSE {1} \cap 1 .. prcv

Runs == {r \in (1 .. psent) \X (1 .. psent) : r[1] <= r[2] /\ r[2] < r[1] + MaxSeg}

(* Data, data with a FIN, and nothing but the acknowledgement. *)
Acknowledging(a) ==
    {Segment(r[1], r[2] - r[1] + 1, FALSE, a) : r \in Runs}
      \cup {Segment(psent + 1 - n, n, TRUE, a) : n \in {k \in 0 .. Least(psent, MaxSeg) : pfin}}
      \cup {Segment(psent + 1, 0, FALSE, a)}

Arriving ==
    {r \in {SynAck} : prcv > 0} \cup {r \in {Rst} : prst}
      \cup UNION {Acknowledging(a) : a \in Acknowledged}

-----------------------------------------------------------------------------
(* The handler.                                                            *)

Drop == state' = "CLOSED" /\ active' = FALSE

Polling == sends # <<>> \/ call \in {"connect", "send", "recv", "close"}

Handler(s) ==
    /\ Polling /\ active
    /\ Len(sends) <= MaxNest
    /\ nested' = (nested \/ sends # <<>>)
    /\ UNCHANGED <<call, left, wire, acked, peer, got, sent, ended>>

(* RST kills the connection immediately.                                   *)
HandleRst(s) ==
    /\ Handler(s) /\ s.rst
    /\ Drop
    /\ UNCHANGED <<seq, ack, rx, rx_fin, sends, overflow, apart>>

HandleSynAck(s) ==
    /\ Handler(s) /\ s.syn
    /\ state = "SYN_SENT"
    /\ ack' = s.seq + 1
    /\ seq' = s.ack
    /\ state' = "ESTABLISHED"
    /\ sends' = <<"ack">> \o sends
    /\ UNCHANGED <<active, rx, rx_fin, overflow, apart>>

Arrives(s) == /\ state = "ESTABLISHED" /\ ~s.syn /\ ~s.rst
              /\ s.len > 0 \/ s.fin
              /\ apart' = (apart \/ (s.seq # ack /\ (s.seq + s.len > ack \/ s.fin)))

(* Mutant: data beyond the next expected byte is taken too.                *)
HandleDataAhead(s) ==
    /\ Handler(s) /\ Arrives(s)
    /\ s.len > 0 /\ s.seq >= ack
    /\ LET n == Least(s.len, BufSize - Len(rx))
       IN  /\ rx' = rx \o [i \in 1 .. n |-> s.seq + i - 1]
           /\ overflow' = (overflow \/ n < s.len)
    /\ ack' = s.seq + s.len
    /\ sends' = <<IF s.fin THEN "ack, then FIN" ELSE "ack">> \o sends
    /\ UNCHANGED <<state, active, seq, rx_fin>>

(* Data in order: what does not fit is acknowledged all the same.          *)
HandleData(s) ==
    /\ Handler(s) /\ Arrives(s)
    /\ s.len > 0 /\ s.seq = ack
    /\ LET n == Least(s.len, BufSize - Len(rx))
       IN  /\ rx' = rx \o [i \in 1 .. n |-> s.seq + i - 1]
           /\ overflow' = (overflow \/ n < s.len)
    /\ ack' = s.seq + s.len
    /\ sends' = <<IF s.fin THEN "ack, then FIN" ELSE "ack">> \o sends
    /\ UNCHANGED <<state, active, seq, rx_fin>>

(* A FIN without data in order is taken whatever its sequence number.      *)
HandleFin(s) ==
    /\ Handler(s) /\ Arrives(s)
    /\ s.fin /\ ~(s.len > 0 /\ s.seq = ack)
    /\ ack' = IF s.len = 0 THEN s.seq + 1 ELSE ack
    /\ rx_fin' = TRUE
    /\ state' = "CLOSE_WAIT"
    /\ sends' = <<"ack">> \o sends
    /\ UNCHANGED <<active, seq, rx, overflow>>

(* FIN_WAIT_1: any segment with ACK, whatever it acknowledges.             *)
HandleFinWait1(s) ==
    /\ Handler(s) /\ ~s.rst
    /\ state = "FIN_WAIT_1"
    /\ seq' = s.ack
    /\ IF s.fin
       THEN /\ ack' = s.seq + 1
            /\ state' = "TIME_WAIT"
            /\ sends' = <<"ack, then close">> \o sends
       ELSE /\ state' = "FIN_WAIT_2"
            /\ UNCHANGED <<ack, sends>>
    /\ UNCHANGED <<active, rx, rx_fin, overflow, apart>>

HandleFinWait2(s) ==
    /\ Handler(s) /\ s.fin
    /\ state = "FIN_WAIT_2"
    /\ ack' = s.seq + 1
    /\ sends' = <<"ack, then close">> \o sends
    /\ UNCHANGED <<state, active, seq, rx, rx_fin, overflow, apart>>

HandleLastAck(s) ==
    /\ Handler(s) /\ ~s.rst
    /\ state = "LAST_ACK"
    /\ Drop
    /\ UNCHANGED <<seq, ack, rx, rx_fin, sends, overflow, apart>>

Handle(s) ==
    \/ HandleRst(s) \/ HandleSynAck(s) \/ HandleData(s) \/ HandleFin(s)
    \/ HandleFinWait1(s) \/ HandleFinWait2(s) \/ HandleLastAck(s)

-----------------------------------------------------------------------------
(* tcp_send_segment and what follows it.  The header is filled in after    *)
(* resolve_mac, from the connection as it is then.                         *)

Waiting(j) == sends # <<>> /\ Head(sends) = j
Unchanged(v) == UNCHANGED <<v, peer, got, ended, marks>>

Transmit(j) ==
    /\ wire' = IF j \in {"syn", "data", "fin"}
               THEN wire \cup {[job |-> j, seq |-> seq, chunk |-> sent + 1]}
               ELSE wire
    /\ acked' = IF j = "syn" \/ ack <= acked THEN acked ELSE ack

(* resolve_mac fails: nothing is sent.                                     *)
NotSent == UNCHANGED <<wire, acked>>

SentSyn ==
    /\ Waiting("syn")
    /\ sends' = Tail(sends)
    /\ \/ Transmit("syn") /\ seq' = seq + 1 /\ UNCHANGED <<active, call>>
       \/ NotSent /\ active' = FALSE /\ call' = "done" /\ UNCHANGED seq
    /\ Unchanged(<<state, ack, rx, rx_fin, left, sent>>)

(* Mutant: the sequence number stays where it is.                          *)
SentDataUncounted ==
    /\ Waiting("data")
    /\ sends' = Tail(sends)
    /\ \/ Transmit("data") /\ sent' = sent + 1 /\ left' = left - 1 /\ UNCHANGED call
       \/ NotSent /\ call' = "open" /\ left' = 0 /\ UNCHANGED sent
    /\ Unchanged(<<conn>>)

(* net_tcp_send goes on with the next chunk or gives up.                   *)
SentData ==
    /\ Waiting("data")
    /\ sends' = Tail(sends)
    /\ \/ /\ Transmit("data")
          /\ seq' = seq + 1 /\ sent' = sent + 1 /\ left' = left - 1
          /\ UNCHANGED call
       \/ NotSent /\ call' = "open" /\ left' = 0 /\ UNCHANGED <<seq, sent>>
    /\ Unchanged(<<state, active, ack, rx, rx_fin>>)

SentFin ==
    /\ Waiting("fin")
    /\ sends' = Tail(sends)
    /\ Transmit("fin") \/ NotSent
    /\ seq' = seq + 1
    /\ Unchanged(<<state, active, ack, rx, rx_fin, call, left, sent>>)

SentAck ==
    /\ Waiting("ack")
    /\ sends' = Tail(sends)
    /\ Transmit("ack") \/ NotSent
    /\ Unchanged(<<conn, call, left, sent>>)

(* The FIN that came with the data, whatever has happened meanwhile.       *)
SentAckThenFin ==
    /\ Waiting("ack, then FIN")
    /\ Transmit("ack") \/ NotSent
    /\ rx_fin' = TRUE
    /\ state' = "CLOSE_WAIT"
    /\ sends' = <<"ack">> \o Tail(sends)
    /\ Unchanged(<<active, seq, ack, rx, call, left, sent>>)

SentAckThenClose ==
    /\ Waiting("ack, then close")
    /\ Transmit("ack") \/ NotSent
    /\ Drop
    /\ sends' = Tail(sends)
    /\ Unchanged(<<seq, ack, rx, rx_fin, call, left, sent>>)

Send == SentSyn \/ SentData \/ SentFin \/ SentAck \/ SentAckThenFin \/ SentAckThenClose

-----------------------------------------------------------------------------
(* The calls.                                                              *)

In(c) == call = c /\ sends = <<>>
Return(c) == call' = c /\ UNCHANGED <<seq, ack, rx_fin, left, sends, wire, acked,
                                      peer, sent, marks>>

net_tcp_connect ==
    /\ In("idle")
    /\ active' = TRUE
    /\ state' = "SYN_SENT"
    /\ call' = "connect"
    /\ sends' = <<"syn">>
    /\ UNCHANGED <<seq, ack, rx, rx_fin, left, wire, acked, peer, got, sent, ended, marks>>

Connected ==
    /\ In("connect")
    /\ state = "ESTABLISHED"
    /\ Return("open")
    /\ UNCHANGED <<state, active, rx, got, ended>>

(* Refused, or no SYN-ACK in time; a FIN before the loop looks at the      *)
(* state counts as no SYN-ACK.                                             *)
NotConnected ==
    /\ In("connect")
    /\ state # "ESTABLISHED"
    /\ Drop
    /\ Return("done")
    /\ UNCHANGED <<rx, got, ended>>

net_tcp_send(n) ==
    /\ In("open") /\ active
    /\ state = "ESTABLISHED"
    /\ sent + n <= MaxChunks
    /\ call' = "send"
    /\ left' = n
    /\ sends' = <<"data">>
    /\ UNCHANGED <<conn, wire, acked, peer, got, sent, ended, marks>>

(* The next chunk is sent without another look at the state.               *)
NextChunk ==
    /\ In("send") /\ left > 0
    /\ sends' = <<"data">>
    /\ UNCHANGED <<conn, call, left, wire, acked, peer, got, sent, ended, marks>>

SendReturns ==
    /\ In("send") /\ left = 0
    /\ Return("open")
    /\ UNCHANGED <<state, active, rx, got, ended>>

net_tcp_recv ==
    /\ In("open") /\ active
    /\ Return("recv")
    /\ UNCHANGED <<state, active, rx, got, ended>>

(* What is stored, as much as the caller's buffer takes.                   *)
RecvData(n) ==
    /\ In("recv") /\ n <= Len(rx)
    /\ got' = got \o SubSeq(rx, 1, n)
    /\ rx' = SubSeq(rx, n + 1, Len(rx))
    /\ Return("open")
    /\ UNCHANGED <<state, active, ended>>

Closed == rx_fin \/ state \in {"CLOSE_WAIT", "CLOSED"}

(* Mutant: the end is looked at before the buffer.                         *)
RecvEndFirst ==
    /\ In("recv")
    /\ Closed
    /\ ended' = (ended \/ rx_fin)
    /\ Return("open")
    /\ UNCHANGED <<state, active, rx, got>>

RecvEnd ==
    /\ In("recv") /\ rx = <<>>
    /\ Closed
    /\ ended' = (ended \/ rx_fin)
    /\ Return("open")
    /\ UNCHANGED <<state, active, rx, got>>

RecvTimeout ==
    /\ In("recv") /\ rx = <<>>
    /\ ~Closed
    /\ Return("open")
    /\ UNCHANGED <<state, active, rx, got, ended>>

net_tcp_close ==
    /\ In("open")
    /\ IF active /\ state \in {"ESTABLISHED", "CLOSE_WAIT"}
       THEN /\ state' = IF state = "ESTABLISHED" THEN "FIN_WAIT_1" ELSE "LAST_ACK"
            /\ call' = "close"
            /\ sends' = <<"fin">>
            /\ UNCHANGED active
       ELSE /\ IF active THEN Drop ELSE UNCHANGED <<state, active>>
            /\ call' = "done"
            /\ UNCHANGED sends
    /\ UNCHANGED <<seq, ack, rx, rx_fin, left, wire, acked, peer, got, sent, ended, marks>>

(* The wait for the peer is over, or the connection is.                    *)
CloseReturns ==
    /\ In("close")
    /\ Drop
    /\ Return("done")
    /\ UNCHANGED <<rx, got, ended>>

Caller ==
    \/ net_tcp_connect \/ Connected \/ NotConnected
    \/ \E n \in 1 .. MaxChunks : net_tcp_send(n)
    \/ NextChunk \/ SendReturns
    \/ net_tcp_recv \/ (\E n \in 1 .. BufSize : RecvData(n)) \/ RecvEnd \/ RecvTimeout
    \/ net_tcp_close \/ CloseReturns

-----------------------------------------------------------------------------
(* The peer (external).                                                    *)

Local == UNCHANGED <<conn, call, left, sends, wire, acked, got, sent, ended, marks>>

PeerReceives(m) ==
    /\ ~prst /\ ~peof /\ m \in wire
    /\ m.seq = prcv
    /\ prcv' = prcv + 1
    /\ plist' = IF m.job = "data" THEN Append(plist, m.chunk) ELSE plist
    /\ peof' = (peof \/ m.job = "fin")
    /\ UNCHANGED <<psent, pfin, prst, una>>
    /\ Local

PeerAcked(a) ==
    /\ ~prst /\ prcv > 0 /\ una < a
    /\ una' = a
    /\ UNCHANGED <<prcv, plist, peof, psent, pfin, prst>>
    /\ Local

(* The window is the same in every segment.                                *)
PeerSends ==
    /\ ~prst /\ ~pfin /\ una > 0
    /\ psent < MaxBytes /\ psent + 1 < una + BufSize
    /\ psent' = psent + 1
    /\ UNCHANGED <<prcv, plist, peof, pfin, prst, una>>
    /\ Local

PeerFin ==
    /\ ~prst /\ ~pfin /\ una > 0
    /\ pfin' = TRUE
    /\ UNCHANGED <<prcv, plist, peof, psent, prst, una>>
    /\ Local

PeerReset ==
    /\ ~prst /\ prcv > 0
    /\ prst' = TRUE
    /\ UNCHANGED <<prcv, plist, peof, psent, pfin, una>>
    /\ Local

Peer ==
    \/ \E m \in wire : PeerReceives(m)
    \/ \E a \in 1 .. acked : PeerAcked(a)
    \/ PeerSends \/ PeerFin \/ PeerReset

-----------------------------------------------------------------------------
Init ==
    /\ state = "CLOSED" /\ active = FALSE
    /\ seq = 0 /\ ack = 0 /\ rx = <<>> /\ rx_fin = FALSE
    /\ call = "idle" /\ left = 0 /\ sends = <<>>
    /\ wire = {} /\ acked = 0
    /\ prcv = 0 /\ plist = <<>> /\ peof = FALSE
    /\ psent = 0 /\ pfin = FALSE /\ prst = FALSE /\ una = 0
    /\ got = <<>> /\ sent = 0 /\ ended = FALSE
    /\ overflow = FALSE /\ apart = FALSE /\ nested = FALSE

Next ==
    \/ \E s \in Arriving : Handle(s)
    \/ Send \/ Caller \/ Peer
    \/ call = "done" /\ UNCHANGED vars

Spec == Init /\ [][Next]_vars

-----------------------------------------------------------------------------
(* Properties.                                                             *)

(* Types, a part of InOrder; what is stored fits the buffer.               *)
TypeOK ==
    /\ state \in States /\ active \in BOOLEAN
    /\ seq \in Nat /\ ack \in Nat
    /\ rx \in Seq(1 .. MaxBytes) /\ Len(rx) <= BufSize /\ rx_fin \in BOOLEAN
    /\ call \in Calls /\ left \in 0 .. MaxChunks /\ sends \in Seq(Jobs)
    /\ wire \subseteq [job : Jobs, seq : Nat, chunk : 1 .. MaxChunks + 1]
    /\ acked \in Nat
    /\ prcv \in Nat /\ plist \in Seq(1 .. MaxChunks) /\ peof \in BOOLEAN
    /\ psent \in 0 .. MaxBytes /\ pfin \in BOOLEAN /\ prst \in BOOLEAN /\ una \in Nat
    /\ got \in Seq(1 .. MaxBytes) /\ sent \in 0 .. MaxChunks /\ ended \in BOOLEAN
    /\ overflow \in BOOLEAN /\ apart \in BOOLEAN /\ nested \in BOOLEAN

UpTo(n) == [i \in 1 .. n |-> i]

(* Whatever the network loses, repeats or reorders, and wherever the       *)
(* handler runs, what net_tcp_recv has returned and what handle_tcp has    *)
(* stored is what the peer sent from its first byte on, each byte once,    *)
(* until bytes have not fitted the buffer; and what is stored always fits. *)
InOrder == TypeOK /\ (~overflow => got \o rx = UpTo(Len(got) + Len(rx)))

(* Once net_tcp_recv has returned 0 for the peer's FIN the caller has every *)
(* byte the peer sent, if each segment with something new has started at   *)
(* the next expected byte (the network keeps the order and the peer does   *)
(* not merge segments when it sends them again) and all bytes have fitted  *)
(* the buffer.                                                             *)
EndComplete == ended /\ ~apart /\ ~overflow => got = UpTo(psent)

(* The peer is sent the caller's chunks in order, from the first one on;   *)
(* and if no segment was handled inside tcp_send_segment, the FIN of       *)
(* net_tcp_close reaches it after all of them.                             *)
PeerComplete ==
    /\ plist = UpTo(Len(plist))
    /\ peof /\ ~nested => Len(plist) = sent

(* "next expected byte from remote" (kernel/net.c, tcp_conn.ack): what is  *)
(* acknowledged has been stored.                                           *)
NextExpected ==
    active /\ ack > 0 =>
        ack - 1 <= Len(got) + Len(rx) + (IF rx_fin THEN 1 ELSE 0)

=============================================================================
