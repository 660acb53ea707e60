----------------------------- MODULE TcpProofs -----------------------------
(***************************************************************************)
(* Theorems about Tcp, for every buffer, every segment size, every number  *)
(* of bytes and every nesting of handlers.                                 *)
(***************************************************************************)
EXTENDS Tcp, SequenceTheorems, TLAPS

-----------------------------------------------------------------------------
(* The inductive invariant.                                                *)

(* Some call of tcp_send_segment for j waits for an address.               *)
Waits(j) == \E i \in 1 .. Len(sends) : sends[i] = j

Initiated == {"syn", "data", "fin"}

(* What the caller sends waits below everything the handlers send. *)
StackInv ==
    \A i \in 1 .. Len(sends) : sends[i] \in Initiated => i = Len(sends)

(* What a state, or a waiting segment, says of the call the caller is in. *)
CallInv ==
    /\ call = "idle" =>
         /\ sends = <<>> /\ got = <<>> /\ rx = <<>>
         /\ wire = {} /\ prcv = 0 /\ seq = 0 /\ sent = 0
    /\ state = "SYN_SENT" => call \in {"connect", "done"} /\ got = <<>> /\ rx = <<>>
    /\ state = "FIN_WAIT_1" => call = "close"
    /\ Waits("syn") => call = "connect" /\ seq = 0 /\ wire = {} /\ prcv = 0
    /\ Waits("data") => call = "send" /\ left > 0
    /\ Waits("fin") => call = "close"
    /\ sent + left <= MaxChunks

(* tcp_conn.seq counts the SYN and the chunks, until the connection ends.  *)
SeqInv ==
    /\ call = "connect" => sent = 0 /\ (Waits("syn") \/ seq = 1)
    /\ call \in {"open", "send", "recv"} => seq = sent + 1
    /\ Waits("fin") /\ ~nested => seq = sent + 1

(* What has been sent to the peer: chunk k has the sequence number k.      *)
WireInv ==
    \A m \in wire :
        /\ m.job \in Initiated
        /\ m.job = "syn" => m.seq = 0
        /\ m.job = "data" => m.seq = m.chunk /\ m.chunk <= MaxChunks
        /\ m.job = "fin" => call \in {"close", "done"} /\ (~nested => m.seq = sent + 1)

(* What the peer has made of it.                                           *)
PeerInv ==
    /\ prcv = 0 => plist = <<>>
    /\ prcv > 0 /\ ~peof => prcv = Len(plist) + 1
    /\ \A i \in 1 .. Len(plist) : plist[i] = i
    /\ peof => call \in {"close", "done"} /\ (~nested => Len(plist) = sent)

(* What has come from the peer is, byte by byte, what it sent.             *)
OrderInv ==
    ~overflow =>
        /\ \A i \in 1 .. Len(got) : got[i] = i
        /\ \A i \in 1 .. Len(rx) : rx[i] = Len(got) + i
        /\ state = "ESTABLISHED" => ack = Len(got) + Len(rx) + 1

(* When the peer's FIN has been taken, everything before it has been.      *)
EndInv ==
    /\ ended => rx_fin
    /\ ~overflow /\ ~apart /\ (rx_fin \/ Waits("ack, then FIN")) =>
         pfin /\ Len(got) + Len(rx) = psent
    /\ ~overflow /\ ~apart /\ ended => rx = <<>>

IInv == TypeOK /\ StackInv /\ CallInv /\ SeqInv /\ WireInv /\ PeerInv /\ OrderInv /\ EndInv

-----------------------------------------------------------------------------
(* Lemmas about the stack of waiting segments.                             *)

LEMMA NoneWaits ==
    /\ sends = <<>> => StackInv /\ \A k : ~Waits(k)
    /\ sends' = <<>> => StackInv' /\ \A k : ~Waits(k)'
<1>1. \A i \in 1 .. Len(<<>>) : FALSE
  OBVIOUS
<1> QED BY <1>1 DEF StackInv, Waits

LEMMA OneWaits ==
    ASSUME NEW j \in Jobs, sends' = <<j>>
    PROVE  sends' \in Seq(Jobs) /\ StackInv' /\ \A k : Waits(k)' <=> k = j
<1>1. Len(sends') = 1 /\ sends'[1] = j
  OBVIOUS
<1>2. sends' \in Seq(Jobs)
  OBVIOUS
<1>3. StackInv'
  BY <1>1 DEF StackInv
<1>4. ASSUME NEW k PROVE Waits(k)' <=> k = j
  BY <1>1 DEF Waits
<1> QED BY <1>2, <1>3, <1>4

(* A handler's segment goes on top of the others.                          *)
LEMMA Pushed ==
    ASSUME sends \in Seq(Jobs), StackInv, NEW j \in Jobs \ Initiated,
           sends' = <<j>> \o sends
    PROVE  /\ sends' \in Seq(Jobs) /\ StackInv'
           /\ \A k : Waits(k)' <=> k = j \/ Waits(k)
<1>1. <<j>> \in Seq(Jobs) /\ Len(<<j>>) = 1 /\ <<j>>[1] = j
  OBVIOUS
<1>2. /\ sends' \in Seq(Jobs)
      /\ Len(sends') = Len(sends) + 1
      /\ \A i \in 1 .. Len(sends) + 1 :
           sends'[i] = IF i <= 1 THEN <<j>>[i] ELSE sends[i - 1]
  BY <1>1, ConcatProperties
<1>3. Len(sends) \in Nat
  BY LenProperties
<1>4. sends'[1] = j /\ \A i \in 1 .. Len(sends) : sends'[i + 1] = sends[i]
  BY <1>1, <1>2, <1>3
<1>5. StackInv'
  BY <1>2, <1>3, <1>4 DEF StackInv
<1>6. ASSUME NEW k PROVE Waits(k)' <=> k = j \/ Waits(k)
  <2>1. ASSUME NEW i \in 1 .. Len(sends'), sends'[i] = k PROVE k = j \/ Waits(k)
    <3>1. CASE i = 1
      BY <2>1, <3>1, <1>4
    <3>2. CASE i # 1
      <4>1. i - 1 \in 1 .. Len(sends) /\ sends[i - 1] = k
        BY <2>1, <3>2, <1>2, <1>3
      <4> QED BY <4>1 DEF Waits
    <3> QED BY <3>1, <3>2
  <2>2. ASSUME NEW i \in 1 .. Len(sends), sends[i] = k PROVE Waits(k)'
    <3>1. i + 1 \in 1 .. Len(sends') /\ sends'[i + 1] = k
      BY <2>2, <1>2, <1>3, <1>4
    <3> QED BY <3>1 DEF Waits
  <2>3. Waits(j)'
    <3>1. 1 \in 1 .. Len(sends') /\ sends'[1] = j
      BY <1>2, <1>3, <1>4
    <3> QED BY <3>1 DEF Waits
  <2> QED BY <2>1, <2>2, <2>3 DEF Waits
<1> QED BY <1>2, <1>5, <1>6

(* The segment on top is the one whose call returns next; the caller's is  *)
(* the last.                                                               *)
LEMMA Popped ==
    ASSUME sends \in Seq(Jobs), StackInv, NEW j, Waiting(j)
    PROVE  /\ j \in Jobs /\ Waits(j)
           /\ Tail(sends) \in Seq(Jobs)
           /\ \A i \in 1 .. Len(Tail(sends)) : Tail(sends)[i] = sends[i + 1]
           /\ Len(Tail(sends)) = Len(sends) - 1
           /\ j \in Initiated => Tail(sends) = <<>>
<1>1. Len(sends) \in Nat \ {0} /\ sends # <<>>
  BY EmptySeq DEF Waiting
<1>2. /\ Tail(sends) \in Seq(Jobs)
      /\ \A i \in 1 .. Len(Tail(sends)) : Tail(sends)[i] = sends[i + 1]
      /\ Len(Tail(sends)) = Len(sends) - 1
      /\ Head(sends) \in Jobs
  BY <1>1, HeadTailProperties
<1>3. sends[1] = j
  BY <1>1 DEF Waiting
<1>4. Waits(j)
  BY <1>1, <1>3 DEF Waits
<1>5. ASSUME j \in Initiated PROVE Tail(sends) = <<>>
  <2>1. Len(sends) = 1
    <3>1. 1 \in 1 .. Len(sends) /\ sends[1] \in Initiated
      BY <1>1, <1>3, <1>5
    <3> QED BY <3>1 DEF StackInv
  <2>2. Len(Tail(sends)) = 0
    BY <1>2, <2>1
  <2> QED BY <1>2, <2>2, EmptySeq
<1> QED BY <1>2, <1>4, <1>5 DEF Waiting

LEMMA Returned ==
    ASSUME sends \in Seq(Jobs), StackInv, NEW j, Waiting(j), sends' = Tail(sends)
    PROVE  /\ sends' \in Seq(Jobs) /\ StackInv'
           /\ \A k : Waits(k)' => Waits(k)
           /\ \A k : Waits(k) => k = j \/ Waits(k)'
           /\ j \in Initiated => sends' = <<>> /\ \A k : ~Waits(k)'
<1>1. Len(sends) \in Nat
  BY LenProperties
<1>2. /\ sends' \in Seq(Jobs)
      /\ \A i \in 1 .. Len(sends') : sends'[i] = sends[i + 1]
      /\ Len(sends') = Len(sends) - 1
      /\ j \in Initiated => sends' = <<>>
  BY Popped
<1>3. StackInv'
  <2> SUFFICES ASSUME NEW i \in 1 .. Len(sends'), sends'[i] \in Initiated
               PROVE  i = Len(sends')
    BY DEF StackInv
  <2>1. i + 1 \in 1 .. Len(sends) /\ sends[i + 1] \in Initiated
    BY <1>1, <1>2
  <2>2. i + 1 = Len(sends)
    BY <2>1 DEF StackInv
  <2>3. i \in Nat /\ Len(sends') = Len(sends) - 1
    BY <1>2
  <2> QED BY <1>1, <2>2, <2>3
<1>4. ASSUME NEW k, Waits(k)' PROVE Waits(k)
  <2>1. PICK i \in 1 .. Len(sends') : sends'[i] = k
    BY <1>4 DEF Waits
  <2>2. i + 1 \in 1 .. Len(sends) /\ sends[i + 1] = k
    BY <1>1, <1>2, <2>1
  <2> QED BY <2>2 DEF Waits
<1>5. ASSUME NEW k, Waits(k), k # j PROVE Waits(k)'
  <2>1. PICK i \in 1 .. Len(sends) : sends[i] = k
    BY <1>5 DEF Waits
  <2>2. i # 1
    BY <1>5, <2>1 DEF Waiting
  <2>3. i - 1 \in 1 .. Len(sends') /\ (i - 1) + 1 = i
    BY <1>1, <1>2, <2>1, <2>2
  <2>4. sends'[i - 1] = k
    BY <1>2, <2>1, <2>3
  <2> QED BY <2>3, <2>4, Zenon DEF Waits
<1>6. ASSUME sends' = <<>>, NEW k PROVE ~Waits(k)'
  BY <1>6, NoneWaits
<1> QED BY <1>2, <1>3, <1>4, <1>5, <1>6

(* The acknowledgement of a FIN that came with data follows that data's.   *)
LEMMA Replaced ==
    ASSUME sends \in Seq(Jobs), StackInv, NEW j, Waiting(j),
           sends' = <<"ack">> \o Tail(sends)
    PROVE  /\ sends' \in Seq(Jobs) /\ StackInv'
           /\ \A k : Waits(k)' => k = "ack" \/ Waits(k)
           /\ \A k : Waits(k) => k = j \/ Waits(k)'
<1>1. Len(sends) \in Nat
  BY LenProperties
<1>2. /\ Tail(sends) \in Seq(Jobs)
      /\ \A i \in 1 .. Len(Tail(sends)) : Tail(sends)[i] = sends[i + 1]
      /\ Len(Tail(sends)) = Len(sends) - 1
  BY Popped
<1>3. <<"ack">> \in Seq(Jobs) /\ Len(<<"ack">>) = 1 /\ <<"ack">>[1] = "ack"
  <2>1. "ack" \in Jobs
    BY DEF Jobs
  <2> QED BY <2>1
<1>4. /\ sends' \in Seq(Jobs)
      /\ Len(sends') = Len(sends)
      /\ \A i \in 1 .. Len(sends) :
           sends'[i] = IF i <= 1 THEN <<"ack">>[i] ELSE Tail(sends)[i - 1]
  BY <1>1, <1>2, <1>3, ConcatProperties
<1>5. \A i \in 1 .. Len(sends) : sends'[i] = IF i = 1 THEN "ack" ELSE sends[i]
  BY <1>1, <1>2, <1>3, <1>4
<1>6. StackInv'
  BY <1>1, <1>4, <1>5 DEF StackInv, Initiated
<1>7. ASSUME NEW k, Waits(k)' PROVE k = "ack" \/ Waits(k)
  BY <1>4, <1>5, <1>7 DEF Waits
<1>8. ASSUME NEW k, Waits(k), k # j PROVE Waits(k)'
  <2>1. PICK i \in 1 .. Len(sends) : sends[i] = k
    BY <1>8 DEF Waits
  <2>2. i # 1
    BY <1>8, <2>1 DEF Waiting
  <2> QED BY <1>4, <1>5, <2>1, <2>2 DEF Waits
<1> QED BY <1>4, <1>6, <1>7, <1>8

LEMMA Kept ==
    ASSUME StackInv, sends' = sends
    PROVE  StackInv' /\ \A k : Waits(k)' <=> Waits(k)
BY DEF StackInv, Waits

-----------------------------------------------------------------------------
(* Lemmas about the segments that may arrive.                              *)

(* Data lies within what the peer has sent, a FIN is behind all of it, and *)
(* the peer's SYN answers one.                                             *)
FromPeer(s) ==
    /\ s.seq \in Nat /\ s.len \in Nat /\ s.ack \in Nat
    /\ s.len > 0 => s.seq > 0 /\ s.seq + s.len <= psent + 1
    /\ s.fin => pfin /\ s.seq + s.len = psent + 1
    /\ s.syn => prcv > 0 /\ s.seq = 0 /\ s.ack = 1 /\ ~s.fin /\ s.len = 0

LEMMA ArrivingSegment ==
    ASSUME TypeOK, NEW s \in Arriving
    PROVE  FromPeer(s)
<1>1. psent \in Nat /\ prcv \in Nat /\ MaxSeg \in Nat
  BY TcpAssumption DEF TypeOK
<1>2. \A a \in Acknowledged : a \in Nat
  BY <1>1 DEF Acknowledged
<1>3. ASSUME s \in {r \in {SynAck} : prcv > 0} \cup {r \in {Rst} : prst}
      PROVE  FromPeer(s)
  BY <1>1, <1>3 DEF SynAck, Rst, FromPeer
<1>4. ASSUME NEW a \in Acknowledged,
             s \in {Segment(r[1], r[2] - r[1] + 1, FALSE, a) : r \in Runs}
      PROVE  FromPeer(s)
  <2>1. PICK r \in Runs : s = Segment(r[1], r[2] - r[1] + 1, FALSE, a)
    BY <1>4
  <2>2. r[1] \in 1 .. psent /\ r[2] \in 1 .. psent /\ r[1] <= r[2]
    BY <2>1 DEF Runs
  <2>3. /\ ~s.syn /\ ~s.fin /\ s.ack = a
        /\ s.seq = r[1] /\ s.len = r[2] - r[1] + 1
    BY <2>1 DEF Segment
  <2> QED BY <1>1, <1>2, <2>2, <2>3 DEF FromPeer
<1>5. ASSUME NEW a \in Acknowledged,
             s \in {Segment(psent + 1 - n, n, TRUE, a) :
                      n \in {k \in 0 .. Least(psent, MaxSeg) : pfin}}
      PROVE  FromPeer(s)
  <2>1. PICK n \in {k \in 0 .. Least(psent, MaxSeg) : pfin} :
          s = Segment(psent + 1 - n, n, TRUE, a)
    BY <1>5
  <2>2. n \in 0 .. psent /\ pfin
    BY <1>1, <2>1 DEF Least
  <2>3. ~s.syn /\ s.ack = a /\ s.seq = psent + 1 - n /\ s.len = n
    BY <2>1 DEF Segment
  <2> QED BY <1>1, <1>2, <2>2, <2>3 DEF FromPeer
<1>6. ASSUME NEW a \in Acknowledged, s = Segment(psent + 1, 0, FALSE, a)
      PROVE  FromPeer(s)
  <2>1. ~s.syn /\ ~s.fin /\ s.ack = a /\ s.seq = psent + 1 /\ s.len = 0
    BY <1>6 DEF Segment
  <2> QED BY <1>1, <1>2, <2>1 DEF FromPeer
<1>7. ASSUME NEW a \in Acknowledged, s \in Acknowledging(a)
      PROVE  FromPeer(s)
  BY <1>4, <1>5, <1>6, <1>7 DEF Acknowledging
<1> QED BY <1>3, <1>7 DEF Arriving

-----------------------------------------------------------------------------
(* Lemmas about the receive buffer.                                        *)

(* What handle_tcp appends.                                                *)
LEMMA Stored ==
    ASSUME NEW q \in Seq(1 .. MaxBytes), NEW k \in Nat \ {0}, NEW n \in Nat,
           k + n <= MaxBytes + 1
    PROVE  LET t == q \o [i \in 1 .. n |-> k + i - 1]
           IN  /\ t \in Seq(1 .. MaxBytes) /\ Len(t) = Len(q) + n
               /\ \A i \in 1 .. Len(q) : t[i] = q[i]
               /\ \A i \in Len(q) + 1 .. Len(q) + n : t[i] = k + (i - Len(q)) - 1
<1> DEFINE u == [i \in 1 .. n |-> k + i - 1]
<1>1. MaxBytes \in Nat /\ Len(q) \in Nat
  BY TcpAssumption, LenProperties
<1>2. \A i \in 1 .. n : k + i - 1 \in 1 .. MaxBytes
  BY <1>1
<1>3. u \in Seq(1 .. MaxBytes) /\ Len(u) = n /\ \A i \in 1 .. n : u[i] = k + i - 1
  BY <1>2
<1> HIDE DEF u
<1>4. /\ q \o u \in Seq(1 .. MaxBytes) /\ Len(q \o u) = Len(q) + n
      /\ \A i \in 1 .. Len(q) + n :
           (q \o u)[i] = IF i <= Len(q) THEN q[i] ELSE u[i - Len(q)]
  BY <1>3, ConcatProperties
<1>5. \A i \in 1 .. Len(q) : (q \o u)[i] = q[i]
  BY <1>1, <1>4
<1>6. ASSUME NEW i \in Len(q) + 1 .. Len(q) + n
      PROVE  (q \o u)[i] = k + (i - Len(q)) - 1
  <2>1. i \in 1 .. Len(q) + n /\ ~(i <= Len(q)) /\ i - Len(q) \in 1 .. n
    BY <1>1
  <2> QED BY <1>3, <1>4, <2>1
<1> QED BY <1>4, <1>5, <1>6 DEF u

(* What net_tcp_recv takes from the front.                                 *)
LEMMA Taken ==
    ASSUME TypeOK, NEW n \in Nat, n <= Len(rx),
           got' = got \o SubSeq(rx, 1, n), rx' = SubSeq(rx, n + 1, Len(rx))
    PROVE  /\ got' \in Seq(1 .. MaxBytes) /\ rx' \in Seq(1 .. MaxBytes)
           /\ Len(got') = Len(got) + n /\ Len(rx') = Len(rx) - n
           /\ \A i \in 1 .. Len(got) : got'[i] = got[i]
           /\ \A i \in Len(got) + 1 .. Len(got) + n : got'[i] = rx[i - Len(got)]
           /\ \A i \in 1 .. Len(rx) - n : rx'[i] = rx[n + i]
<1>1. /\ rx \in Seq(1 .. MaxBytes) /\ got \in Seq(1 .. MaxBytes)
      /\ Len(rx) \in Nat /\ Len(got) \in Nat
      /\ \A i \in 1 .. Len(rx) : rx[i] \in 1 .. MaxBytes
  BY LenProperties, ElementOfSeq DEF TypeOK
<1>2. /\ SubSeq(rx, 1, n) \in Seq(1 .. MaxBytes)
      /\ Len(SubSeq(rx, 1, n)) = n
      /\ \A i \in 1 .. n : SubSeq(rx, 1, n)[i] = rx[i]
  <2>1. \A i \in 1 .. n : rx[i] \in 1 .. MaxBytes
    BY <1>1
  <2> QED BY <1>1, <2>1
<1>3. /\ rx' \in Seq(1 .. MaxBytes) /\ Len(rx') = Len(rx) - n
      /\ \A i \in 1 .. Len(rx) - n : rx'[i] = rx[n + i]
  <2>1. \A i \in n + 1 .. Len(rx) : rx[i] \in 1 .. MaxBytes
    BY <1>1
  <2> QED BY <1>1, <2>1
<1>4. /\ got' \in Seq(1 .. MaxBytes) /\ Len(got') = Len(got) + n
      /\ \A i \in 1 .. Len(got) + n :
           got'[i] = IF i <= Len(got) THEN got[i] ELSE SubSeq(rx, 1, n)[i - Len(got)]
  BY <1>1, <1>2, ConcatProperties
<1>5. \A i \in 1 .. Len(got) : got'[i] = got[i]
  BY <1>1, <1>4
<1>6. ASSUME NEW i \in Len(got) + 1 .. Len(got) + n
      PROVE  got'[i] = rx[i - Len(got)]
  <2>1. i \in 1 .. Len(got) + n /\ ~(i <= Len(got)) /\ i - Len(got) \in 1 .. n
    BY <1>1
  <2> QED BY <1>2, <1>4, <2>1
<1> QED BY <1>3, <1>4, <1>5, <1>6

-----------------------------------------------------------------------------
(* The initial states, and the types.                                      *)

DataTypes ==
    /\ state \in States /\ seq \in Nat /\ ack \in Nat
    /\ rx \in Seq(1 .. MaxBytes) /\ Len(rx) <= BufSize
    /\ call \in Calls /\ left \in 0 .. MaxChunks /\ sends \in Seq(Jobs)
    /\ wire \subseteq [job : Jobs, seq : Nat, chunk : 1 .. MaxChunks + 1]
    /\ acked \in Nat
    /\ prcv \in Nat /\ plist \in Seq(1 .. MaxChunks)
    /\ psent \in 0 .. MaxBytes /\ una \in Nat
    /\ got \in Seq(1 .. MaxBytes) /\ sent \in 0 .. MaxChunks

FlagTypes ==
    /\ active \in BOOLEAN /\ rx_fin \in BOOLEAN /\ ended \in BOOLEAN
    /\ peof \in BOOLEAN /\ pfin \in BOOLEAN /\ prst \in BOOLEAN
    /\ overflow \in BOOLEAN /\ apart \in BOOLEAN /\ nested \in BOOLEAN

LEMMA Types ==
    /\ TypeOK <=> DataTypes /\ FlagTypes
    /\ TypeOK' <=> DataTypes' /\ FlagTypes'
BY Zenon DEF TypeOK, DataTypes, FlagTypes

LEMMA InitInv == Init => IInv
<1> SUFFICES ASSUME Init PROVE IInv
  OBVIOUS
<1>1. TypeOK
  <2>1. DataTypes
    BY TcpAssumption DEF Init, DataTypes, States, Calls
  <2>2. FlagTypes
    BY Zenon DEF Init, FlagTypes
  <2> QED BY <2>1, <2>2, Types
<1>2. /\ sends = <<>> /\ got = <<>> /\ rx = <<>> /\ plist = <<>> /\ wire = {}
      /\ Len(sends) = 0
  BY DEF Init
<1>3. \A j : ~Waits(j)
  BY <1>2 DEF Waits
<1>4. CallInv /\ SeqInv
  BY <1>3, TcpAssumption DEF Init, CallInv, SeqInv
<1>5. StackInv /\ WireInv /\ PeerInv
  BY <1>2 DEF Init, StackInv, WireInv, PeerInv
<1>6. OrderInv
  BY <1>2 DEF Init, OrderInv
<1>7. EndInv
  BY <1>3 DEF Init, EndInv
<1> QED BY <1>1, <1>4, <1>5, <1>6, <1>7 DEF IInv

(* What HandleData stores. *)
LEMMA DataStored ==
    ASSUME IInv, NEW s \in Arriving, HandleData(s)
    PROVE  \E n \in Nat :
             /\ n <= s.len /\ Len(rx) + n <= BufSize
             /\ ~overflow' => n = s.len
             /\ rx' \in Seq(1 .. MaxBytes) /\ Len(rx') = Len(rx) + n
             /\ \A i \in 1 .. Len(rx) : rx'[i] = rx[i]
             /\ \A i \in Len(rx) + 1 .. Len(rx) + n : rx'[i] = s.seq + (i - Len(rx)) - 1
<1> DEFINE n == Least(s.len, BufSize - Len(rx))
<1>1. FromPeer(s) /\ s.len > 0
  BY ArrivingSegment DEF IInv, HandleData
<1>2. /\ rx \in Seq(1 .. MaxBytes) /\ Len(rx) \in Nat /\ Len(rx) <= BufSize
      /\ BufSize \in Nat /\ psent \in Nat /\ psent <= MaxBytes /\ MaxBytes \in Nat
  BY TcpAssumption, LenProperties DEF IInv, TypeOK
<1>3. /\ n \in Nat /\ n <= s.len /\ Len(rx) + n <= BufSize
      /\ s.seq \in Nat \ {0} /\ s.seq + n <= MaxBytes + 1
  BY <1>1, <1>2 DEF Least, FromPeer
<1>4. rx' = rx \o [i \in 1 .. n |-> s.seq + i - 1]
  BY DEF HandleData
<1>5. ~overflow' => n = s.len
  <2>1. ASSUME ~overflow' PROVE ~(n < s.len)
    BY <2>1 DEF HandleData
  <2> QED BY <1>1, <1>3, <2>1 DEF FromPeer
<1> HIDE DEF n
<1>6. /\ rx' \in Seq(1 .. MaxBytes) /\ Len(rx') = Len(rx) + n
      /\ \A i \in 1 .. Len(rx) : rx'[i] = rx[i]
      /\ \A i \in Len(rx) + 1 .. Len(rx) + n : rx'[i] = s.seq + (i - Len(rx)) - 1
  <2> DEFINE t == rx \o [i \in 1 .. n |-> s.seq + i - 1]
  <2>1. n \in Nat /\ s.seq \in Nat \ {0} /\ s.seq + n <= MaxBytes + 1
    BY <1>3
  <2>2. /\ t \in Seq(1 .. MaxBytes) /\ Len(t) = Len(rx) + n
        /\ \A i \in 1 .. Len(rx) : t[i] = rx[i]
        /\ \A i \in Len(rx) + 1 .. Len(rx) + n : t[i] = s.seq + (i - Len(rx)) - 1
    BY <1>2, <2>1, Stored, Zenon
  <2> QED BY <1>4, <2>2
<1> QED BY <1>3, <1>5, <1>6

-----------------------------------------------------------------------------
(* handle_tcp.                                                             *)

(* A handler leaves the caller's segments where they are, and only data    *)
(* with a FIN leaves the FIN for later.                                    *)
LEMMA HandleStack ==
    ASSUME IInv, NEW s \in Arriving, Handle(s)
    PROVE  /\ sends' \in Seq(Jobs) /\ StackInv'
           /\ \A j \in Initiated : Waits(j)' <=> Waits(j)
           /\ Waits("ack, then FIN")' =>
                Waits("ack, then FIN") \/ (HandleData(s) /\ s.fin)
<1> DEFINE F == "ack, then FIN"
<1>1. sends \in Seq(Jobs) /\ StackInv
  BY DEF IInv, TypeOK
<1>2. /\ {"ack", F, "ack, then close"} \subseteq Jobs \ Initiated
      /\ F # "ack" /\ F # "ack, then close"
  BY DEF Jobs, Initiated
<1> HIDE DEF F
<1>3. ASSUME sends' = sends
      PROVE  /\ sends' \in Seq(Jobs) /\ StackInv'
             /\ \A j : Waits(j)' <=> Waits(j)
  BY <1>1, <1>3, Kept
<1>4. ASSUME NEW k \in {"ack", F, "ack, then close"}, sends' = <<k>> \o sends
      PROVE  /\ sends' \in Seq(Jobs) /\ StackInv'
             /\ \A j \in Initiated : Waits(j)' <=> Waits(j)
             /\ Waits(F)' => Waits(F) \/ k = F
  <2>1. k \in Jobs \ Initiated
    BY <1>2
  <2> QED BY <1>1, <1>4, <2>1, Pushed
<1>5. CASE sends' = sends
  BY <1>3, <1>5 DEF F
<1>6. CASE sends' = <<"ack">> \o sends
  BY <1>2, <1>4, <1>6 DEF F
<1>7. CASE sends' = <<"ack, then close">> \o sends
  BY <1>2, <1>4, <1>7 DEF F
<1>8. CASE HandleData(s) /\ s.fin /\ sends' = <<F>> \o sends
  BY <1>4, <1>8 DEF F
<1>9. \/ sends' = sends \/ sends' = <<"ack">> \o sends
      \/ sends' = <<"ack, then close">> \o sends
      \/ HandleData(s) /\ s.fin /\ sends' = <<F>> \o sends
  <2>1. CASE HandleData(s)
    BY <2>1 DEF HandleData, F
  <2>2. CASE \/ HandleRst(s) \/ HandleSynAck(s) \/ HandleFin(s)
             \/ HandleFinWait1(s) \/ HandleFinWait2(s) \/ HandleLastAck(s)
    BY <2>2 DEF HandleRst, HandleSynAck, HandleFin, HandleFinWait1, HandleFinWait2,
       HandleLastAck
  <2> QED BY <2>1, <2>2 DEF Handle
<1> QED BY <1>5, <1>6, <1>7, <1>8, <1>9

LEMMA HandleTypes ==
    ASSUME IInv, NEW s \in Arriving, Handle(s)
    PROVE  TypeOK'
<1>1. DataTypes /\ FlagTypes /\ FromPeer(s) /\ sends' \in Seq(Jobs)
  BY HandleStack, ArrivingSegment, Types DEF IInv
<1>2. seq \in Nat /\ ack \in Nat /\ state \in States /\ s.seq \in Nat /\ s.ack \in Nat
  BY <1>1 DEF DataTypes, FromPeer
<1>3. CASE HandleRst(s)
  <2>1. DataTypes'
    BY <1>1, <1>3 DEF HandleRst, Handler, Drop, DataTypes, States, peer
  <2>2. FlagTypes'
    BY <1>1, <1>3, Zenon DEF HandleRst, Handler, Drop, FlagTypes, peer
  <2> QED BY <2>1, <2>2, Types
<1>4. CASE HandleSynAck(s)
  <2>1. DataTypes'
    BY <1>1, <1>4 DEF HandleSynAck, Handler, FromPeer, DataTypes, States, peer
  <2>2. FlagTypes'
    BY <1>1, <1>4, Zenon DEF HandleSynAck, Handler, FlagTypes, peer
  <2> QED BY <2>1, <2>2, Types
<1>5. CASE HandleData(s)
  <2>1. rx' \in Seq(1 .. MaxBytes) /\ Len(rx') <= BufSize
    BY <1>5, DataStored
  <2>2. DataTypes'
    <3>1. ack' = s.seq + s.len /\ UNCHANGED <<state, seq>>
      BY <1>5, Zenon DEF HandleData
    <3>2. UNCHANGED <<call, left, wire, acked, peer, got, sent>>
      BY <1>5, Zenon DEF HandleData, Handler
    <3>3. ack' \in Nat
      BY <1>1, <3>1 DEF FromPeer
    <3>4. UNCHANGED <<state, seq>>
      BY <3>1
    <3> QED BY <1>1, <2>1, <3>2, <3>3, <3>4 DEF DataTypes, peer
  <2>3. FlagTypes'
    BY <1>1, <1>5, Zenon DEF HandleData, Handler, Arrives, FlagTypes, peer
  <2> QED BY <2>2, <2>3, Types
<1>6. CASE HandleFin(s)
  <2>1. DataTypes'
    <3>1. UNCHANGED <<seq, rx, call, left, wire, acked, peer, got, sent>>
      BY <1>6, Zenon DEF HandleFin, Handler
    <3>2. ack' \in Nat /\ state' \in States
      BY <1>2, <1>6 DEF HandleFin, States
    <3> QED BY <1>1, <3>1, <3>2 DEF DataTypes, peer
  <2>2. FlagTypes'
    BY <1>1, <1>6, Zenon DEF HandleFin, Handler, Arrives, FlagTypes, peer
  <2> QED BY <2>1, <2>2, Types
<1>7. CASE HandleFinWait1(s)
  <2>1. DataTypes'
    <3>1. /\ ack' = s.seq + 1 \/ ack' = ack
          /\ seq' = s.ack \/ seq' = seq
          /\ state' \in {"TIME_WAIT", "FIN_WAIT_2"} \/ state' = state
      BY <1>7 DEF HandleFinWait1
    <3>2. UNCHANGED <<call, left, wire, acked, peer, got, sent, rx>>
      BY <1>7, Zenon DEF HandleFinWait1, Handler
    <3>3. ack' \in Nat /\ seq' \in Nat /\ state' \in States
      BY <1>2, <3>1 DEF States
    <3> QED BY <1>1, <3>2, <3>3 DEF DataTypes, peer
  <2>2. FlagTypes'
    BY <1>1, <1>7, Zenon DEF HandleFinWait1, Handler, FlagTypes, peer
  <2> QED BY <2>1, <2>2, Types
<1>8. CASE HandleFinWait2(s)
  <2>1. DataTypes'
    <3>1. /\ ack' = s.seq + 1 \/ ack' = ack
          /\ seq' = s.ack \/ seq' = seq
          /\ state' \in {"TIME_WAIT", "FIN_WAIT_2"} \/ state' = state
      BY <1>8 DEF HandleFinWait2
    <3>2. UNCHANGED <<call, left, wire, acked, peer, got, sent, rx>>
      BY <1>8, Zenon DEF HandleFinWait2, Handler
    <3>3. ack' \in Nat /\ seq' \in Nat /\ state' \in States
      BY <1>2, <3>1 DEF States
    <3> QED BY <1>1, <3>2, <3>3 DEF DataTypes, peer
  <2>2. FlagTypes'
    BY <1>1, <1>8, Zenon DEF HandleFinWait2, Handler, FlagTypes, peer
  <2> QED BY <2>1, <2>2, Types
<1>9. CASE HandleLastAck(s)
  <2>1. DataTypes'
    BY <1>1, <1>9 DEF HandleLastAck, Handler, Drop, DataTypes, States, peer
  <2>2. FlagTypes'
    BY <1>1, <1>9, Zenon DEF HandleLastAck, Handler, Drop, FlagTypes, peer
  <2> QED BY <2>1, <2>2, Types
<1> QED BY <1>3, <1>4, <1>5, <1>6, <1>7, <1>8, <1>9 DEF Handle

(* What every handler leaves alone.                                        *)
LEMMA HandleFrame ==
    ASSUME IInv, NEW s \in Arriving, Handle(s)
    PROVE  /\ active /\ call # "idle"
           /\ UNCHANGED <<call, left, wire, acked, peer, got, sent, ended>>
           /\ ~nested' => ~nested /\ sends = <<>>
<1>1. Handler(s)
  BY DEF Handle, HandleRst, HandleSynAck, HandleData, HandleFin, HandleFinWait1,
     HandleFinWait2, HandleLastAck
<1>2. call # "idle"
  BY <1>1 DEF Handler, Polling, IInv, CallInv
<1> QED BY <1>1, <1>2 DEF Handler

(* How a handler moves the state and the caller's sequence number.         *)
LEMMA HandleMoves ==
    ASSUME IInv, NEW s \in Arriving, Handle(s)
    PROVE  /\ state' = state \/ state' \in {"CLOSED", "CLOSE_WAIT", "FIN_WAIT_2", "TIME_WAIT"}
                \/ (HandleSynAck(s) /\ state' = "ESTABLISHED")
           /\ seq' = seq \/ call = "close"
                \/ (call \in {"connect", "done"} /\ seq' = 1 /\ prcv > 0)
           /\ rx' = rx \/ state = "ESTABLISHED"
<1>1. FromPeer(s)
  BY ArrivingSegment DEF IInv
<1>2. CASE HandleSynAck(s)
  BY <1>1, <1>2 DEF HandleSynAck, FromPeer, IInv, CallInv
<1>3. CASE HandleFinWait1(s)
  BY <1>3 DEF HandleFinWait1, IInv, CallInv
<1>4. CASE HandleData(s) \/ HandleFin(s)
  BY <1>4 DEF HandleData, HandleFin, Arrives
<1>5. CASE HandleRst(s) \/ HandleFinWait2(s) \/ HandleLastAck(s)
  BY <1>5 DEF HandleRst, HandleFinWait2, HandleLastAck, Drop
<1> QED BY <1>2, <1>3, <1>4, <1>5 DEF Handle

LEMMA HandleControl ==
    ASSUME IInv, NEW s \in Arriving, Handle(s)
    PROVE  CallInv' /\ SeqInv' /\ WireInv' /\ PeerInv'
<1>1. /\ call # "idle" /\ call' = call /\ left' = left /\ wire' = wire
      /\ got' = got /\ sent' = sent /\ prcv' = prcv /\ plist' = plist /\ peof' = peof
      /\ ~nested' => ~nested
      /\ ~nested' => sends = <<>>
  BY HandleFrame DEF peer
<1>2. \A j \in Initiated : Waits(j)' <=> Waits(j)
  BY HandleStack
<1>3. CallInv /\ SeqInv /\ WireInv /\ PeerInv
  BY DEF IInv
<1>4. /\ "syn" \in Initiated /\ "data" \in Initiated /\ "fin" \in Initiated
  BY DEF Initiated
<1>5. /\ Waits("syn")' <=> Waits("syn")
      /\ Waits("data")' <=> Waits("data")
      /\ Waits("fin")' <=> Waits("fin")
  BY <1>2, <1>4
<1>6. state' \in {"SYN_SENT", "FIN_WAIT_1"} => state' = state /\ rx' = rx
  BY HandleMoves
<1>7. Waits("syn") => seq' = seq
  BY <1>3, HandleMoves DEF CallInv
<1>8. CallInv'
  BY <1>1, <1>3, <1>5, <1>6, <1>7 DEF CallInv
<1>9. SeqInv'
  <2>1. call \in {"open", "send", "recv"} => seq' = seq
    BY HandleMoves
  <2>2. call = "connect" => seq' = seq \/ seq' = 1
    BY HandleMoves
  <2>3. ~nested' => ~Waits("fin")
    <3>1. sends = <<>> => ~Waits("fin")
      BY DEF Waits
    <3> QED BY <1>1, <3>1
  <2> QED BY <1>1, <1>3, <1>5, <2>1, <2>2, <2>3 DEF SeqInv
<1>10. WireInv'
  BY <1>1, <1>3 DEF WireInv
<1>11. PeerInv'
  BY <1>1, <1>3 DEF PeerInv
<1> QED BY <1>8, <1>9, <1>10, <1>11

(* Data is taken at the next expected byte only, and the first byte is     *)
(* expected when the peer's SYN has come.                                  *)
LEMMA HandleOrder ==
    ASSUME IInv, NEW s \in Arriving, Handle(s)
    PROVE  OrderInv'
<1>1. FromPeer(s) /\ got' = got
  BY ArrivingSegment, HandleFrame DEF IInv
<1>2. Len(rx) \in Nat /\ Len(got) \in Nat
  BY LenProperties DEF IInv, TypeOK
<1>3. CASE HandleSynAck(s)
  <2>1. got' = <<>> /\ rx' = <<>> /\ ack' = 1
    BY <1>1, <1>3 DEF HandleSynAck, FromPeer, IInv, CallInv
  <2> QED BY <2>1 DEF OrderInv
<1>4. CASE HandleData(s)
  <2> SUFFICES ASSUME ~overflow' PROVE OrderInv'
    BY DEF OrderInv
  <2>1. PICK n \in Nat :
          /\ n = s.len /\ Len(rx') = Len(rx) + n
          /\ \A i \in 1 .. Len(rx) : rx'[i] = rx[i]
          /\ \A i \in Len(rx) + 1 .. Len(rx) + n : rx'[i] = s.seq + (i - Len(rx)) - 1
    BY <1>4, DataStored
  <2>2. ~overflow /\ state = "ESTABLISHED" /\ s.seq = ack /\ ack' = s.seq + s.len
    BY <1>4 DEF HandleData, Arrives
  <2>3. /\ \A i \in 1 .. Len(got) : got[i] = i
        /\ \A i \in 1 .. Len(rx) : rx[i] = Len(got) + i
        /\ ack = Len(got) + Len(rx) + 1
    BY <2>2 DEF IInv, OrderInv
  <2>4. ack' = Len(got) + Len(rx') + 1
    BY <1>2, <2>1, <2>2, <2>3
  <2>5. ASSUME NEW i \in 1 .. Len(rx') PROVE rx'[i] = Len(got) + i
    <3>1. CASE i <= Len(rx)
      <4>1. i \in 1 .. Len(rx)
        BY <1>2, <2>1, <3>1
      <4> QED BY <2>1, <2>3, <4>1
    <3>2. CASE ~(i <= Len(rx))
      <4>1. i \in Len(rx) + 1 .. Len(rx) + n
        BY <1>2, <2>1, <3>2
      <4>2. rx'[i] = s.seq + (i - Len(rx)) - 1
        BY <2>1, <4>1
      <4> QED BY <1>2, <2>2, <2>3, <4>1, <4>2
    <3> QED BY <3>1, <3>2
  <2> QED BY <1>1, <2>3, <2>4, <2>5 DEF OrderInv
<1>5. CASE \/ HandleRst(s) \/ HandleFin(s) \/ HandleFinWait1(s)
           \/ HandleFinWait2(s) \/ HandleLastAck(s)
  <2>1. rx' = rx /\ overflow' = overflow /\ state' # "ESTABLISHED"
    BY <1>5 DEF HandleRst, HandleFin, HandleFinWait1, HandleFinWait2, HandleLastAck, Drop
  <2> QED BY <1>1, <2>1 DEF OrderInv, IInv
<1> QED BY <1>3, <1>4, <1>5 DEF Handle

(* A FIN is taken behind the last byte.                                    *)
LEMMA HandleEnd ==
    ASSUME IInv, NEW s \in Arriving, Handle(s)
    PROVE  EndInv'
<1> DEFINE F == "ack, then FIN"
<1>1. /\ FromPeer(s) /\ got' = got /\ ended' = ended
      /\ psent' = psent /\ pfin' = pfin
  BY ArrivingSegment, HandleFrame DEF IInv, peer
<1>2. Len(rx) \in Nat /\ Len(got) \in Nat /\ psent \in Nat
  BY LenProperties DEF IInv, TypeOK
<1>3. Waits(F)' => Waits(F) \/ (HandleData(s) /\ s.fin)
  BY HandleStack
<1> HIDE DEF F
<1>4. EndInv
  BY DEF IInv
<1>5. CASE HandleData(s)
  <2>1. /\ state = "ESTABLISHED" /\ s.seq = ack /\ s.len > 0
        /\ rx_fin' = rx_fin
        /\ ~overflow' => ~overflow
        /\ ~apart' => ~apart
    BY <1>5 DEF HandleData, Arrives
  <2>2. s.seq + s.len <= psent + 1 /\ s.len \in Nat
    BY <1>1, <2>1 DEF FromPeer
  <2>3. ~overflow => ack = Len(got) + Len(rx) + 1
    BY <2>1 DEF IInv, OrderInv
  <2>4. ~overflow /\ ~apart => ~(rx_fin \/ Waits(F))
    <3>1. ASSUME ~overflow, ~apart, rx_fin \/ Waits(F) PROVE FALSE
      <4>1. Len(got) + Len(rx) = psent
        BY <1>4, <3>1 DEF EndInv, F
      <4>2. ack = Len(got) + Len(rx) + 1
        BY <2>3, <3>1
      <4> QED BY <1>2, <2>1, <2>2, <4>1, <4>2
    <3> QED BY <3>1
  <2>5. ASSUME ~overflow', ~apart', rx_fin' \/ Waits(F)'
        PROVE  pfin' /\ Len(got') + Len(rx') = psent'
    <3>1. s.fin
      BY <1>3, <2>1, <2>4, <2>5
    <3>2. pfin /\ s.seq + s.len = psent + 1
      BY <1>1, <3>1 DEF FromPeer
    <3>3. Len(rx') = Len(rx) + s.len
      BY <1>5, <2>5, DataStored
    <3>4. Len(got) + Len(rx') = psent
      <4>1. /\ s.seq = Len(got) + Len(rx) + 1 /\ s.seq + s.len = psent + 1
            /\ Len(rx') = Len(rx) + s.len /\ s.len \in Nat
        BY <2>1, <2>2, <2>3, <2>5, <3>2, <3>3
      <4> QED BY <1>2, <4>1
    <3> QED BY <1>1, <3>2, <3>4
  <2>6. ended' => rx_fin'
    BY <1>1, <1>4, <2>1 DEF EndInv
  <2>7. ~(~overflow' /\ ~apart' /\ ended')
    BY <1>1, <1>4, <2>1, <2>4 DEF EndInv
  <2> QED BY <2>5, <2>6, <2>7 DEF EndInv, F
<1>6. CASE HandleFin(s)
  <2>1. /\ state = "ESTABLISHED" /\ s.fin /\ rx_fin' = TRUE
        /\ rx' = rx /\ overflow' = overflow
        /\ ~apart' => ~apart /\ s.seq = ack
        /\ ~(s.len > 0 /\ s.seq = ack)
    BY <1>6 DEF HandleFin, Arrives
  <2>2. pfin /\ s.seq + s.len = psent + 1 /\ s.len \in Nat /\ s.seq \in Nat
    BY <1>1, <2>1 DEF FromPeer
  <2>3. ~overflow => ack = Len(got) + Len(rx) + 1
    BY <2>1 DEF IInv, OrderInv
  <2>4. ASSUME ~overflow', ~apart'
        PROVE  pfin' /\ Len(got') + Len(rx') = psent'
    <3>1. Len(got) + Len(rx) = psent
      BY <1>2, <2>1, <2>2, <2>3, <2>4
    <3> QED BY <1>1, <2>1, <2>2, <3>1
  <2>5. ~overflow' /\ ~apart' /\ ended' => rx' = <<>>
    BY <1>1, <1>4, <2>1 DEF EndInv
  <2> QED BY <2>1, <2>4, <2>5 DEF EndInv
<1>7. CASE ~HandleData(s) /\ ~HandleFin(s)
  <2>1. UNCHANGED <<rx, rx_fin, overflow, apart>>
    BY <1>7 DEF Handle, HandleRst, HandleSynAck, HandleFinWait1, HandleFinWait2,
       HandleLastAck
  <2>2. Waits(F)' => Waits(F)
    BY <1>3, <1>7
  <2> QED BY <1>1, <1>4, <2>1, <2>2 DEF EndInv, F
<1> QED BY <1>5, <1>6, <1>7

-----------------------------------------------------------------------------
(* tcp_send_segment and what follows it.                                   *)

Messages == [job : Jobs, seq : Nat, chunk : 1 .. MaxChunks + 1]

LEMMA TransmitTypes ==
    ASSUME TypeOK, NEW j \in Jobs, Transmit(j) \/ NotSent
    PROVE  wire' \subseteq Messages /\ acked' \in Nat
<1>1. /\ wire \subseteq Messages /\ acked \in Nat /\ ack \in Nat /\ seq \in Nat
      /\ sent \in 0 .. MaxChunks /\ MaxChunks \in Nat
  BY TcpAssumption DEF TypeOK, Messages
<1>2. [job |-> j, seq |-> seq, chunk |-> sent + 1] \in Messages
  BY <1>1 DEF Messages
<1> QED BY <1>1, <1>2 DEF Transmit, NotSent

(* Every step of tcp_send_segment keeps the types.                         *)
LEMMA SendTypes ==
    ASSUME IInv, Send
    PROVE  TypeOK'
<1>1. DataTypes /\ FlagTypes /\ TypeOK /\ sends \in Seq(Jobs) /\ StackInv
  BY Types DEF IInv, TypeOK
<1>2. MaxChunks \in Nat /\ "ack" \in Jobs
  BY TcpAssumption DEF Jobs
<1>3. CASE SentSyn
  <2>1. wire' \subseteq Messages /\ acked' \in Nat
    BY <1>1, <1>3, TransmitTypes DEF SentSyn, Jobs
  <2>2. sends' \in Seq(Jobs)
    BY <1>1, <1>3, Returned DEF SentSyn
  <2>3. DataTypes'
    <3>1. UNCHANGED <<state, ack, rx, left, sent, peer, got>>
      BY <1>3, Zenon DEF SentSyn, Unchanged
    <3>2. seq' \in Nat /\ call' \in Calls
      <4>1. seq \in Nat /\ call \in Calls
        BY <1>1 DEF DataTypes
      <4> QED BY <1>3, <4>1 DEF SentSyn, Calls
    <3> QED BY <1>1, <2>1, <2>2, <3>1, <3>2 DEF peer, DataTypes, Messages
  <2>4. FlagTypes'
    BY <1>1, <1>3, Zenon DEF SentSyn, Unchanged, peer, marks, FlagTypes
  <2> QED BY <2>3, <2>4, Types
<1>4. CASE SentData
  <2>1. wire' \subseteq Messages /\ acked' \in Nat
    BY <1>1, <1>4, TransmitTypes DEF SentData, Jobs
  <2>2. sends' \in Seq(Jobs)
    BY <1>1, <1>4, Returned DEF SentData
  <2>3. left > 0 /\ sent + left <= MaxChunks
    BY <1>1, <1>4, Popped DEF SentData, IInv, CallInv
  <2>4. DataTypes'
    <3>1. /\ left \in 0 .. MaxChunks /\ sent \in 0 .. MaxChunks /\ seq \in Nat
          /\ call \in Calls
      BY <1>1 DEF DataTypes
    <3>2. \/ seq' = seq + 1 /\ sent' = sent + 1 /\ left' = left - 1 /\ call' = call
          \/ call' = "open" /\ left' = 0 /\ seq' = seq /\ sent' = sent
      BY <1>4 DEF SentData
    <3>3. /\ left' \in 0 .. MaxChunks /\ sent' \in 0 .. MaxChunks /\ seq' \in Nat
          /\ call' \in Calls
      BY <1>2, <2>3, <3>1, <3>2 DEF Calls
    <3> QED BY <1>1, <1>4, <2>1, <2>2, <3>3
        DEF SentData, Unchanged, peer, DataTypes, Messages
  <2>5. FlagTypes'
    BY <1>1, <1>4, Zenon DEF SentData, Unchanged, peer, marks, FlagTypes
  <2> QED BY <2>4, <2>5, Types
<1>5. CASE SentFin
  <2>1. wire' \subseteq Messages /\ acked' \in Nat
    BY <1>1, <1>5, TransmitTypes DEF SentFin, Jobs
  <2>2. sends' \in Seq(Jobs)
    BY <1>1, <1>5, Returned DEF SentFin
  <2>3. DataTypes'
    BY <1>1, <1>5, <2>1, <2>2 DEF SentFin, Unchanged, peer, DataTypes, Messages
  <2>4. FlagTypes'
    BY <1>1, <1>5, Zenon DEF SentFin, Unchanged, peer, marks, FlagTypes
  <2> QED BY <2>3, <2>4, Types
<1>6. CASE SentAck
  <2>1. wire' \subseteq Messages /\ acked' \in Nat
    BY <1>1, <1>2, <1>6, TransmitTypes DEF SentAck
  <2>2. sends' \in Seq(Jobs)
    BY <1>1, <1>6, Returned DEF SentAck
  <2>3. DataTypes'
    BY <1>1, <1>6, <2>1, <2>2 DEF SentAck, Unchanged, conn, peer, DataTypes, Messages
  <2>4. FlagTypes'
    BY <1>1, <1>6, Zenon DEF SentAck, Unchanged, conn, peer, marks, FlagTypes
  <2> QED BY <2>3, <2>4, Types
<1>7. CASE SentAckThenFin
  <2>1. wire' \subseteq Messages /\ acked' \in Nat
    BY <1>1, <1>2, <1>7, TransmitTypes DEF SentAckThenFin
  <2>2. sends' \in Seq(Jobs)
    BY <1>1, <1>7, Replaced DEF SentAckThenFin
  <2>3. DataTypes'
    BY <1>1, <1>7, <2>1, <2>2
       DEF SentAckThenFin, Unchanged, peer, DataTypes, Messages, States
  <2>4. FlagTypes'
    BY <1>1, <1>7, Zenon DEF SentAckThenFin, Unchanged, peer, marks, FlagTypes
  <2> QED BY <2>3, <2>4, Types
<1>8. CASE SentAckThenClose
  <2>1. wire' \subseteq Messages /\ acked' \in Nat
    BY <1>1, <1>2, <1>8, TransmitTypes DEF SentAckThenClose
  <2>2. sends' \in Seq(Jobs)
    BY <1>1, <1>8, Returned DEF SentAckThenClose
  <2>3. DataTypes'
    BY <1>1, <1>8, <2>1, <2>2
       DEF SentAckThenClose, Unchanged, Drop, peer, DataTypes, Messages, States
  <2>4. FlagTypes'
    BY <1>1, <1>8, Zenon DEF SentAckThenClose, Unchanged, Drop, peer, marks, FlagTypes
  <2> QED BY <2>3, <2>4, Types
<1> QED BY <1>3, <1>4, <1>5, <1>6, <1>7, <1>8 DEF Send

(* Nothing is stored or taken while a segment is sent, and a FIN taken is  *)
(* one that waited for its acknowledgement.                                *)
LEMMA SendOrder ==
    ASSUME IInv, Send
    PROVE  OrderInv' /\ EndInv'
<1>1. UNCHANGED <<rx, ack, got, ended, psent, pfin, overflow, apart>>
  BY DEF Send, SentSyn, SentData, SentFin, SentAck, SentAckThenFin, SentAckThenClose,
     Unchanged, conn, peer, marks
<1>2. state' = state \/ state' # "ESTABLISHED"
  BY DEF Send, SentSyn, SentData, SentFin, SentAck, SentAckThenFin, SentAckThenClose,
     Unchanged, conn, Drop
<1>3. OrderInv'
  BY <1>1, <1>2 DEF IInv, OrderInv
<1>4. sends \in Seq(Jobs) /\ StackInv
  BY DEF IInv, TypeOK
<1>5. CASE SentAckThenFin
  <2>1. Waits("ack, then FIN")
    BY <1>4, <1>5, Popped DEF SentAckThenFin
  <2>2. rx_fin' = TRUE
    BY <1>5 DEF SentAckThenFin
  <2>3. EndInv'
    BY <1>1, <2>1, <2>2 DEF IInv, EndInv
  <2> QED BY <1>3, <2>3
<1>6. CASE ~SentAckThenFin
  <2>1. rx_fin' = rx_fin
    BY <1>6 DEF Send, SentSyn, SentData, SentFin, SentAck, SentAckThenClose,
       Unchanged, conn
  <2>2. Waits("ack, then FIN")' => Waits("ack, then FIN")
    <3>1. sends' = Tail(sends) /\ \E j : Waiting(j)
      BY <1>6 DEF Send, SentSyn, SentData, SentFin, SentAck, SentAckThenClose
    <3> QED BY <1>4, <3>1, Returned
  <2>3. EndInv'
    BY <1>1, <2>1, <2>2 DEF IInv, EndInv
  <2> QED BY <1>3, <2>3
<1> QED BY <1>5, <1>6

LEMMA SentSynControl ==
    ASSUME IInv, SentSyn
    PROVE  StackInv' /\ CallInv' /\ SeqInv' /\ WireInv' /\ PeerInv'
<1>1. sends \in Seq(Jobs) /\ StackInv /\ Waiting("syn") /\ sends' = Tail(sends)
  BY DEF IInv, TypeOK, SentSyn
<1>2. "syn" \in Initiated
  BY DEF Initiated
<1>3. StackInv' /\ Waits("syn") /\ \A k : ~Waits(k)'
  BY <1>1, <1>2, Popped, Returned
<1>4. call = "connect" /\ seq = 0 /\ wire = {} /\ prcv = 0 /\ sent = 0
  BY <1>3 DEF IInv, CallInv, SeqInv
<1>5. UNCHANGED <<state, rx, got, left, sent, prcv, plist, peof, nested>>
  BY DEF SentSyn, Unchanged, peer, marks
<1>6. \/ wire' = {[job |-> "syn", seq |-> 0, chunk |-> 1]} /\ seq' = 1 /\ call' = call
      \/ wire' = {} /\ seq' = seq /\ call' = "done"
  BY <1>4 DEF SentSyn, Transmit, NotSent
<1>7. CallInv'
  BY <1>3, <1>4, <1>5, <1>6 DEF IInv, CallInv
<1>8. SeqInv'
  BY <1>3, <1>4, <1>5, <1>6 DEF SeqInv
<1>9. WireInv'
  BY <1>2, <1>6 DEF WireInv
<1>10. PeerInv'
  BY <1>4, <1>5 DEF IInv, PeerInv
<1> QED BY <1>3, <1>7, <1>8, <1>9, <1>10

LEMMA SentDataControl ==
    ASSUME IInv, SentData
    PROVE  StackInv' /\ CallInv' /\ SeqInv' /\ WireInv' /\ PeerInv'
<1>1. sends \in Seq(Jobs) /\ StackInv /\ Waiting("data") /\ sends' = Tail(sends)
  BY DEF IInv, TypeOK, SentData
<1>2. "data" \in Initiated
  BY DEF Initiated
<1>3. StackInv' /\ Waits("data") /\ \A k : ~Waits(k)'
  BY <1>1, <1>2, Popped, Returned
<1>4. /\ call = "send" /\ left > 0 /\ seq = sent + 1 /\ sent + left <= MaxChunks
      /\ sent \in Nat /\ left \in Nat /\ MaxChunks \in Nat
  BY <1>3, TcpAssumption DEF IInv, CallInv, SeqInv, TypeOK
<1>5. UNCHANGED <<state, rx, got, prcv, plist, peof, nested>>
  BY DEF SentData, Unchanged, peer, marks
<1>6. \/ /\ wire' = wire \cup {[job |-> "data", seq |-> seq, chunk |-> sent + 1]}
         /\ seq' = seq + 1 /\ sent' = sent + 1 /\ left' = left - 1 /\ call' = call
      \/ wire' = wire /\ seq' = seq /\ sent' = sent /\ left' = 0 /\ call' = "open"
  BY DEF SentData, Transmit, NotSent
<1>7. CallInv'
  BY <1>3, <1>4, <1>5, <1>6 DEF IInv, CallInv
<1>8. SeqInv'
  BY <1>3, <1>4, <1>6 DEF SeqInv
<1>9. WireInv'
  <2> SUFFICES ASSUME NEW m \in wire'
               PROVE  /\ m.job \in Initiated
                      /\ m.job = "syn" => m.seq = 0
                      /\ m.job = "data" => m.seq = m.chunk /\ m.chunk <= MaxChunks
                      /\ m.job # "fin"
    BY DEF WireInv
  <2>1. CASE m \in wire
    BY <1>4, <2>1 DEF IInv, WireInv
  <2>2. CASE m \notin wire
    <3>1. m = [job |-> "data", seq |-> seq, chunk |-> sent + 1]
      BY <1>6, <2>2
    <3>2. m.job = "data" /\ m.seq = m.chunk /\ m.chunk = sent + 1
      BY <1>4, <3>1
    <3> QED BY <1>2, <1>4, <3>2
  <2> QED BY <2>1, <2>2
<1>10. PeerInv'
  BY <1>4, <1>5 DEF IInv, PeerInv
<1> QED BY <1>3, <1>7, <1>8, <1>9, <1>10

LEMMA SentFinControl ==
    ASSUME IInv, SentFin
    PROVE  StackInv' /\ CallInv' /\ SeqInv' /\ WireInv' /\ PeerInv'
<1>1. sends \in Seq(Jobs) /\ StackInv /\ Waiting("fin") /\ sends' = Tail(sends)
  BY DEF IInv, TypeOK, SentFin
<1>2. "fin" \in Initiated
  BY DEF Initiated
<1>3. StackInv' /\ Waits("fin") /\ \A k : ~Waits(k)'
  BY <1>1, <1>2, Popped, Returned
<1>4. call = "close" /\ (~nested => seq = sent + 1)
  BY <1>3 DEF IInv, CallInv, SeqInv
<1>5. UNCHANGED <<state, rx, got, left, call, sent, prcv, plist, peof, nested>>
  BY DEF SentFin, Unchanged, peer, marks
<1>6. \/ wire' = wire \cup {[job |-> "fin", seq |-> seq, chunk |-> sent + 1]}
      \/ wire' = wire
  BY DEF SentFin, Transmit, NotSent
<1>7. CallInv'
  BY <1>3, <1>4, <1>5 DEF IInv, CallInv
<1>8. SeqInv'
  BY <1>3, <1>4, <1>5 DEF SeqInv
<1>9. WireInv'
  <2> SUFFICES ASSUME NEW m \in wire'
               PROVE  /\ m.job \in Initiated
                      /\ m.job = "syn" => m.seq = 0
                      /\ m.job = "data" => m.seq = m.chunk /\ m.chunk <= MaxChunks
                      /\ m.job = "fin" /\ ~nested => m.seq = sent + 1
    BY <1>4, <1>5 DEF WireInv
  <2>1. CASE m \in wire
    BY <2>1 DEF IInv, WireInv
  <2>2. CASE m \notin wire
    <3>1. m = [job |-> "fin", seq |-> seq, chunk |-> sent + 1]
      BY <1>6, <2>2
    <3>2. m.job = "fin" /\ m.seq = seq
      BY <3>1
    <3> QED BY <1>2, <1>4, <3>2
  <2> QED BY <2>1, <2>2
<1>10. PeerInv'
  BY <1>5 DEF IInv, PeerInv
<1> QED BY <1>3, <1>7, <1>8, <1>9, <1>10

LEMMA AcknowledgedControl ==
    ASSUME IInv, SentAck \/ SentAckThenFin \/ SentAckThenClose
    PROVE  StackInv' /\ CallInv' /\ SeqInv' /\ WireInv' /\ PeerInv'
<1>1. sends \in Seq(Jobs) /\ StackInv
  BY DEF IInv, TypeOK
<1>2. StackInv' /\ \A k \in Initiated : Waits(k)' <=> Waits(k)
  <2>1. /\ "ack" \notin Initiated /\ "ack, then FIN" \notin Initiated
        /\ "ack, then close" \notin Initiated
    BY DEF Initiated
  <2>2. CASE SentAckThenFin
    BY <1>1, <2>1, <2>2, Replaced DEF SentAckThenFin
  <2>3. ASSUME NEW j, j \notin Initiated, Waiting(j), sends' = Tail(sends)
        PROVE  StackInv' /\ \A k \in Initiated : Waits(k)' <=> Waits(k)
    <3>1. StackInv' /\ \A k : (Waits(k)' => Waits(k)) /\ (Waits(k) => k = j \/ Waits(k)')
      BY <1>1, <2>3, Returned
    <3> QED BY <2>3, <3>1
  <2>4. CASE SentAck \/ SentAckThenClose
    BY <2>1, <2>3, <2>4 DEF SentAck, SentAckThenClose
  <2> QED BY <2>2, <2>4
<1>3. "syn" \in Initiated /\ "data" \in Initiated /\ "fin" \in Initiated
  BY DEF Initiated
<1>4. /\ UNCHANGED <<seq, rx, got, left, call, sent, prcv, plist, peof, nested, wire>>
      /\ state' = state \/ state' \in {"CLOSED", "CLOSE_WAIT"}
  BY DEF SentAck, SentAckThenFin, SentAckThenClose, Transmit, NotSent, Unchanged, conn,
     Drop, peer, marks
<1>5. call # "idle"
  <2>1. sends # <<>>
    BY DEF SentAck, SentAckThenFin, SentAckThenClose, Waiting
  <2> QED BY <2>1 DEF IInv, CallInv
<1>6. CallInv'
  BY <1>2, <1>3, <1>4, <1>5 DEF IInv, CallInv
<1>7. SeqInv'
  BY <1>2, <1>3, <1>4 DEF IInv, SeqInv
<1>8. WireInv'
  BY <1>4 DEF IInv, WireInv
<1>9. PeerInv'
  BY <1>4 DEF IInv, PeerInv
<1> QED BY <1>2, <1>6, <1>7, <1>8, <1>9

-----------------------------------------------------------------------------
(* The calls.                                                              *)

(* Every call keeps the types.                                             *)
LEMMA CallerTypes ==
    ASSUME IInv, Caller
    PROVE  TypeOK'
<1>1. DataTypes /\ FlagTypes /\ TypeOK
  BY Types DEF IInv
<1>2. MaxChunks \in Nat /\ MaxBytes \in Nat /\ BufSize \in Nat
  BY TcpAssumption
<1>3. "syn" \in Jobs /\ "data" \in Jobs /\ "fin" \in Jobs
  BY DEF Jobs
<1>4. CASE net_tcp_connect
  <2>1. sends' \in Seq(Jobs)
    BY <1>3, <1>4, OneWaits DEF net_tcp_connect
  <2>2. DataTypes'
    BY <1>1, <1>4, <2>1 DEF net_tcp_connect, peer, DataTypes, States, Calls
  <2>3. FlagTypes'
    BY <1>1, <1>4, Zenon DEF net_tcp_connect, peer, marks, FlagTypes
  <2> QED BY <2>2, <2>3, Types
<1>5. CASE Connected \/ SendReturns \/ net_tcp_recv \/ RecvEnd \/ RecvTimeout
  <2>1. /\ UNCHANGED <<state, active, seq, ack, rx, rx_fin, left, sends, wire, acked,
                       peer, got, sent, marks>>
        /\ call' \in {"open", "recv"}
        /\ ended' = ended \/ ended' = (ended \/ rx_fin)
    BY <1>5, Zenon DEF Connected, SendReturns, net_tcp_recv, RecvEnd, RecvTimeout, Return
  <2>2. DataTypes'
    BY <1>1, <2>1 DEF peer, DataTypes, Calls
  <2>3. FlagTypes'
    BY <1>1, <2>1, Zenon DEF peer, marks, FlagTypes
  <2> QED BY <2>2, <2>3, Types
<1>6. CASE NotConnected \/ CloseReturns
  <2>1. /\ UNCHANGED <<seq, ack, rx, rx_fin, left, sends, wire, acked, peer, got, sent,
                       ended, marks>>
        /\ call' = "done" /\ state' = "CLOSED" /\ active' = FALSE
    BY <1>6, Zenon DEF NotConnected, CloseReturns, Return, Drop
  <2>2. DataTypes'
    BY <1>1, <2>1 DEF peer, DataTypes, Calls, States
  <2>3. FlagTypes'
    BY <1>1, <2>1, Zenon DEF peer, marks, FlagTypes
  <2> QED BY <2>2, <2>3, Types
<1>7. ASSUME NEW n \in 1 .. MaxChunks, net_tcp_send(n) PROVE TypeOK'
  <2>1. sends' \in Seq(Jobs)
    BY <1>3, <1>7, OneWaits DEF net_tcp_send
  <2>2. DataTypes'
    BY <1>1, <1>2, <1>7, <2>1 DEF net_tcp_send, conn, peer, DataTypes, Calls
  <2>3. FlagTypes'
    BY <1>1, <1>7, Zenon DEF net_tcp_send, conn, peer, marks, FlagTypes
  <2> QED BY <2>2, <2>3, Types
<1>8. CASE NextChunk
  <2>1. sends' \in Seq(Jobs)
    BY <1>3, <1>8, OneWaits DEF NextChunk
  <2>2. DataTypes'
    BY <1>1, <1>8, <2>1 DEF NextChunk, conn, peer, DataTypes
  <2>3. FlagTypes'
    BY <1>1, <1>8, Zenon DEF NextChunk, conn, peer, marks, FlagTypes
  <2> QED BY <2>2, <2>3, Types
<1>9. ASSUME NEW n \in 1 .. BufSize, RecvData(n) PROVE TypeOK'
  <2>1. /\ got' \in Seq(1 .. MaxBytes) /\ rx' \in Seq(1 .. MaxBytes)
        /\ Len(rx') = Len(rx) - n
    <3>1. n \in Nat /\ n <= Len(rx) /\ got' = got \o SubSeq(rx, 1, n)
          /\ rx' = SubSeq(rx, n + 1, Len(rx))
      BY <1>9 DEF RecvData
    <3> QED BY <1>1, <3>1, Taken
  <2>2. Len(rx') <= BufSize
    <3>1. Len(rx) <= BufSize /\ Len(rx) \in Nat
      BY <1>1, LenProperties DEF DataTypes
    <3> QED BY <1>2, <2>1, <3>1
  <2>3. /\ UNCHANGED <<state, seq, ack, left, sends, wire, acked, peer, sent>>
        /\ call' = "open"
    BY <1>9, Zenon DEF RecvData, Return
  <2>4. DataTypes'
    BY <1>1, <2>1, <2>2, <2>3 DEF peer, DataTypes, Calls
  <2>5. FlagTypes'
    BY <1>1, <1>9, Zenon DEF RecvData, Return, peer, marks, FlagTypes
  <2> QED BY <2>4, <2>5, Types
<1>10. CASE net_tcp_close
  <2>1. sends' = sends \/ sends' = <<"fin">>
    BY <1>10 DEF net_tcp_close
  <2>2. sends' \in Seq(Jobs)
    <3>1. CASE sends' = sends
      BY <1>1, <3>1 DEF DataTypes
    <3>2. CASE sends' = <<"fin">>
      BY <1>3, <3>2, OneWaits
    <3> QED BY <2>1, <3>1, <3>2
  <2>3. state' \in States /\ call' \in Calls
    BY <1>1, <1>10 DEF net_tcp_close, Drop, DataTypes, States, Calls
  <2>4. UNCHANGED <<seq, ack, rx, rx_fin, left, wire, acked, peer, got, sent, ended, marks>>
    BY <1>10, Zenon DEF net_tcp_close
  <2>5. DataTypes'
    BY <1>1, <2>2, <2>3, <2>4 DEF peer, DataTypes
  <2>6. active' = active \/ active' = FALSE
    BY <1>10, Zenon DEF net_tcp_close, Drop
  <2>7. FlagTypes'
    BY <1>1, <2>4, <2>6, Zenon DEF peer, marks, FlagTypes
  <2> QED BY <2>5, <2>7, Types
<1> QED BY <1>4, <1>5, <1>6, <1>7, <1>8, <1>9, <1>10 DEF Caller

LEMMA CallerControl ==
    ASSUME IInv, Caller
    PROVE  StackInv' /\ CallInv' /\ SeqInv' /\ WireInv' /\ PeerInv'
<1>1. CallInv /\ SeqInv /\ WireInv /\ PeerInv
  BY DEF IInv
<1>2. /\ sent \in Nat /\ left \in Nat /\ MaxChunks \in Nat
      /\ Len(rx) \in Nat
  BY TcpAssumption, LenProperties DEF IInv, TypeOK
<1>3. "syn" \in Jobs /\ "data" \in Jobs /\ "fin" \in Jobs
  BY DEF Jobs
<1>4. CASE net_tcp_connect
  <2>1. /\ sends' = <<"syn">> /\ call = "idle" /\ call' = "connect"
        /\ state' = "SYN_SENT"
        /\ UNCHANGED <<seq, rx, left, wire, got, sent, nested>>
        /\ UNCHANGED <<prcv, plist, peof>>
    BY <1>4 DEF net_tcp_connect, In, peer, marks
  <2>2. StackInv' /\ \A k : Waits(k)' <=> k = "syn"
    BY <1>3, <2>1, OneWaits
  <2>3. CallInv'
    BY <1>1, <2>1, <2>2 DEF CallInv
  <2>4. SeqInv'
    BY <1>1, <2>1, <2>2 DEF CallInv, SeqInv
  <2>5. WireInv' /\ PeerInv'
    BY <1>1, <2>1 DEF CallInv, WireInv, PeerInv
  <2> QED BY <2>2, <2>3, <2>4, <2>5
<1>5. CASE Connected \/ SendReturns \/ net_tcp_recv \/ RecvEnd \/ RecvTimeout
  <2>1. /\ sends = <<>> /\ sends' = <<>>
        /\ call \in {"connect", "open", "send", "recv"} /\ call' \in {"open", "recv"}
        /\ state = "ESTABLISHED" \/ call # "connect"
        /\ UNCHANGED <<state, seq, rx, left, wire, got, sent>>
        /\ UNCHANGED <<prcv, plist, peof, nested>>
    BY <1>5 DEF Connected, SendReturns, net_tcp_recv, RecvEnd, RecvTimeout, In, Return,
       peer, marks
  <2>2. StackInv' /\ (\A k : ~Waits(k)) /\ (\A k : ~Waits(k)')
    BY <2>1, NoneWaits
  <2>3. CallInv'
    BY <1>1, <2>1, <2>2 DEF CallInv
  <2>4. SeqInv'
    BY <1>1, <2>1, <2>2 DEF SeqInv
  <2>5. WireInv' /\ PeerInv'
    BY <1>1, <2>1 DEF WireInv, PeerInv
  <2> QED BY <2>2, <2>3, <2>4, <2>5
<1>6. CASE NotConnected \/ CloseReturns
  <2>1. /\ sends' = <<>> /\ call \in {"connect", "close"} /\ call' = "done"
        /\ state' = "CLOSED"
        /\ UNCHANGED <<seq, rx, left, wire, got, sent>>
        /\ UNCHANGED <<prcv, plist, peof, nested>>
    BY <1>6 DEF NotConnected, CloseReturns, In, Return, Drop, peer, marks
  <2>2. StackInv' /\ \A k : ~Waits(k)'
    BY <2>1, NoneWaits
  <2>3. CallInv'
    BY <1>1, <2>1, <2>2 DEF CallInv
  <2>4. SeqInv'
    BY <2>1, <2>2 DEF SeqInv
  <2>5. WireInv' /\ PeerInv'
    BY <1>1, <2>1 DEF WireInv, PeerInv
  <2> QED BY <2>2, <2>3, <2>4, <2>5
<1>7. CASE (\E n \in 1 .. MaxChunks : net_tcp_send(n)) \/ NextChunk
  <2>1. /\ sends' = <<"data">> /\ call \in {"open", "send"} /\ call' = "send"
        /\ left' > 0 /\ sent + left' <= MaxChunks
        /\ UNCHANGED <<state, seq, rx, wire, got, sent>>
        /\ UNCHANGED <<prcv, plist, peof, nested>>
    <3>1. ASSUME NEW n \in 1 .. MaxChunks, net_tcp_send(n) PROVE <2>1!:
      BY <3>1 DEF net_tcp_send, In, conn, peer, marks
    <3>2. ASSUME NextChunk PROVE <2>1!:
      BY <1>1, <3>2 DEF NextChunk, CallInv, In, conn, peer, marks
    <3> QED BY <1>7, <3>1, <3>2
  <2>2. StackInv' /\ \A k : Waits(k)' <=> k = "data"
    BY <1>3, <2>1, OneWaits
  <2>3. CallInv'
    BY <1>1, <1>2, <2>1, <2>2 DEF CallInv
  <2>4. SeqInv'
    BY <1>1, <2>1, <2>2 DEF SeqInv
  <2>5. WireInv' /\ PeerInv'
    BY <1>1, <2>1 DEF WireInv, PeerInv
  <2> QED BY <2>2, <2>3, <2>4, <2>5
<1>8. ASSUME NEW n \in 1 .. BufSize, RecvData(n)
      PROVE  StackInv' /\ CallInv' /\ SeqInv' /\ WireInv' /\ PeerInv'
  <2>1. /\ sends = <<>> /\ sends' = <<>> /\ call = "recv" /\ call' = "open"
        /\ UNCHANGED <<state, seq, left, wire, sent>>
        /\ UNCHANGED <<prcv, plist, peof, nested>>
    BY <1>8 DEF RecvData, In, Return, peer, marks
  <2>2. StackInv' /\ \A k : ~Waits(k)'
    BY <2>1, NoneWaits
  <2>3. state # "SYN_SENT"
    BY <1>1, <2>1 DEF CallInv
  <2>4. CallInv'
    BY <1>1, <2>1, <2>2, <2>3 DEF CallInv
  <2>5. SeqInv'
    BY <1>1, <2>1, <2>2 DEF SeqInv
  <2>6. WireInv' /\ PeerInv'
    BY <1>1, <2>1 DEF WireInv, PeerInv
  <2> QED BY <2>2, <2>4, <2>5, <2>6
<1>9. CASE net_tcp_close
  <2>1. /\ sends = <<>> /\ call = "open"
        /\ UNCHANGED <<seq, rx, left, wire, got, sent>>
        /\ UNCHANGED <<prcv, plist, peof, nested>>
        /\ \/ /\ sends' = <<"fin">> /\ call' = "close"
              /\ state' \in {"FIN_WAIT_1", "LAST_ACK"}
           \/ /\ sends' = <<>> /\ call' = "done"
              /\ state' = state \/ state' = "CLOSED"
    BY <1>9 DEF net_tcp_close, In, Drop, peer, marks
  <2>2. StackInv' /\ \A k : Waits(k)' => k = "fin" /\ call' = "close"
    <3>1. CASE sends' = <<"fin">> /\ call' = "close"
      BY <1>3, <3>1, OneWaits
    <3>2. CASE sends' = <<>>
      BY <3>2, NoneWaits
    <3> QED BY <2>1, <3>1, <3>2
  <2>3. state' = state => state \notin {"SYN_SENT", "FIN_WAIT_1"}
    BY <1>1, <2>1 DEF CallInv
  <2>4. CallInv'
    BY <1>1, <2>1, <2>2, <2>3 DEF CallInv
  <2>5. SeqInv'
    BY <1>1, <2>1, <2>2 DEF SeqInv
  <2>6. WireInv' /\ PeerInv'
    BY <1>1, <2>1 DEF WireInv, PeerInv
  <2> QED BY <2>2, <2>4, <2>5, <2>6
<1> QED BY <1>4, <1>5, <1>6, <1>7, <1>8, <1>9 DEF Caller

(* net_tcp_recv moves bytes from the buffer to the caller, in order, and   *)
(* returns 0 when there are none left.                                     *)
LEMMA CallerOrder ==
    ASSUME IInv, Caller
    PROVE  OrderInv' /\ EndInv'
<1>1. OrderInv /\ EndInv /\ TypeOK
  BY DEF IInv
<1>2. Waits("ack, then FIN")' => Waits("ack, then FIN")
  <2>1. /\ "syn" \in Jobs /\ "data" \in Jobs /\ "fin" \in Jobs
        /\ "ack, then FIN" \notin {"syn", "data", "fin"}
    BY DEF Jobs
  <2>2. \/ sends' = sends
        \/ sends' = <<"syn">> \/ sends' = <<"data">> \/ sends' = <<"fin">>
    BY DEF Caller, net_tcp_connect, Connected, NotConnected, net_tcp_send, NextChunk,
       SendReturns, net_tcp_recv, RecvData, RecvEnd, RecvTimeout, net_tcp_close,
       CloseReturns, Return
  <2>3. CASE sends' = sends
    BY <2>3 DEF Waits
  <2>4. CASE sends' = <<"syn">> \/ sends' = <<"data">> \/ sends' = <<"fin">>
    BY <2>1, <2>4, OneWaits
  <2> QED BY <2>2, <2>3, <2>4
<1>3. ASSUME NEW n \in 1 .. BufSize, RecvData(n) PROVE OrderInv' /\ EndInv'
  <2>1. /\ n \in Nat /\ n > 0 /\ n <= Len(rx) /\ got' = got \o SubSeq(rx, 1, n)
        /\ rx' = SubSeq(rx, n + 1, Len(rx))
        /\ UNCHANGED <<state, ack, rx_fin, ended, psent, pfin, overflow, apart>>
    BY <1>3, TcpAssumption DEF RecvData, Return, peer, marks
  <2>2. /\ Len(got') = Len(got) + n /\ Len(rx') = Len(rx) - n
        /\ \A i \in 1 .. Len(got) : got'[i] = got[i]
        /\ \A i \in Len(got) + 1 .. Len(got) + n : got'[i] = rx[i - Len(got)]
        /\ \A i \in 1 .. Len(rx) - n : rx'[i] = rx[n + i]
    BY <1>1, <2>1, Taken
  <2>3. Len(got) \in Nat /\ Len(rx) \in Nat
    BY <1>1, LenProperties DEF TypeOK
  <2>4. Len(got') + Len(rx') = Len(got) + Len(rx)
    <3>1. n \in Nat /\ Len(got') = Len(got) + n /\ Len(rx') = Len(rx) - n
      BY <2>1, <2>2
    <3> QED BY <2>3, <3>1
  <2>5. ASSUME ~overflow
        PROVE  /\ \A i \in 1 .. Len(got') : got'[i] = i
               /\ \A i \in 1 .. Len(rx') : rx'[i] = Len(got') + i
    <3>1. /\ \A i \in 1 .. Len(got) : got[i] = i
          /\ \A i \in 1 .. Len(rx) : rx[i] = Len(got) + i
      BY <1>1, <2>5 DEF OrderInv
    <3>2. ASSUME NEW i \in 1 .. Len(got') PROVE got'[i] = i
      <4>1. CASE i <= Len(got)
        <5>1. i \in 1 .. Len(got)
          BY <2>1, <2>2, <2>3, <4>1
        <5> QED BY <2>2, <3>1, <5>1
      <4>2. CASE ~(i <= Len(got))
        <5>1. i \in Len(got) + 1 .. Len(got) + n /\ i - Len(got) \in 1 .. Len(rx)
          BY <2>1, <2>2, <2>3, <4>2
        <5>2. got'[i] = rx[i - Len(got)] /\ rx[i - Len(got)] = Len(got) + (i - Len(got))
          BY <2>2, <3>1, <5>1
        <5> QED BY <2>3, <5>1, <5>2
      <4> QED BY <4>1, <4>2
    <3>3. ASSUME NEW i \in 1 .. Len(rx') PROVE rx'[i] = Len(got') + i
      <4>1. i \in 1 .. Len(rx) - n /\ n + i \in 1 .. Len(rx)
        BY <2>1, <2>2, <2>3
      <4>2. rx'[i] = rx[n + i] /\ rx[n + i] = Len(got) + (n + i)
        BY <2>2, <3>1, <4>1
      <4> QED BY <2>1, <2>2, <2>3, <4>1, <4>2
    <3> QED BY <3>2, <3>3
  <2>6. state = "ESTABLISHED" /\ ~overflow => ack = Len(got') + Len(rx') + 1
    BY <1>1, <2>4 DEF OrderInv
  <2>7. OrderInv'
    BY <2>1, <2>5, <2>6 DEF OrderInv
  <2>8. rx # <<>>
    BY <2>1, <2>3
  <2>9. EndInv'
    BY <1>1, <1>2, <2>1, <2>4, <2>8 DEF EndInv
  <2> QED BY <2>7, <2>9
<1>4. CASE RecvEnd
  <2>1. /\ rx = <<>> /\ ended' = (ended \/ rx_fin)
        /\ UNCHANGED <<state, ack, rx, got, rx_fin, psent, pfin, overflow, apart>>
    BY <1>4, Zenon DEF RecvEnd, Return, peer, marks
  <2>2. OrderInv'
    BY <1>1, <2>1, Zenon DEF OrderInv
  <2>3. EndInv'
    BY <1>1, <1>2, <2>1, Zenon DEF EndInv
  <2> QED BY <2>2, <2>3
<1>5. CASE ~RecvEnd /\ ~\E n \in 1 .. BufSize : RecvData(n)
  <2>1. /\ UNCHANGED <<ack, rx, got, rx_fin, ended, psent, pfin, overflow, apart>>
        /\ state' = state \/ state' # "ESTABLISHED"
    BY <1>5 DEF Caller, net_tcp_connect, Connected, NotConnected, net_tcp_send, NextChunk,
       SendReturns, net_tcp_recv, RecvTimeout, net_tcp_close, CloseReturns, Return, Drop,
       conn, peer, marks
  <2>2. OrderInv'
    BY <1>1, <2>1 DEF OrderInv
  <2>3. EndInv'
    BY <1>1, <1>2, <2>1 DEF EndInv
  <2> QED BY <2>2, <2>3
<1> QED BY <1>3, <1>4, <1>5

-----------------------------------------------------------------------------
(* The peer.                                                               *)

LEMMA PeerTypes ==
    ASSUME IInv, Peer
    PROVE  TypeOK'
<1>1. DataTypes /\ FlagTypes /\ WireInv /\ MaxBytes \in Nat /\ MaxChunks \in Nat
  BY Types, TcpAssumption DEF IInv
<1>2. ASSUME NEW m \in wire, PeerReceives(m) PROVE TypeOK'
  <2>1. prcv' \in Nat
    BY <1>1, <1>2 DEF PeerReceives, DataTypes
  <2>2. m.job = "data" => m.chunk \in 1 .. MaxChunks
    BY <1>1, <1>2 DEF DataTypes, WireInv
  <2>3. plist' \in Seq(1 .. MaxChunks)
    <3>1. CASE m.job = "data"
      <4>1. plist' = Append(plist, m.chunk)
        BY <1>2, <3>1 DEF PeerReceives
      <4> QED BY <1>1, <2>2, <3>1, <4>1, AppendProperties DEF DataTypes
    <3>2. CASE m.job # "data"
      BY <1>1, <1>2, <3>2 DEF PeerReceives, DataTypes
    <3> QED BY <3>1, <3>2
  <2>4. UNCHANGED <<state, seq, ack, rx, call, left, sends, wire, acked, psent, una, got, sent>>
    BY <1>2, Zenon DEF PeerReceives, Local, conn
  <2>5. DataTypes'
    BY <1>1, <2>1, <2>3, <2>4 DEF DataTypes
  <2>6. FlagTypes'
    BY <1>1, <1>2, Zenon DEF PeerReceives, Local, conn, marks, FlagTypes
  <2> QED BY <2>5, <2>6, Types
<1>3. ASSUME NEW a \in 1 .. acked, PeerAcked(a) PROVE TypeOK'
  <2>1. DataTypes'
    BY <1>1, <1>3 DEF PeerAcked, Local, conn, DataTypes
  <2>2. FlagTypes'
    BY <1>1, <1>3, Zenon DEF PeerAcked, Local, conn, marks, FlagTypes
  <2> QED BY <2>1, <2>2, Types
<1>4. CASE PeerSends
  <2>1. DataTypes'
    BY <1>1, <1>4 DEF PeerSends, Local, conn, DataTypes
  <2>2. FlagTypes'
    BY <1>1, <1>4, Zenon DEF PeerSends, Local, conn, marks, FlagTypes
  <2> QED BY <2>1, <2>2, Types
<1>5. CASE PeerFin
  <2>1. DataTypes'
    BY <1>1, <1>5 DEF PeerFin, Local, conn, DataTypes
  <2>2. FlagTypes'
    BY <1>1, <1>5, Zenon DEF PeerFin, Local, conn, marks, FlagTypes
  <2> QED BY <2>1, <2>2, Types
<1>6. CASE PeerReset
  <2>1. DataTypes'
    BY <1>1, <1>6 DEF PeerReset, Local, conn, DataTypes
  <2>2. FlagTypes'
    BY <1>1, <1>6, Zenon DEF PeerReset, Local, conn, marks, FlagTypes
  <2> QED BY <2>1, <2>2, Types
<1> QED BY <1>2, <1>3, <1>4, <1>5, <1>6 DEF Peer

(* The peer takes what follows what it has, so it takes the chunks in      *)
(* order and the FIN where the caller put it.                              *)
LEMMA PeerControl ==
    ASSUME IInv, Peer
    PROVE  StackInv' /\ CallInv' /\ SeqInv' /\ WireInv' /\ PeerInv'
<1>1. /\ CallInv /\ SeqInv /\ WireInv /\ PeerInv /\ StackInv
      /\ prcv \in Nat /\ plist \in Seq(1 .. MaxChunks) /\ Len(plist) \in Nat /\ sent \in Nat
      /\ wire \subseteq Messages
  BY LenProperties DEF IInv, TypeOK, Messages
<1>2. /\ UNCHANGED <<state, seq, rx, call, left, sends, wire, got, sent, nested>>
      /\ (~Waits("syn")' /\ call # "idle") \/ prcv' = prcv
  <2>1. UNCHANGED <<state, seq, rx, call, left, sends, wire, got, sent, nested>>
    BY DEF Peer, PeerReceives, PeerAcked, PeerSends, PeerFin, PeerReset, Local, conn, marks
  <2>2. prcv' = prcv \/ wire # {}
    BY DEF Peer, PeerReceives, PeerAcked, PeerSends, PeerFin, PeerReset
  <2>3. wire # {} => ~Waits("syn") /\ call # "idle"
    BY <1>1 DEF CallInv
  <2> QED BY <2>1, <2>2, <2>3, <1>1, Kept
<1>3. StackInv' /\ \A k : Waits(k)' <=> Waits(k)
  BY <1>1, <1>2, Kept
<1>4. CallInv'
  BY <1>1, <1>2, <1>3 DEF CallInv
<1>5. SeqInv' /\ WireInv'
  BY <1>1, <1>2, <1>3 DEF SeqInv, WireInv
<1>6. ASSUME NEW m \in wire, PeerReceives(m) PROVE PeerInv'
  <2>1. /\ ~peof /\ m.seq = prcv /\ prcv' = prcv + 1
        /\ m.job \in Initiated
        /\ m.job = "syn" => m.seq = 0
        /\ m.job = "data" => m.seq = m.chunk /\ m.chunk \in 1 .. MaxChunks
        /\ m.job = "fin" => call \in {"close", "done"} /\ (~nested => m.seq = sent + 1)
    BY <1>1, <1>6 DEF PeerReceives, WireInv, Messages
  <2>2. prcv > 0 => prcv = Len(plist) + 1
    BY <1>1, <2>1 DEF PeerInv
  <2>3. prcv = 0 => plist = <<>> /\ Len(plist) = 0
    BY <1>1 DEF PeerInv
  <2>4. CASE m.job = "syn"
    <3>1. plist' = plist /\ ~peof'
      BY <1>6, <2>1, <2>4 DEF PeerReceives
    <3> QED BY <1>1, <2>1, <2>3, <2>4, <3>1 DEF PeerInv
  <2>5. CASE m.job = "data"
    <3>1. plist' = Append(plist, m.chunk) /\ ~peof'
      BY <1>6, <2>1, <2>5 DEF PeerReceives
    <3>2. m.chunk = Len(plist) + 1 /\ prcv > 0
      BY <1>1, <2>1, <2>2, <2>5
    <3>3. /\ Len(plist') = Len(plist) + 1
          /\ \A i \in 1 .. Len(plist) : plist'[i] = plist[i]
          /\ plist'[Len(plist) + 1] = Len(plist) + 1
      BY <1>1, <2>1, <2>5, <3>1, <3>2, AppendProperties
    <3>4. ASSUME NEW i \in 1 .. Len(plist') PROVE plist'[i] = i
      <4>1. CASE i = Len(plist) + 1
        BY <3>3, <4>1
      <4>2. CASE i # Len(plist) + 1
        <5>1. i \in 1 .. Len(plist)
          BY <1>1, <3>3, <4>2
        <5> QED BY <1>1, <3>3, <5>1 DEF PeerInv
      <4> QED BY <4>1, <4>2
    <3>5. prcv' = Len(plist') + 1 /\ prcv' # 0
      BY <1>1, <2>1, <2>2, <3>2, <3>3
    <3> QED BY <3>1, <3>4, <3>5 DEF PeerInv
  <2>6. CASE m.job = "fin"
    <3>1. plist' = plist
      BY <1>6, <2>6 DEF PeerReceives
    <3>2. ~nested => Len(plist) = sent
      BY <1>1, <2>1, <2>2, <2>6
    <3>3. peof'
      BY <1>6, <2>6 DEF PeerReceives
    <3>4. prcv' # 0
      BY <1>1, <2>1
    <3> QED BY <1>1, <1>2, <2>1, <2>6, <3>1, <3>2, <3>3, <3>4 DEF PeerInv
  <2> QED BY <2>1, <2>4, <2>5, <2>6 DEF Initiated
<1>7. ASSUME (\E a \in 1 .. acked : PeerAcked(a)) \/ PeerSends \/ PeerFin \/ PeerReset
      PROVE  PeerInv'
  <2>1. UNCHANGED <<prcv, plist, peof>>
    BY <1>7 DEF PeerAcked, PeerSends, PeerFin, PeerReset
  <2>2. UNCHANGED <<call, sent, nested>>
    BY <1>2
  <2> QED BY <1>1, <2>1, <2>2 DEF PeerInv
<1> QED BY <1>3, <1>4, <1>5, <1>6, <1>7 DEF Peer

(* The peer sends nothing after its FIN.                                   *)
LEMMA PeerOrder ==
    ASSUME IInv, Peer
    PROVE  OrderInv' /\ EndInv'
<1>1. /\ UNCHANGED <<state, ack, rx, rx_fin, sends, got, ended, overflow, apart>>
      /\ pfin => pfin' /\ psent' = psent
  BY DEF Peer, PeerReceives, PeerAcked, PeerSends, PeerFin, PeerReset, Local, conn, marks
<1>2. Waits("ack, then FIN")' <=> Waits("ack, then FIN")
  BY <1>1, Kept DEF IInv
<1>3. OrderInv'
  BY <1>1 DEF IInv, OrderInv
<1>4. EndInv'
  BY <1>1, <1>2 DEF IInv, EndInv
<1> QED BY <1>3, <1>4

-----------------------------------------------------------------------------
(* The theorems.                                                           *)

LEMMA StepInv == IInv /\ [Next]_vars => IInv'
<1> SUFFICES ASSUME IInv, [Next]_vars PROVE IInv'
  OBVIOUS
<1>1. ASSUME NEW s \in Arriving, Handle(s) PROVE IInv'
  BY <1>1, HandleStack, HandleTypes, HandleControl, HandleOrder, HandleEnd DEF IInv
<1>2. CASE Send
  <2>1. StackInv' /\ CallInv' /\ SeqInv' /\ WireInv' /\ PeerInv'
    BY <1>2, SentSynControl, SentDataControl, SentFinControl, AcknowledgedControl DEF Send
  <2> QED BY <1>2, <2>1, SendTypes, SendOrder DEF IInv
<1>3. CASE Caller
  BY <1>3, CallerTypes, CallerControl, CallerOrder DEF IInv
<1>4. CASE Peer
  BY <1>4, PeerTypes, PeerControl, PeerOrder DEF IInv
<1>5. CASE UNCHANGED vars
  <2>1. TypeOK'
    BY <1>5 DEF vars, conn, peer, marks, IInv, TypeOK
  <2>2. /\ sends' = sends
        /\ UNCHANGED <<state, seq, ack, rx, rx_fin, call, left, wire>>
        /\ UNCHANGED <<prcv, plist, peof, psent, pfin, got, sent, ended>>
        /\ UNCHANGED <<overflow, apart, nested>>
    BY <1>5 DEF vars, conn, peer, marks
  <2>3. StackInv' /\ \A k : Waits(k)' <=> Waits(k)
    BY <2>2, Kept DEF IInv
  <2>4. CallInv' /\ SeqInv'
    BY <2>2, <2>3 DEF IInv, CallInv, SeqInv
  <2>5. WireInv'
    BY <2>2 DEF IInv, WireInv
  <2>6. PeerInv'
    BY <2>2 DEF IInv, PeerInv
  <2>7. OrderInv' /\ EndInv'
    BY <2>2, <2>3 DEF IInv, OrderInv, EndInv
  <2> QED BY <2>1, <2>3, <2>4, <2>5, <2>6, <2>7 DEF IInv
<1> QED BY <1>1, <1>2, <1>3, <1>4, <1>5 DEF Next

(* The inductive invariant holds in every reachable state.                 *)
THEOREM Invariance == Spec => []IInv
<1> QED BY InitInv, StepInv, PTL DEF Spec

(* The connection keeps its types and the receive buffer its size, for     *)
(* every size of handle_tcp's buffer and of the peer's segments.           *)
THEOREM TypeCorrect == Spec => []TypeOK
<1>1. IInv => TypeOK
  BY DEF IInv
<1> QED BY <1>1, Invariance, PTL

(* What net_tcp_recv returns is the peer's bytes in order, each once, until *)
(* handle_tcp has acknowledged bytes that did not fit.                      *)
THEOREM BytesInOrder == Spec => []InOrder
<1>1. IInv => InOrder
  <2> SUFFICES ASSUME IInv, ~overflow PROVE got \o rx = UpTo(Len(got) + Len(rx))
    BY DEF InOrder, IInv
  <2>1. /\ got \in Seq(Nat) /\ rx \in Seq(Nat) /\ Len(got) \in Nat /\ Len(rx) \in Nat
    <3>1. got \in Seq(1 .. MaxBytes) /\ rx \in Seq(1 .. MaxBytes)
      BY DEF IInv, TypeOK
    <3>2. 1 .. MaxBytes \subseteq Nat
      OBVIOUS
    <3>3. got \in Seq(Nat) /\ rx \in Seq(Nat)
      BY <3>1, <3>2, SeqMonotonic
    <3> QED BY <3>3, LenProperties
  <2>2. /\ \A i \in 1 .. Len(got) : got[i] = i
        /\ \A i \in 1 .. Len(rx) : rx[i] = Len(got) + i
    BY DEF IInv, OrderInv
  <2>3. /\ got \o rx \in Seq(Nat) /\ Len(got \o rx) = Len(got) + Len(rx)
        /\ \A i \in 1 .. Len(got) + Len(rx) :
             (got \o rx)[i] = IF i <= Len(got) THEN got[i] ELSE rx[i - Len(got)]
    BY <2>1, ConcatProperties
  <2>4. ASSUME NEW i \in 1 .. Len(got) + Len(rx) PROVE (got \o rx)[i] = i
    <3>1. CASE i <= Len(got)
      BY <2>1, <2>2, <2>3, <3>1
    <3>2. CASE ~(i <= Len(got))
      <4>1. i - Len(got) \in 1 .. Len(rx)
        BY <2>1, <3>2
      <4>2. (got \o rx)[i] = rx[i - Len(got)]
        BY <2>3, <3>2
      <4>3. rx[i - Len(got)] = Len(got) + (i - Len(got))
        BY <2>2, <4>1
      <4> QED BY <2>1, <4>2, <4>3
    <3> QED BY <3>1, <3>2
  <2>5. /\ UpTo(Len(got) + Len(rx)) \in Seq(Nat)
        /\ Len(UpTo(Len(got) + Len(rx))) = Len(got) + Len(rx)
        /\ \A i \in 1 .. Len(got) + Len(rx) : UpTo(Len(got) + Len(rx))[i] = i
    BY <2>1 DEF UpTo
  <2> QED BY <2>3, <2>4, <2>5, SeqEqual
<1> QED BY <1>1, Invariance, PTL

LEMMA IsUpTo ==
    ASSUME NEW S, NEW q \in Seq(S), \A i \in 1 .. Len(q) : q[i] = i
    PROVE  q = UpTo(Len(q))
<1>1. Len(q) \in Nat /\ q = [i \in 1 .. Len(q) |-> q[i]]
  BY LenProperties
<1> QED BY <1>1 DEF UpTo

(* The end of the stream is reported after its last byte, if the segments  *)
(* come as the peer sent them and fit the buffer.                          *)
THEOREM EndAfterLastByte == Spec => []EndComplete
<1>1. IInv => EndComplete
  <2> SUFFICES ASSUME IInv, ended, ~apart, ~overflow PROVE got = UpTo(psent)
    BY DEF EndComplete
  <2>1. rx = <<>> /\ Len(got) + Len(rx) = psent
    BY DEF IInv, EndInv
  <2>2. got \in Seq(1 .. MaxBytes) /\ Len(got) \in Nat
    BY LenProperties DEF IInv, TypeOK
  <2>3. Len(got) = psent
    BY <2>1, <2>2
  <2>4. \A i \in 1 .. Len(got) : got[i] = i
    BY DEF IInv, OrderInv
  <2> QED BY <2>2, <2>3, <2>4, IsUpTo
<1> QED BY <1>1, Invariance, PTL

(* The peer receives net_tcp_send's chunks in order and, unless a segment  *)
(* was handled while another one waited in resolve_mac, the FIN behind     *)
(* all of them.                                                            *)
THEOREM ChunksInOrder == Spec => []PeerComplete
<1>1. IInv => PeerComplete
  <2> SUFFICES ASSUME IInv PROVE PeerComplete
    OBVIOUS
  <2>1. plist \in Seq(1 .. MaxChunks) /\ \A i \in 1 .. Len(plist) : plist[i] = i
    BY DEF IInv, TypeOK, PeerInv
  <2>2. plist = UpTo(Len(plist))
    BY <2>1, IsUpTo
  <2>3. peof /\ ~nested => Len(plist) = sent
    BY DEF IInv, PeerInv
  <2> QED BY <2>2, <2>3 DEF PeerComplete
<1> QED BY <1>1, Invariance, PTL

=============================================================================
