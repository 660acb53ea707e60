-------------------------- MODULE SchedulerProofs --------------------------
(***************************************************************************)
(* Theorems about Scheduler, for every number of task slots: what its      *)
(* types and its first invariants say, and then its ring of tasks and its  *)
(* preemption counter.                                                     *)
(***************************************************************************)
EXTENDS Scheduler, WellFoundedInduction, FiniteSetTheorems, TLAPS

-----------------------------------------------------------------------------
(* Searches and loops.                                                     *)

(* The first task slot that qualifies: a search from slot 0 upwards that   *)
(* has something to find ends at a first one.                              *)
LEMMA LeastExists ==
    ASSUME NEW S, S \subseteq Nat, S # {}
    PROVE  \E k \in S : \A j \in S : k <= j
<1> DEFINE Less == {ss \in Nat \X Nat : ss[1] < ss[2]}
<1>1. PICK k \in S : \A j \in S : ~(<<j, k>> \in Less)
  <2>1. IsWellFoundedOn(Less, Nat)
    BY NatLessThanWellFounded DEF OpToRel
  <2> QED BY <2>1, WFMin
<1>2. \A i, j \in Nat : i < j => <<i, j>> \in Less
  OBVIOUS
<1>3. \A j \in S : ~(j < k)
  BY <1>1, <1>2
<1> QED BY <1>3

(* Step k goes from x to f[k][x], and each of the first N stays within S.  *)
Within(f, N, S) == \A k \in 1 .. N : \A x \in S : f[k][x] \in S

(* h lists where N such steps from a lead.                                 *)
Iterates(h, a, f, N, S) ==
    /\ h \in [0 .. N -> S]
    /\ h[0] = a
    /\ \A k \in 1 .. N : h[k] = f[k][h[k - 1]]

(* Such a list exists: the function that a recursive definition over       *)
(* 0 .. N names is there, whatever its steps are.                          *)
LEMMA IterExists ==
    ASSUME NEW N \in Nat, NEW S, NEW a \in S, NEW f, Within(f, N, S)
    PROVE  \E h : Iterates(h, a, f, N, S)
<1> DEFINE B == {m \in 0 .. N : ~\E h : Iterates(h, a, f, m, S)}
<1>1. ASSUME B # {} PROVE FALSE
  <2>1. PICK m \in B : \A j \in B : m <= j
    <3>1. B \subseteq Nat
      OBVIOUS
    <3> HIDE DEF B
    <3> QED BY <1>1, <3>1, LeastExists
  <2>2. m # 0
    BY Iterates([i \in 0 .. 0 |-> a], a, f, 0, S) DEF Iterates
  <2>3. m - 1 \in 0 .. N /\ m - 1 \notin B /\ m \in 1 .. N
    BY <2>1, <2>2
  <2>4. PICK g : Iterates(g, a, f, m - 1, S)
    BY <2>3
  <2> DEFINE h == [i \in 0 .. m |-> IF i = m THEN f[m][g[m - 1]] ELSE g[i]]
  <2>5. h \in [0 .. m -> S] /\ h[0] = a
    BY <2>2, <2>3, <2>4 DEF Iterates, Within
  <2>6. \A k \in 1 .. m : h[k] = f[k][h[k - 1]]
    BY <2>3, <2>4 DEF Iterates
  <2>7. Iterates(h, a, f, m, S)
    <3> HIDE DEF h
    <3> QED BY <2>5, <2>6 DEF Iterates
  <2> QED BY <2>7
<1> QED BY <1>1

-----------------------------------------------------------------------------
(* Lemmas about the walks and the choice of slots.                         *)

(* A slot searched for from slot 0 upwards is one of the slots searched.   *)
LEMMA LowestIn ==
    ASSUME NEW S, S \subseteq Nat, S # {}
    PROVE  Lowest(S) \in S
BY LeastExists DEF Lowest

(* A walk that stops at the first slot of S stops in S or runs off the     *)
(* ring.                                                                   *)
LEMMA FirstHopIn ==
    ASSUME NEW s, NEW S
    PROVE  FirstHop(s, S) \in S \cup {Null}
<1> DEFINE K == {k \in 1 .. TaskMax : Hops(s)[k] \in S}
<1>1. CASE K = {}
  BY <1>1 DEF FirstHop
<1>2. CASE K # {}
  <2>1. \E k \in K : \A j \in K : k <= j
    <3>1. K \subseteq Nat
      BY TaskMaxAssumption
    <3> HIDE DEF K
    <3> QED BY <1>2, <3>1, LeastExists
  <2>2. Hops(s)[CHOOSE k \in K : \A j \in K : k <= j] \in S
    BY <2>1
  <2> QED BY <1>2, <2>2 DEF FirstHop
<1> QED BY <1>1, <1>2

-----------------------------------------------------------------------------
(* The inductive invariant.  Its conjuncts speak of behaviours in which no *)
(* tick has hit the scheduler's own code.                                  *)

(* What the table holds, wherever the running thread is. *)
TableInv ==
    /\ prot[0] = 0
    /\ \A s \in Slots : id[s] = 0 => st[s] = "ZOMBIE"
    /\ \A s \in Slots : st[s] = "RUNNING" => s = cur
    /\ id[cur] # 0
    /\ \A s \in Slots : id[s] < next_id
    /\ \A s, t \in Live : id[s] = id[t] => s = t

(* How the running thread's place, its local variable and the state of its *)
(* task go together.                                                       *)
PlaceInv ==
    /\ pc.at \notin {"dead", "wild"}
    /\ pc.at \in {"body", "user", "pick", "fill", "link", "switch", "exitswitch"}
         => st[cur] = "RUNNING"
    /\ pc.at = "scan" => st[cur] = "READY"
    /\ pc.at \in {"exitscan", "halt"} => st[cur] = "ZOMBIE"
    /\ pc.at = "fill" => pc.t # 0 /\ id[pc.t] = 0
    /\ pc.at = "link" => pc.t # 0
    /\ pc.at = "switch" => pc.t # cur /\ st[pc.t] = "READY"
    /\ pc.at = "exitswitch" => pc.t # cur /\ st[pc.t] = "ZOMBIE"

(* Every task off the CPU resumes on its own stack, and in its own code    *)
(* unless it has exited.                                                   *)
ContextInv ==
    \A s \in Live \ {OnStack} :
      /\ rsp[s].stack = s
      /\ st[s] # "ZOMBIE" => rsp[s].pc.at = "body"

IInv == TypeOK /\ (~raced => TableInv /\ PlaceInv /\ ContextInv)

-----------------------------------------------------------------------------
(* Type correctness.                                                       *)

USE TaskMaxAssumption, MaxIdAssumption

(* Positions and contexts.                                                 *)
LEMMA PosType ==
    ASSUME NEW p \in Places, NEW s \in Slots, NEW n \in Names
    PROVE  /\ Pos(p, s, n) \in PC
           /\ Pos(p, s, n).at = p /\ Pos(p, s, n).t = s /\ Pos(p, s, n).nm = n
BY DEF Pos, PC

LEMMA AtType ==
    ASSUME NEW p \in Places
    PROVE  At(p) \in PC /\ At(p).at = p
<1>1. 0 \in Slots /\ "none" \in Names
  BY DEF Slots, Names
<1> QED BY <1>1, PosType DEF At

LEMMA PCType ==
    ASSUME NEW p \in PC
    PROVE  p.at \in Places /\ p.t \in Slots /\ p.nm \in Names
BY DEF PC

LEMMA ContextType ==
    ASSUME NEW s \in Slots \cup {Null}, NEW tk \in BOOLEAN, NEW f \in BOOLEAN,
           NEW p \in PC
    PROVE  /\ Context(s, tk, f, p) \in Contexts
           /\ Context(s, tk, f, p).stack = s /\ Context(s, tk, f, p).pc = p
           /\ Context(s, tk, f, p).tick = tk
BY DEF Context, Contexts

LEMMA ContextFields ==
    ASSUME NEW c \in Contexts
    PROVE  c.tick \in BOOLEAN /\ c.iflag \in BOOLEAN /\ c.pc \in PC
BY DEF Contexts

LEMMA NoContextType ==
    NoContext \in Contexts /\ \A s \in Slots : FreshContext(s) \in Contexts
<1>1. At("body") \in PC
  BY AtType DEF Places
<1> QED BY <1>1, ContextType DEF NoContext, FreshContext

(* Reclaiming slots keeps the types of the table.                          *)
LEMMA ReclaimType ==
    ASSUME TypeOK, NEW D, Reclaim(D)
    PROVE  /\ id' \in [Slots -> Nat]
           /\ st' \in [Slots -> States]
           /\ nxt' \in [Slots -> Slots \cup {Null}]
           /\ name' \in [Slots -> Names]
           /\ rsp' \in [Slots -> Contexts]
           /\ prot' \in [Slots -> 0 .. 2]
<1>1. \A s \in Slots : FirstHop(s, (Slots \cup {Null}) \ D) \in Slots \cup {Null}
  BY FirstHopIn
<1>2. id' \in [Slots -> Nat]
  BY DEF TypeOK, Reclaim
<1>3. st' \in [Slots -> States]
  BY DEF TypeOK, Reclaim, States
<1>4. nxt' \in [Slots -> Slots \cup {Null}]
  BY <1>1 DEF TypeOK, Reclaim
<1>5. name' \in [Slots -> Names]
  BY DEF TypeOK, Reclaim, Names
<1>6. rsp' \in [Slots -> Contexts]
  BY NoContextType DEF TypeOK, Reclaim
<1>7. prot' \in [Slots -> 0 .. 2]
  BY DEF TypeOK, Reclaim
<1> QED BY <1>2, <1>3, <1>4, <1>5, <1>6, <1>7

(* The slot task_create picks is not slot 0.                               *)
LEMMA PickedSlot ==
    ASSUME Unused \cup Zombies # {}
    PROVE  Lowest(IF Unused # {} THEN Unused ELSE Zombies) \in Unused \cup Zombies
<1>1. Unused \subseteq Nat /\ Zombies \subseteq Nat
  BY DEF Unused, Zombies, Slots
<1> QED BY <1>1, LowestIn

(* The task that the walk of the ring finds is READY, or is old itself.    *)
LEMMA NextReadyIn ==
    ASSUME NEW old, NextReady(old) # Null
    PROVE  NextReady(old) \in Ready \cup {old}
BY FirstHopIn DEF NextReady

(* Every step keeps the types.                                             *)
LEMMA TypeStep ==
    ASSUME TypeOK, [Next]_vars
    PROVE  TypeOK'
<1> USE DEF TypeOK, table
<1>a. /\ \A p \in Places : At(p) \in PC
      /\ \A p \in Places, s \in Slots, n \in Names : Pos(p, s, n) \in PC
      /\ pc.t \in Slots /\ pc.nm \in Names
  BY AtType, PosType, PCType
<1>b. /\ {"body", "user", "pick", "fill", "link", "scan", "switch", "exitscan",
          "exitswitch", "dead", "halt", "wild"} = Places
      /\ {"READY", "RUNNING", "ZOMBIE", "STOPPED"} = States
      /\ {"none", "kernel", "shell", "serial", "job"} = Names
      /\ 0 \in Slots
  BY DEF Places, States, Names, Slots
<1>1. ASSUME Followed, CreatePick PROVE TypeOK'
  <2>1. pc' \in PC
    <3>1. Unused \cup Zombies \subseteq Slots
      BY DEF Unused, Zombies
    <3>2. CASE pc' = At("body")
      BY <3>2, <1>a, <1>b
    <3>3. CASE Unused \cup Zombies # {} /\ pc' # At("body")
      <4>1. Lowest(IF Unused # {} THEN Unused ELSE Zombies) \in Slots
        BY <3>1, <3>3, PickedSlot
      <4>2. "fill" \in Places /\ pc.nm \in Names
        BY <1>a, <1>b
      <4>3. pc' = Pos("fill", Lowest(IF Unused # {} THEN Unused ELSE Zombies), pc.nm)
        BY <1>1, <3>3 DEF CreatePick
      <4> QED BY <4>1, <4>2, <4>3, PosType
    <3> QED BY <1>1, <3>2, <3>3 DEF CreatePick
  <2>2. CASE Reclaim({Lowest(Zombies)})
    BY <1>1, <2>1, <2>2, ReclaimType DEF CreatePick
  <2>3. CASE UNCHANGED table
    BY <1>1, <2>1, <2>3 DEF CreatePick
  <2> QED BY <1>1, <2>2, <2>3 DEF CreatePick
<1>2. ASSUME Followed, CreateFill PROVE TypeOK'
  <2>0. "link" \in Places /\ "none" \in Names
    BY DEF Places, Names
  <2>1. pc' \in PC
    BY <1>2, <1>a, <2>0, PosType DEF CreateFill
  <2>7. next_id' \in Nat
    BY <1>2 DEF CreateFill
  <2>2. id' \in [Slots -> Nat] /\ prot' \in [Slots -> 0 .. 2]
    BY <1>2, <1>a DEF CreateFill
  <2>3. st' \in [Slots -> States]
    BY <1>2, <1>a, <1>b DEF CreateFill
  <2>6. name' \in [Slots -> Names]
    BY <1>2, <1>a DEF CreateFill
  <2>4. nxt' \in [Slots -> Slots \cup {Null}]
    BY <1>2, <1>a, <1>b DEF CreateFill
  <2>5. rsp' \in [Slots -> Contexts]
    BY <1>2, <1>a, NoContextType DEF CreateFill
  <2> QED BY <1>2, <2>1, <2>2, <2>3, <2>4, <2>5, <2>6, <2>7 DEF CreateFill
<1>3. ASSUME Followed, CreateLink PROVE TypeOK'
  BY <1>3, <1>a, <1>b DEF CreateLink
<1>4. ASSUME Followed, CreateJob PROVE TypeOK'
  BY <1>4, <1>a, <1>b DEF CreateJob, CallCreate
<1>5. ASSUME Followed, BootShell PROVE TypeOK'
  BY <1>5, <1>a, <1>b DEF BootShell, EnsureShell, CallCreate, Sti
<1>6. ASSUME Followed, BootSerial PROVE TypeOK'
  BY <1>6, <1>a, <1>b DEF BootSerial, CallCreate
<1>7. ASSUME Followed, RespawnShell PROVE TypeOK'
  BY <1>7, <1>a, <1>b DEF RespawnShell, EnsureShell, CallCreate, Sti
<1>8. ASSUME Followed, SetWatchdog PROVE TypeOK'
  BY <1>8, <1>a, <1>b DEF SetWatchdog
<1>9. ASSUME Followed, Yield PROVE TypeOK'
  BY <1>9, <1>a, <1>b DEF Yield
<1>10. ASSUME Followed, YieldScan PROVE TypeOK'
  BY <1>10, <1>a, <1>b, NextReadyIn DEF YieldScan, Followed, Ready
<1>11. ASSUME Followed, YieldSwitch PROVE TypeOK'
  <2>1. At("body") \in PC /\ rsp[cur] \in Contexts
    BY <1>a, <1>b
  <2>2. Context(pc.t, FALSE, iflag, At("body")) \in Contexts
    BY <2>1, <1>a, ContextType
  <2>3. rsp' \in [Slots -> Contexts]
    BY <1>11, <2>2, NoContextType DEF YieldSwitch
  <2>4. iflag' \in BOOLEAN /\ pc' \in PC /\ count' \in Int
    BY <1>11, <2>1, ContextFields DEF YieldSwitch, Resume
  <2> QED BY <1>11, <2>3, <2>4 DEF YieldSwitch
<1>12. ASSUME Followed, Exit PROVE TypeOK'
  BY <1>12, <1>a, <1>b DEF Exit
<1>13. ASSUME Followed, ExitScan PROVE TypeOK'
  <2>1. NextReady(cur) \in Slots
    BY <1>13, NextReadyIn DEF Followed, Ready
  <2>2. pc' \in PC
    BY <1>13, <1>a, <1>b DEF ExitScan
  <2>3. st' \in [Slots -> States] /\ cur' \in Slots
    BY <1>13, <1>b, <2>1 DEF ExitScan
  <2> QED BY <1>13, <2>2, <2>3 DEF ExitScan
<1>14. ASSUME Followed, ExitSwitch PROVE TypeOK'
  <2>1. At("dead") \in PC /\ rsp[cur] \in Contexts
    BY <1>a, <1>b
  <2>2. Context(pc.t, FALSE, iflag, At("dead")) \in Contexts
    BY <2>1, <1>a, ContextType
  <2>3. rsp' \in [Slots -> Contexts]
    BY <1>14, <2>2, NoContextType DEF ExitSwitch
  <2>4. iflag' \in BOOLEAN /\ pc' \in PC /\ count' \in Int
    BY <1>14, <2>1, ContextFields DEF ExitSwitch, Resume
  <2> QED BY <1>14, <2>3, <2>4 DEF ExitSwitch
<1>15. ASSUME Followed, Tick PROVE TypeOK'
  <2> DEFINE n == NextReady(cur)
  <2>1. n \in Slots
    BY <1>15, NextReadyIn DEF Followed, Ready
  <2>2. OnStack \in Slots
    BY <1>a DEF OnStack
  <2>3. Context(OnStack, TRUE, TRUE, pc) \in Contexts /\ rsp[n] \in Contexts
    BY <2>1, <2>2, ContextType
  <2>4. rsp' \in [Slots -> Contexts]
    BY <1>15, <2>3, NoContextType DEF Tick
  <2>5. st' \in [Slots -> States] /\ cur' \in Slots
    BY <1>15, <2>1, <1>b DEF Tick
  <2>6. iflag' \in BOOLEAN /\ pc' \in PC /\ count' \in Int
    BY <1>15, <2>3, <1>a, <1>b, ContextFields DEF Tick, Resume
  <2>7. raced' \in BOOLEAN
    BY <1>15 DEF Tick
  <2> QED BY <1>15, <2>4, <2>5, <2>6, <2>7 DEF Tick
<1>16. ASSUME Followed, KillAll PROVE TypeOK'
  BY <1>16, <1>a, <1>b, ReclaimType DEF KillAll, UnchangedByTableOps, Sti
<1>17. ASSUME Followed, Reap PROVE TypeOK'
  BY <1>17, <1>a, <1>b, ReclaimType DEF Reap, UnchangedByTableOps, Sti
<1>18. ASSUME Followed, SetPreemption PROVE TypeOK'
  BY <1>18, <1>a, <1>b DEF SetPreemption
<1>19. ASSUME Followed, ExecUser PROVE TypeOK'
  BY <1>19, <1>a, <1>b DEF ExecUser
<1>20. ASSUME NEW i \in Ids, Followed, Kill(i) PROVE TypeOK'
  BY <1>20, <1>a, <1>b, ReclaimType DEF Kill, UnchangedByTableOps, Sti
<1>21. ASSUME NEW i \in Ids, Followed, Stop(i) PROVE TypeOK'
  BY <1>21, <1>a, <1>b DEF Stop, UnchangedByTableOps, Sti
<1>22. ASSUME NEW i \in Ids, Followed, Continue(i) PROVE TypeOK'
  BY <1>22, <1>a, <1>b DEF Continue, UnchangedByTableOps, Sti
<1>23. ASSUME NEW i \in Ids, NEW on \in BOOLEAN, Followed, Protect(i, on) PROVE TypeOK'
  BY <1>23, <1>a, <1>b DEF Protect, UnchangedByTableOps, Sti
<1>24. ASSUME NEW fault \in BOOLEAN, Followed, UserExit(fault) PROVE TypeOK'
  BY <1>24, <1>a, <1>b DEF UserExit
<1>25. ASSUME UNCHANGED vars PROVE TypeOK'
  BY <1>25 DEF vars
<1> HIDE DEF TypeOK
<1> QED
  BY <1>1, <1>2, <1>3, <1>4, <1>5, <1>6, <1>7, <1>8, <1>9, <1>10, <1>11, <1>12, <1>13, <1>14, <1>15, <1>16, <1>17, <1>18, <1>19, <1>20, <1>21, <1>22, <1>23, <1>24, <1>25
     DEF Next, SchedulerStep, KernelLoop, Command

LEMMA InitType == Init => TypeOK
<1> SUFFICES ASSUME Init PROVE TypeOK
  OBVIOUS
<1>1. 0 \in Slots /\ Null \in Slots \cup {Null}
  BY DEF Slots
<1>2. At("body") \in PC
  BY AtType DEF Places
<1>3. id \in [Slots -> Nat] /\ prot \in [Slots -> 0 .. 2]
  BY DEF Init
<1>4. st \in [Slots -> States]
  BY DEF Init, States
<1>5. nxt \in [Slots -> Slots \cup {Null}]
  BY <1>1 DEF Init
<1>6. name \in [Slots -> Names]
  BY DEF Init, Names
<1>7. rsp \in [Slots -> Contexts]
  BY NoContextType DEF Init
<1>8. /\ cur \in Slots /\ count \in Int /\ next_id \in Nat
      /\ boot \in {"shell", "serial", "loop"}
  BY <1>1 DEF Init
<1>a. /\ preempt \in BOOLEAN /\ user \in BOOLEAN /\ watchdog \in BOOLEAN
      /\ iflag \in BOOLEAN /\ raced \in BOOLEAN
  BY DEF Init
<1>9. pc \in PC
  BY <1>2 DEF Init
<1> QED BY <1>3, <1>4, <1>5, <1>6, <1>7, <1>8, <1>9, <1>a DEF TypeOK

(* Type correctness of Scheduler, for every number of slots.               *)
THEOREM TypeCorrect == Spec => []TypeOK
<1>1. Init => TypeOK
  BY InitType
<1>2. TypeOK /\ [Next]_vars => TypeOK'
  BY TypeStep
<1> QED BY <1>1, <1>2, PTL DEF Spec

-----------------------------------------------------------------------------
(* The invariant of the table, the places and the contexts.                *)

Rest == TableInv /\ PlaceInv /\ ContextInv

(* Reclaiming slots other than slot 0 and the running task's disturbs none *)
(* of it.                                                                  *)
LEMMA ReclaimRest ==
    ASSUME TypeOK, Rest, NEW D \in SUBSET Slots, 0 \notin D, cur \notin D,
           Reclaim(D), OnStack = cur,
           UNCHANGED <<cur, next_id>>,
           OnStack' = cur'
    PROVE  TableInv' /\ ContextInv' /\ st'[cur'] = st[cur]
<1> USE DEF TypeOK
<1>1. \A s \in Slots : /\ s \notin D => id'[s] = id[s] /\ st'[s] = st[s] /\ rsp'[s] = rsp[s]
                                       /\ prot'[s] = prot[s]
                       /\ s \in D => id'[s] = 0 /\ st'[s] = "ZOMBIE"
  BY DEF Reclaim
<1>2. 0 \in Slots
  BY DEF Slots
<1>3. Live' = Live \ D
  BY <1>1 DEF Live
<1>4. TableInv'
  BY <1>1, <1>2, <1>3 DEF Rest, TableInv, Live
<1>5. ContextInv'
  BY <1>1, <1>3 DEF Rest, ContextInv, Live
<1> QED BY <1>1, <1>4, <1>5

(* One lemma for the steps that only move the running thread.              *)
LEMMA MoveRest ==
    ASSUME TypeOK, Rest, UNCHANGED <<table, cur, next_id>>,
           OnStack' = OnStack, PlaceInv'
    PROVE  Rest'
<1>1. Live' = Live
  BY DEF Live, table
<1> QED BY <1>1 DEF Rest, TableInv, ContextInv, Live, table

(* Where Pos and At lead.                                                  *)
LEMMA Positions ==
    ASSUME NEW s \in Slots, NEW n \in Names
    PROVE  /\ \A p \in Places : Pos(p, s, n).at = p /\ Pos(p, s, n).t = s
           /\ \A p \in Places : At(p).at = p
BY AtType, PosType

(* CreateJob only moves the running thread.                                *)
LEMMA CreateJobRest ==
    ASSUME TypeOK, Rest, ~raced', Followed, CreateJob
    PROVE  Rest'
<1>1. /\ pc.at \in {"body", "user"} /\ pc'.at \in {"body", "user", "pick"}
      /\ UNCHANGED <<table, cur, next_id>>
  BY AtType, PosType, PCType DEF CreateJob, InBody, TypeOK, CallCreate, Places, Names, Slots
<1>2. OnStack' = OnStack
  BY <1>1 DEF OnStack
<1>3. PlaceInv'
  BY <1>1 DEF Rest, PlaceInv, table
<1> QED BY <1>1, <1>2, <1>3, MoveRest

(* BootShell only moves the running thread.                                *)
LEMMA BootShellRest ==
    ASSUME TypeOK, Rest, ~raced', Followed, BootShell
    PROVE  Rest'
<1>1. /\ pc.at \in {"body", "user"} /\ pc'.at \in {"body", "user", "pick"}
      /\ UNCHANGED <<table, cur, next_id>>
  BY AtType, PosType, PCType DEF BootShell, InBody, TypeOK, EnsureShell, CallCreate, Sti, Places, Names, Slots
<1>2. OnStack' = OnStack
  BY <1>1 DEF OnStack
<1>3. PlaceInv'
  BY <1>1 DEF Rest, PlaceInv, table
<1> QED BY <1>1, <1>2, <1>3, MoveRest

(* BootSerial only moves the running thread.                               *)
LEMMA BootSerialRest ==
    ASSUME TypeOK, Rest, ~raced', Followed, BootSerial
    PROVE  Rest'
<1>1. /\ pc.at \in {"body", "user"} /\ pc'.at \in {"body", "user", "pick"}
      /\ UNCHANGED <<table, cur, next_id>>
  BY AtType, PosType, PCType DEF BootSerial, InBody, TypeOK, CallCreate, Places, Names, Slots
<1>2. OnStack' = OnStack
  BY <1>1 DEF OnStack
<1>3. PlaceInv'
  BY <1>1 DEF Rest, PlaceInv, table
<1> QED BY <1>1, <1>2, <1>3, MoveRest

(* RespawnShell only moves the running thread.                             *)
LEMMA RespawnShellRest ==
    ASSUME TypeOK, Rest, ~raced', Followed, RespawnShell
    PROVE  Rest'
<1>1. /\ pc.at \in {"body", "user"} /\ pc'.at \in {"body", "user", "pick"}
      /\ UNCHANGED <<table, cur, next_id>>
  BY AtType, PosType, PCType DEF RespawnShell, InBody, TypeOK, EnsureShell, CallCreate, Sti, Places, Names, Slots
<1>2. OnStack' = OnStack
  BY <1>1 DEF OnStack
<1>3. PlaceInv'
  BY <1>1 DEF Rest, PlaceInv, table
<1> QED BY <1>1, <1>2, <1>3, MoveRest

(* SetWatchdog only moves the running thread.                              *)
LEMMA SetWatchdogRest ==
    ASSUME TypeOK, Rest, ~raced', Followed, SetWatchdog
    PROVE  Rest'
<1>1. /\ pc.at \in {"body", "user"} /\ pc'.at \in {"body", "user", "pick"}
      /\ UNCHANGED <<table, cur, next_id>>
  BY AtType, PosType, PCType DEF SetWatchdog, InBody, TypeOK, Places, Names, Slots
<1>2. OnStack' = OnStack
  BY <1>1 DEF OnStack
<1>3. PlaceInv'
  BY <1>1 DEF Rest, PlaceInv, table
<1> QED BY <1>1, <1>2, <1>3, MoveRest

(* SetPreemption only moves the running thread.                            *)
LEMMA SetPreemptionRest ==
    ASSUME TypeOK, Rest, ~raced', Followed, SetPreemption
    PROVE  Rest'
<1>1. /\ pc.at \in {"body", "user"} /\ pc'.at \in {"body", "user", "pick"}
      /\ UNCHANGED <<table, cur, next_id>>
  BY AtType, PosType, PCType DEF SetPreemption, InBody, TypeOK, Places, Names, Slots
<1>2. OnStack' = OnStack
  BY <1>1 DEF OnStack
<1>3. PlaceInv'
  BY <1>1 DEF Rest, PlaceInv, table
<1> QED BY <1>1, <1>2, <1>3, MoveRest

(* ExecUser only moves the running thread.                                 *)
LEMMA ExecUserRest ==
    ASSUME TypeOK, Rest, ~raced', Followed, ExecUser
    PROVE  Rest'
<1>1. /\ pc.at \in {"body", "user"} /\ pc'.at \in {"body", "user", "pick"}
      /\ UNCHANGED <<table, cur, next_id>>
  BY AtType, PosType, PCType DEF ExecUser, InBody, TypeOK, Places, Names, Slots
<1>2. OnStack' = OnStack
  BY <1>1 DEF OnStack
<1>3. PlaceInv'
  BY <1>1 DEF Rest, PlaceInv, table
<1> QED BY <1>1, <1>2, <1>3, MoveRest

(* UserExit only moves the running thread.                                 *)
LEMMA UserExitRest ==
    ASSUME TypeOK, Rest, ~raced', Followed, NEW fault \in BOOLEAN, UserExit(fault)
    PROVE  Rest'
<1>1. /\ pc.at \in {"body", "user"} /\ pc'.at \in {"body", "user", "pick"}
      /\ UNCHANGED <<table, cur, next_id>>
  BY AtType, PosType, PCType DEF UserExit, InBody, TypeOK, Places, Names, Slots
<1>2. OnStack' = OnStack
  BY <1>1 DEF OnStack
<1>3. PlaceInv'
  BY <1>1 DEF Rest, PlaceInv, table
<1> QED BY <1>1, <1>2, <1>3, MoveRest

(* CreatePick frees at most a zombie's slot, which is not the running one. *)
LEMMA CreatePickRest ==
    ASSUME TypeOK, Rest, ~raced', Followed, CreatePick
    PROVE  Rest'
<1> USE DEF TypeOK
<1>a. /\ st[cur] = "RUNNING" /\ OnStack = cur
      /\ UNCHANGED <<cur, next_id>>
  BY DEF CreatePick, Rest, PlaceInv, OnStack
<1>b. pc'.at \in {"fill", "body"} /\ (pc'.at = "fill" => pc'.t \in Slots)
  <2>1. CASE pc' = At("body")
    BY <2>1, AtType DEF Places
  <2>2. CASE Unused \cup Zombies # {} /\ pc' # At("body")
    <3>1. Lowest(IF Unused # {} THEN Unused ELSE Zombies) \in Slots
      BY <2>2, PickedSlot DEF Unused, Zombies
    <3>2. "fill" \in Places /\ pc.nm \in Names
      BY PCType DEF Places
    <3> QED BY <2>2, <3>1, <3>2, PosType DEF CreatePick
  <2> QED BY <2>1, <2>2 DEF CreatePick
<1>c. OnStack' = cur'
  BY <1>b DEF OnStack
<1>d. pc'.at = "fill" =>
        /\ Unused \cup Zombies # {}
        /\ pc'.t = Lowest(IF Unused # {} THEN Unused ELSE Zombies)
        /\ pc'.t \in Unused \cup Zombies
        /\ pc'.t \in Zombies => Unused = {}
  <2> SUFFICES ASSUME pc'.at = "fill" PROVE
        /\ Unused \cup Zombies # {}
        /\ pc'.t = Lowest(IF Unused # {} THEN Unused ELSE Zombies)
        /\ pc'.t \in Unused \cup Zombies
        /\ pc'.t \in Zombies => Unused = {}
    OBVIOUS
  <2>1. At("body").at = "body" /\ "fill" \in Places /\ pc.nm \in Names
    BY AtType, PCType DEF Places
  <2>2. /\ Unused \cup Zombies # {}
        /\ pc' = Pos("fill", Lowest(IF Unused # {} THEN Unused ELSE Zombies), pc.nm)
    BY <2>1 DEF CreatePick
  <2>3. Lowest(IF Unused # {} THEN Unused ELSE Zombies) \in Unused \cup Zombies
    BY <2>2, PickedSlot
  <2>4. Lowest(IF Unused # {} THEN Unused ELSE Zombies) \in Slots
    BY <2>3 DEF Unused, Zombies
  <2>5. pc'.t = Lowest(IF Unused # {} THEN Unused ELSE Zombies)
    BY <2>1, <2>2, <2>4, PosType
  <2>6. Unused # {} => pc'.t \in Unused
    <3>1. Unused \subseteq Nat
      BY DEF Unused, Slots
    <3> QED BY <2>5, <3>1, LowestIn
  <2> QED BY <2>2, <2>3, <2>5, <2>6 DEF Unused, Zombies
<1>1. CASE Unused = {} /\ Zombies # {}
  <2> DEFINE D == {Lowest(Zombies)}
  <2>1. Lowest(Zombies) \in Zombies
    BY <1>1, PickedSlot
  <2>2. D \in SUBSET Slots /\ 0 \notin D /\ cur \notin D
    BY <2>1, <1>a DEF Zombies
  <2>3. Reclaim(D)
    BY <1>1 DEF CreatePick
  <2>4. TableInv' /\ ContextInv' /\ st'[cur'] = st[cur]
    BY <2>2, <2>3, <1>a, <1>c, ReclaimRest
  <2>5. pc'.at = "fill" => pc'.t # 0 /\ id'[pc'.t] = 0
    BY <1>1, <1>d, <2>1, <2>3 DEF Reclaim, Zombies
  <2>6. PlaceInv'
    BY <2>4, <2>5, <1>a, <1>b DEF PlaceInv
  <2> QED BY <2>4, <2>6 DEF Rest
<1>2. CASE ~(Unused = {} /\ Zombies # {})
  <2>1. UNCHANGED table
    BY <1>2 DEF CreatePick
  <2>2. pc'.at = "fill" => pc'.t # 0 /\ id'[pc'.t] = 0
    BY <1>2, <1>d, <2>1 DEF Unused, Zombies, table
  <2>3. PlaceInv'
    BY <2>1, <2>2, <1>a, <1>b DEF PlaceInv, table
  <2> QED BY <2>1, <2>3, <1>a, <1>c, MoveRest
<1> QED BY <1>1, <1>2

(* CreateFill gives an unused slot an id that no task has.                 *)
LEMMA CreateFillRest ==
    ASSUME TypeOK, Rest, ~raced', Followed, CreateFill
    PROVE  Rest'
<1> USE DEF TypeOK
<1> DEFINE t == pc.t
<1>1. /\ t \in Slots /\ t # 0 /\ id[t] = 0 /\ st[cur] = "RUNNING" /\ t # cur
      /\ OnStack = cur
  BY PCType DEF CreateFill, Rest, PlaceInv, TableInv, OnStack
<1>2. "link" \in Places /\ "none" \in Names
  BY DEF Places, Names
<1>3. pc'.at = "link" /\ pc'.t = t
  BY <1>1, <1>2, PosType DEF CreateFill
<1>4. OnStack' = cur /\ cur' = cur /\ next_id' = next_id + 1
  BY <1>3 DEF CreateFill, OnStack
<1>5. FreshContext(t).stack = t /\ FreshContext(t).pc.at = "body"
  <2>1. At("body") \in PC /\ At("body").at = "body"
    BY AtType DEF Places
  <2> QED BY <2>1 DEF FreshContext, Context
<1>6. /\ id' = [id EXCEPT ![t] = next_id] /\ st' = [st EXCEPT ![t] = "READY"]
      /\ rsp' = [rsp EXCEPT ![t] = FreshContext(t)] /\ prot' = [prot EXCEPT ![t] = 0]
  BY DEF CreateFill
<1>7. TableInv'
  BY <1>1, <1>4, <1>6 DEF Rest, TableInv, Live
<1>8. PlaceInv'
  BY <1>1, <1>3, <1>4, <1>6 DEF Rest, PlaceInv
<1>9. ContextInv'
  BY <1>1, <1>4, <1>5, <1>6 DEF Rest, ContextInv, Live
<1> QED BY <1>7, <1>8, <1>9 DEF Rest

(* CreateLink only changes the ring.                                       *)
LEMMA CreateLinkRest ==
    ASSUME TypeOK, Rest, ~raced', Followed, CreateLink
    PROVE  Rest'
<1>1. /\ st[cur] = "RUNNING" /\ OnStack = cur /\ pc'.at = "body"
      /\ UNCHANGED <<id, st, rsp, prot, cur, next_id>>
  BY AtType DEF CreateLink, Rest, PlaceInv, OnStack, Places
<1>2. OnStack' = cur
  BY <1>1 DEF OnStack
<1> QED BY <1>1, <1>2 DEF Rest, TableInv, PlaceInv, ContextInv, Live

(* Yield makes the running task READY.                                     *)
LEMMA YieldRest ==
    ASSUME TypeOK, Rest, ~raced', Followed, Yield
    PROVE  Rest'
<1> USE DEF TypeOK
<1>1. /\ st[cur] = "RUNNING" /\ OnStack = cur /\ pc'.at = "scan"
      /\ st' = [st EXCEPT ![cur] = "READY"]
      /\ UNCHANGED <<id, rsp, prot, cur, next_id>>
  BY AtType DEF Yield, InBody, Rest, PlaceInv, OnStack, Places
<1>2. OnStack' = cur
  BY <1>1 DEF OnStack
<1> QED BY <1>1, <1>2 DEF Rest, TableInv, PlaceInv, ContextInv, Live

(* Exit makes the running task a zombie.                                   *)
LEMMA ExitRest ==
    ASSUME TypeOK, Rest, ~raced', Followed, Exit
    PROVE  Rest'
<1> USE DEF TypeOK
<1>1. /\ st[cur] = "RUNNING" /\ OnStack = cur /\ pc'.at = "exitscan"
      /\ st' = [st EXCEPT ![cur] = "ZOMBIE"]
      /\ UNCHANGED <<id, rsp, prot, cur, next_id>>
  BY AtType DEF Exit, InBody, Rest, PlaceInv, OnStack, Places
<1>2. OnStack' = cur
  BY <1>1 DEF OnStack
<1> QED BY <1>1, <1>2 DEF Rest, TableInv, PlaceInv, ContextInv, Live

(* YieldScan hands the CPU to a READY task.                                *)
LEMMA YieldScanRest ==
    ASSUME TypeOK, Rest, ~raced', Followed, YieldScan
    PROVE  Rest'
<1> USE DEF TypeOK
<1> DEFINE n == NextReady(cur)
<1>1. /\ st[cur] = "READY" /\ OnStack = cur /\ n \in Slots /\ st[n] = "READY"
      /\ st' = [st EXCEPT ![n] = "RUNNING"] /\ cur' = n
      /\ UNCHANGED <<id, rsp, prot, next_id>>
  BY NextReadyIn DEF YieldScan, Rest, PlaceInv, OnStack, Followed, Ready
<1>2. id[n] # 0
  BY <1>1 DEF Rest, TableInv
<1>3. TableInv'
  BY <1>1, <1>2 DEF Rest, TableInv, Live
<1>4. CASE n = cur
  <2>1. pc'.at = "body" /\ OnStack' = cur
    BY <1>1, <1>4, AtType DEF YieldScan, OnStack, Places
  <2> QED BY <1>1, <1>3, <1>4, <2>1 DEF Rest, PlaceInv, ContextInv, Live
<1>5. CASE n # cur
  <2>1. pc'.at = "switch" /\ pc'.t = cur /\ OnStack' = cur
    <3>1. "switch" \in Places /\ "none" \in Names
      BY DEF Places, Names
    <3> QED BY <1>1, <1>5, <3>1, PosType DEF YieldScan, OnStack
  <2> QED BY <1>1, <1>3, <1>5, <2>1 DEF Rest, PlaceInv, ContextInv, Live
<1> QED BY <1>4, <1>5

(* ExitScan hands the CPU to a READY task or halts.                        *)
LEMMA ExitScanRest ==
    ASSUME TypeOK, Rest, ~raced', Followed, ExitScan
    PROVE  Rest'
<1> USE DEF TypeOK
<1> DEFINE n == NextReady(cur)
<1>1. /\ st[cur] = "ZOMBIE" /\ OnStack = cur /\ n \in Slots
      /\ n # cur => st[n] = "READY"
      /\ UNCHANGED <<id, rsp, prot, next_id>>
  BY NextReadyIn DEF ExitScan, Rest, PlaceInv, OnStack, Followed, Ready
<1>2. CASE n = cur
  <2>1. pc'.at = "halt" /\ OnStack' = cur /\ UNCHANGED <<st, cur>>
    BY <1>1, <1>2, AtType DEF ExitScan, OnStack, Places
  <2> QED BY <1>1, <2>1 DEF Rest, TableInv, PlaceInv, ContextInv, Live
<1>3. CASE n # cur
  <2>1. st' = [st EXCEPT ![n] = "RUNNING"] /\ cur' = n
    BY <1>3 DEF ExitScan
  <2>2. pc'.at = "exitswitch" /\ pc'.t = cur /\ OnStack' = cur
    <3>1. "exitswitch" \in Places /\ "none" \in Names
      BY DEF Places, Names
    <3> QED BY <1>1, <1>3, <2>1, <3>1, PosType DEF ExitScan, OnStack
  <2>3. id[n] # 0
    BY <1>1, <1>3 DEF Rest, TableInv
  <2>4. TableInv'
    BY <1>1, <1>3, <2>1, <2>3 DEF Rest, TableInv, Live
  <2> QED BY <1>1, <1>3, <2>1, <2>2, <2>4 DEF Rest, PlaceInv, ContextInv, Live
<1> QED BY <1>2, <1>3

(* YieldSwitch saves the old task on its own stack and resumes the new one. *)
LEMMA YieldSwitchRest ==
    ASSUME TypeOK, Rest, ~raced', Followed, YieldSwitch
    PROVE  Rest'
<1> USE DEF TypeOK
<1> DEFINE o == pc.t
<1>1. /\ o \in Slots /\ o # cur /\ OnStack = o /\ st[o] = "READY"
      /\ st[cur] = "RUNNING" /\ id[cur] # 0
      /\ UNCHANGED <<id, st, prot, cur, next_id>>
  BY PCType DEF YieldSwitch, Rest, TableInv, PlaceInv, OnStack
<1>2. rsp[cur].pc.at = "body"
  BY <1>1 DEF Rest, ContextInv, Live
<1>3. pc' = rsp[cur].pc
  BY DEF YieldSwitch, Resume
<1>4. OnStack' = cur
  BY <1>1, <1>2, <1>3 DEF OnStack
<1>5. /\ Context(o, FALSE, iflag, At("body")).stack = o
      /\ Context(o, FALSE, iflag, At("body")).pc.at = "body"
  <2>1. At("body") \in PC /\ At("body").at = "body"
    BY AtType DEF Places
  <2> QED BY <2>1 DEF Context
<1>6. \A s \in Slots \ {cur} :
        rsp'[s] = IF s = o THEN Context(o, FALSE, iflag, At("body")) ELSE rsp[s]
  BY <1>1 DEF YieldSwitch
<1>7. ContextInv'
  <2> SUFFICES ASSUME NEW s \in (Live \ {OnStack})'
               PROVE  (rsp[s].stack = s /\ (st[s] # "ZOMBIE" => rsp[s].pc.at = "body"))'
    BY DEF ContextInv
  <2>1. s \in Slots \ {cur} /\ s \in Live
    BY <1>1, <1>4 DEF Live
  <2>2. CASE s = o
    BY <1>1, <1>5, <1>6, <2>1, <2>2
  <2>3. CASE s # o
    <3>1. rsp'[s] = rsp[s] /\ st'[s] = st[s]
      BY <1>1, <1>6, <2>1, <2>3
    <3>2. s \in Live \ {OnStack}
      BY <1>1, <2>1, <2>3
    <3> QED BY <3>1, <3>2 DEF Rest, ContextInv
  <2> QED BY <2>2, <2>3
<1>8. PlaceInv'
  BY <1>1, <1>2, <1>3 DEF Rest, PlaceInv
<1>9. TableInv'
  BY <1>1 DEF Rest, TableInv, Live
<1> QED BY <1>7, <1>8, <1>9 DEF Rest

(* ExitSwitch saves the old task on its own stack and resumes the new one. *)
LEMMA ExitSwitchRest ==
    ASSUME TypeOK, Rest, ~raced', Followed, ExitSwitch
    PROVE  Rest'
<1> USE DEF TypeOK
<1> DEFINE o == pc.t
<1>1. /\ o \in Slots /\ o # cur /\ OnStack = o /\ st[o] = "ZOMBIE"
      /\ st[cur] = "RUNNING" /\ id[cur] # 0
      /\ UNCHANGED <<id, st, prot, cur, next_id>>
  BY PCType DEF ExitSwitch, Rest, TableInv, PlaceInv, OnStack
<1>2. rsp[cur].pc.at = "body"
  BY <1>1 DEF Rest, ContextInv, Live
<1>3. pc' = rsp[cur].pc
  BY DEF ExitSwitch, Resume
<1>4. OnStack' = cur
  BY <1>1, <1>2, <1>3 DEF OnStack
<1>5. /\ Context(o, FALSE, iflag, At("dead")).stack = o
      /\ Context(o, FALSE, iflag, At("dead")).pc.at = "dead"
  <2>1. At("dead") \in PC /\ At("dead").at = "dead"
    BY AtType DEF Places
  <2> QED BY <2>1 DEF Context
<1>6. \A s \in Slots \ {cur} :
        rsp'[s] = IF s = o THEN Context(o, FALSE, iflag, At("dead")) ELSE rsp[s]
  BY <1>1 DEF ExitSwitch
<1>7. ContextInv'
  <2> SUFFICES ASSUME NEW s \in (Live \ {OnStack})'
               PROVE  (rsp[s].stack = s /\ (st[s] # "ZOMBIE" => rsp[s].pc.at = "body"))'
    BY DEF ContextInv
  <2>1. s \in Slots \ {cur} /\ s \in Live
    BY <1>1, <1>4 DEF Live
  <2>2. CASE s = o
    BY <1>1, <1>5, <1>6, <2>1, <2>2
  <2>3. CASE s # o
    <3>1. rsp'[s] = rsp[s] /\ st'[s] = st[s]
      BY <1>1, <1>6, <2>1, <2>3
    <3>2. s \in Live \ {OnStack}
      BY <1>1, <2>1, <2>3
    <3> QED BY <3>1, <3>2 DEF Rest, ContextInv
  <2> QED BY <2>2, <2>3
<1>8. PlaceInv'
  BY <1>1, <1>2, <1>3 DEF Rest, PlaceInv
<1>9. TableInv'
  BY <1>1 DEF Rest, TableInv, Live
<1> QED BY <1>7, <1>8, <1>9 DEF Rest

(* A tick in a task's body saves it on its own stack.                      *)
LEMMA TickRest ==
    ASSUME TypeOK, Rest, ~raced', Followed, Tick
    PROVE  Rest'
<1> USE DEF TypeOK
<1> DEFINE n == NextReady(cur)
<1>1. pc.at = "body" /\ ~raced
  BY DEF Tick, Rest, PlaceInv
<1>2. /\ OnStack = cur /\ st[cur] = "RUNNING" /\ id[cur] # 0
      /\ n \in Slots /\ n # cur /\ st[n] = "READY"
  BY <1>1, NextReadyIn DEF Tick, CanPreempt, Rest, PlaceInv, TableInv, OnStack, Followed, Ready
<1>3. id[n] # 0
  BY <1>2 DEF Rest, TableInv
<1>4. rsp[n].pc.at = "body"
  BY <1>2, <1>3 DEF Rest, ContextInv, Live
<1>5. /\ st' = [st EXCEPT ![cur] = "READY", ![n] = "RUNNING"] /\ cur' = n
      /\ pc' = rsp[n].pc
      /\ UNCHANGED <<id, prot, next_id>>
  BY <1>2 DEF Tick, Resume
<1>6. OnStack' = n
  BY <1>4, <1>5 DEF OnStack
<1>7. Context(cur, TRUE, TRUE, pc).stack = cur /\ Context(cur, TRUE, TRUE, pc).pc = pc
  BY DEF Context
<1>8. \A s \in Slots \ {n} :
        rsp'[s] = IF s = cur THEN Context(cur, TRUE, TRUE, pc) ELSE rsp[s]
  BY <1>2 DEF Tick
<1>9. ContextInv'
  <2> SUFFICES ASSUME NEW s \in (Live \ {OnStack})'
               PROVE  (rsp[s].stack = s /\ (st[s] # "ZOMBIE" => rsp[s].pc.at = "body"))'
    BY DEF ContextInv
  <2>1. s \in Slots \ {n} /\ s \in Live
    BY <1>5, <1>6 DEF Live
  <2>2. CASE s = cur
    BY <1>1, <1>7, <1>8, <2>1, <2>2
  <2>3. CASE s # cur
    <3>1. rsp'[s] = rsp[s] /\ st'[s] = st[s]
      BY <1>2, <1>5, <1>8, <2>1, <2>3
    <3>2. s \in Live \ {OnStack}
      BY <1>2, <2>1, <2>3
    <3> QED BY <3>1, <3>2 DEF Rest, ContextInv
  <2> QED BY <2>2, <2>3
<1>10. PlaceInv'
  BY <1>2, <1>4, <1>5 DEF Rest, PlaceInv
<1>11. TableInv'
  BY <1>2, <1>3, <1>5 DEF Rest, TableInv, Live
<1> QED BY <1>9, <1>10, <1>11 DEF Rest


(* The functions between cli and sti.  In all of them the caller runs in   *)
(* its body or in its user program, on its own stack.                      *)
LEMMA CalledFrom ==
    ASSUME Rest, pc.at \in {"body", "user"}, UnchangedByTableOps
    PROVE  /\ OnStack = cur /\ OnStack' = cur' /\ UNCHANGED <<cur, next_id, pc>>
           /\ st[cur] = "RUNNING"
           /\ st'[cur'] = st[cur] => PlaceInv'
BY DEF Rest, PlaceInv, OnStack, UnchangedByTableOps

(* task_kill never removes slot 0 nor the caller.                          *)
LEMMA KillRest ==
    ASSUME TypeOK, Rest, ~raced', Followed, NEW i \in Ids, Kill(i)
    PROVE  Rest'
<1> DEFINE K == {s \in Find(i) : ~Protected(s) /\ s # cur}
<1>1. pc.at \in {"body", "user"} /\ UnchangedByTableOps
  BY DEF Kill, Caller
<1>2. K \in SUBSET Slots /\ 0 \notin K /\ cur \notin K
  BY DEF Find, Protected, Rest, TableInv
<1>3. CASE K = {}
  BY <1>1, <1>3, CalledFrom, MoveRest DEF Kill, table
<1>4. CASE K # {}
  <2>1. Reclaim(K)
    BY <1>4 DEF Kill
  <2> HIDE DEF K
  <2> QED BY <1>1, <1>2, <2>1, CalledFrom, ReclaimRest DEF Rest
<1> QED BY <1>3, <1>4

(* task_kill_all never removes slot 0 nor the caller.                      *)
LEMMA KillAllRest ==
    ASSUME TypeOK, Rest, ~raced', Followed, KillAll
    PROVE  Rest'
<1> DEFINE K == {s \in Live \ {0, cur} : ~Protected(s)}
<1>1. pc.at \in {"body", "user"} /\ UnchangedByTableOps /\ Reclaim(K)
  BY DEF KillAll, InBody
<1>2. K \in SUBSET Slots /\ 0 \notin K /\ cur \notin K
  BY DEF Live
<1> HIDE DEF K
<1> QED BY <1>1, <1>2, CalledFrom, ReclaimRest DEF Rest

(* task_reap_zombies never removes slot 0 nor the caller.                  *)
LEMMA ReapRest ==
    ASSUME TypeOK, Rest, ~raced', Followed, Reap
    PROVE  Rest'
<1> DEFINE K == Zombies \ {cur}
<1>1. pc.at \in {"body", "user"} /\ UnchangedByTableOps /\ Reclaim(K)
  BY DEF Reap, InBody
<1>2. K \in SUBSET Slots /\ 0 \notin K /\ cur \notin K
  BY DEF Zombies
<1> HIDE DEF K
<1> QED BY <1>1, <1>2, CalledFrom, ReclaimRest DEF Rest

(* A step that changes only the states of tasks with an id, other than the *)
(* caller, and neither to nor from RUNNING nor from ZOMBIE.                *)
LEMMA StatesRest ==
    ASSUME TypeOK, Rest, pc.at \in {"body", "user"}, UnchangedByTableOps,
           UNCHANGED <<id, rsp, prot>>,
           st'[cur] = st[cur],
           \A s \in Slots : st'[s] # st[s] => /\ st[s] # "ZOMBIE" /\ st'[s] # "RUNNING"
                                             /\ id[s] # 0
    PROVE  Rest'
<1>1. /\ OnStack = cur /\ OnStack' = cur /\ UNCHANGED <<cur, next_id, pc>> /\ PlaceInv'
  BY CalledFrom DEF UnchangedByTableOps
<1>2. Live' = Live
  BY DEF Live
<1>3. TableInv'
  BY <1>1, <1>2 DEF Rest, TableInv, TypeOK
<1>4. ContextInv'
  BY <1>1, <1>2 DEF Rest, ContextInv, Live
<1> QED BY <1>1, <1>3, <1>4 DEF Rest

(* task_stop never stops the caller.                                       *)
LEMMA StopRest ==
    ASSUME TypeOK, Rest, ~raced', Followed, NEW i \in Ids, Stop(i)
    PROVE  Rest'
<1>1. /\ pc.at \in {"body", "user"} /\ UnchangedByTableOps
      /\ UNCHANGED <<id, rsp, prot>>
  BY DEF Stop, Caller
<1>2. st'[cur] = st[cur]
  BY DEF Stop, TypeOK
<1>3. ASSUME NEW s \in Slots, st'[s] # st[s]
      PROVE  st[s] # "ZOMBIE" /\ st'[s] # "RUNNING" /\ id[s] # 0
  <2>1. st[s] \in {"READY", "RUNNING"} /\ st'[s] = "STOPPED"
    BY <1>3 DEF Stop
  <2> QED BY <2>1 DEF Rest, TableInv
<1> QED BY <1>1, <1>2, <1>3, StatesRest

(* task_continue only makes stopped tasks READY.                           *)
LEMMA ContinueRest ==
    ASSUME TypeOK, Rest, ~raced', Followed, NEW i \in Ids, Continue(i)
    PROVE  Rest'
<1>1. /\ pc.at \in {"body", "user"} /\ UnchangedByTableOps
      /\ UNCHANGED <<id, rsp, prot>>
  BY DEF Continue, Caller
<1>2. st[cur] = "RUNNING"
  BY <1>1, CalledFrom
<1>3. st'[cur] = st[cur]
  BY <1>2 DEF Continue, TypeOK
<1>4. ASSUME NEW s \in Slots, st'[s] # st[s]
      PROVE  st[s] # "ZOMBIE" /\ st'[s] # "RUNNING" /\ id[s] # 0
  <2>1. st[s] = "STOPPED" /\ st'[s] = "READY"
    BY <1>4 DEF Continue
  <2> QED BY <2>1 DEF Rest, TableInv
<1> QED BY <1>1, <1>3, <1>4, StatesRest

(* task_set_protection never touches slot 0.                               *)
LEMMA ProtectRest ==
    ASSUME TypeOK, Rest, ~raced', Followed, NEW i \in Ids, NEW on \in BOOLEAN,
           Protect(i, on)
    PROVE  Rest'
<1>1. /\ pc.at \in {"body", "user"} /\ UnchangedByTableOps
      /\ UNCHANGED <<id, st, rsp>>
  BY DEF Protect, InBody
<1>2. prot'[0] = prot[0]
  BY DEF Protect, Slots
<1>3. /\ OnStack = cur /\ OnStack' = cur /\ UNCHANGED <<cur, next_id, pc>> /\ PlaceInv'
  BY <1>1, CalledFrom DEF UnchangedByTableOps
<1>4. TableInv'
  BY <1>1, <1>2, <1>3 DEF Rest, TableInv, Live
<1>5. ContextInv'
  BY <1>1, <1>3 DEF Rest, ContextInv, Live
<1> QED BY <1>3, <1>4, <1>5 DEF Rest

-----------------------------------------------------------------------------
(* The theorems.                                                           *)

LEMMA InitInv == Init => IInv
<1> SUFFICES ASSUME Init PROVE IInv
  OBVIOUS
<1>1. TypeOK
  BY InitType
<1>2. pc.at = "body"
  BY AtType DEF Init, Places
<1>3. TableInv
  BY DEF Init, TableInv, Live, Slots
<1>4. PlaceInv
  BY <1>2 DEF Init, PlaceInv, Slots
<1>5. ContextInv
  BY <1>2 DEF Init, ContextInv, OnStack, Live
<1> QED BY <1>1, <1>3, <1>4, <1>5 DEF IInv

(* No step takes a race back.                                              *)
LEMMA RacedStays ==
    ASSUME [Next]_vars, ~raced' PROVE ~raced
<1> USE DEF UnchangedByTableOps, EnsureShell
<1>1. ASSUME SchedulerStep PROVE ~raced
  BY <1>1 DEF SchedulerStep, CreatePick, CreateFill, CreateLink, YieldScan,
              YieldSwitch, ExitScan, ExitSwitch
<1>2. ASSUME KernelLoop PROVE ~raced
  BY <1>2 DEF KernelLoop, BootShell, BootSerial, RespawnShell, Yield
<1>3. ASSUME Tick PROVE ~raced
  BY <1>3 DEF Tick
<1>4. ASSUME Command PROVE ~raced
  BY <1>4 DEF Command, CreateJob, SetWatchdog, SetPreemption, KillAll, Reap, Exit,
              Kill, Stop, Continue, Protect, ExecUser, UserExit
<1> QED BY <1>1, <1>2, <1>3, <1>4 DEF Next, vars

LEMMA StepInv ==
    ASSUME IInv, [Next]_vars
    PROVE  IInv'
<1>1. TypeOK'
  BY TypeStep DEF IInv
<1>2. ASSUME ~raced' PROVE Rest'
  <2>1. ~raced
    BY <1>2, RacedStays
  <2>2. TypeOK /\ Rest
    BY <2>1 DEF IInv, Rest
  <2>3. CASE UNCHANGED vars
    BY <2>2, <2>3 DEF vars, Rest, TableInv, PlaceInv, ContextInv, Live, OnStack
  <2>4. CASE Followed /\ SchedulerStep
    BY <1>2, <2>2, <2>4, CreatePickRest, CreateFillRest, CreateLinkRest,
       YieldScanRest, YieldSwitchRest, ExitScanRest, ExitSwitchRest DEF SchedulerStep
  <2>5. CASE Followed /\ KernelLoop
    BY <1>2, <2>2, <2>5, BootShellRest, BootSerialRest, RespawnShellRest, YieldRest
       DEF KernelLoop
  <2>6. CASE Followed /\ Command
    BY <1>2, <2>2, <2>6, CreateJobRest, SetWatchdogRest, SetPreemptionRest,
       KillAllRest, ReapRest, ExitRest, KillRest, StopRest, ContinueRest,
       ProtectRest, ExecUserRest, UserExitRest DEF Command
  <2>7. CASE Followed /\ Tick
    BY <1>2, <2>2, <2>7, TickRest
  <2> QED BY <2>3, <2>4, <2>5, <2>6, <2>7 DEF Next
<1> QED BY <1>1, <1>2 DEF IInv, Rest

(* The inductive invariant holds in every reachable state.                 *)
THEOREM Invariance == Spec => []IInv
<1>1. Init => IInv
  BY InitInv
<1>2. IInv /\ [Next]_vars => IInv'
  BY StepInv
<1> QED BY <1>1, <1>2, PTL DEF Spec

(* Until a tick hits the scheduler's own code, current_task is the only    *)
(* RUNNING task and is RUNNING whenever it is not between giving up the    *)
(* CPU and do_switch_to_next's choice.                                     *)
THEOREM OneRuns == Spec => []OnlyCurrentRuns
<1>1. IInv => OnlyCurrentRuns
  <2> SUFFICES ASSUME IInv, ~raced
               PROVE  /\ \A s \in Live : st[s] = "RUNNING" => s = cur
                      /\ pc.at \notin {"scan", "exitscan", "halt"} => st[cur] = "RUNNING"
    BY DEF OnlyCurrentRuns
  <2>1. pc.at \in Places /\ TableInv /\ PlaceInv
    BY PCType DEF IInv, TypeOK
  <2> QED BY <2>1 DEF TableInv, PlaceInv, Live, Places
<1> QED BY <1>1, Invariance, PTL

(* Until a tick hits the scheduler's own code, every task off the CPU has  *)
(* its saved context on its own stack, so that task_switch resumes it.     *)
THEOREM ContextsOnOwnStack == Spec => []ContextsSound
<1>1. IInv => ContextsSound
  BY DEF IInv, ContextInv, ContextsSound
<1> QED BY <1>1, Invariance, PTL

(* Until a tick hits the scheduler's own code, the CPU never returns to a  *)
(* task that has exited: the loop that follows task_exit's switch is not   *)
(* reached.                                                                *)
THEOREM DeadCodeUnreached == Spec => [](~raced => pc.at # "dead")
<1>1. IInv => (~raced => pc.at # "dead")
  BY DEF IInv, PlaceInv
<1> QED BY <1>1, Invariance, PTL

-----------------------------------------------------------------------------
(* What a step may do to a task.                                           *)

(* A protected task that has not exited keeps its slot and is neither      *)
(* stopped nor made a zombie by another task.                              *)
Survives ==
    \A s \in Live :
      Protected(s) /\ st[s] # "ZOMBIE" =>
        id'[s] = id[s] /\ (st'[s] = "STOPPED" => st[s] = "STOPPED")
        /\ (st'[s] = "ZOMBIE" => s = cur)

(* A task that keeps its id does not come back from its exit, nor from     *)
(* STOPPED otherwise than through READY.                                   *)
NotRevived ==
    \A s \in Live : id'[s] = id[s] =>
      /\ st[s] = "ZOMBIE" => st'[s] = "ZOMBIE"
      /\ st[s] = "STOPPED" => st'[s] \in {"STOPPED", "READY"}

(* A step that leaves the ids and the states alone.                        *)
LEMMA QuietKeeps ==
    ASSUME UNCHANGED <<id, st>>
    PROVE  Survives /\ NotRevived
BY DEF Survives, NotRevived

(* Freeing the slots of zombies and of unprotected tasks.                  *)
LEMMA ReclaimKeeps ==
    ASSUME TypeOK, NEW D, D \subseteq Slots, Reclaim(D),
           \A s \in D : st[s] = "ZOMBIE" \/ ~Protected(s)
    PROVE  Survives /\ NotRevived
<1> SUFFICES ASSUME NEW s \in Live
             PROVE  /\ Protected(s) /\ st[s] # "ZOMBIE" =>
                         id'[s] = id[s] /\ (st'[s] = "STOPPED" => st[s] = "STOPPED")
                         /\ (st'[s] = "ZOMBIE" => s = cur)
                    /\ id'[s] = id[s] =>
                         /\ st[s] = "ZOMBIE" => st'[s] = "ZOMBIE"
                         /\ st[s] = "STOPPED" => st'[s] \in {"STOPPED", "READY"}
  BY DEF Survives, NotRevived
<1>1. s \in Slots /\ id[s] # 0
  BY DEF Live
<1>2. CASE s \in D
  <2>1. id'[s] = 0
    BY <1>1, <1>2 DEF Reclaim
  <2> QED BY <1>1, <1>2, <2>1
<1>3. CASE s \notin D
  <2>1. id'[s] = id[s] /\ st'[s] = st[s]
    BY <1>1, <1>3 DEF Reclaim
  <2> QED BY <2>1
<1> QED BY <1>2, <1>3

(* task_create takes the slot of an unused or of an exited task.           *)
LEMMA CreateKeeps ==
    ASSUME TypeOK, Rest, Followed, CreatePick \/ CreateFill \/ CreateLink
    PROVE  Survives /\ NotRevived
<1>1. CASE CreatePick
  <2>1. CASE Unused = {} /\ Zombies # {}
    <3>1. Lowest(Zombies) \in Zombies
      BY <2>1, PickedSlot
    <3>2. Reclaim({Lowest(Zombies)})
      BY <1>1, <2>1 DEF CreatePick
    <3> QED BY <3>1, <3>2, ReclaimKeeps DEF Zombies
  <2>2. CASE ~(Unused = {} /\ Zombies # {})
    BY <1>1, <2>2, QuietKeeps DEF CreatePick, table
  <2> QED BY <2>1, <2>2
<1>2. CASE CreateFill
  <2>1. pc.t \in Slots /\ id[pc.t] = 0
    BY <1>2, PCType DEF CreateFill, Rest, PlaceInv, TypeOK
  <2>2. \A s \in Live : id'[s] = id[s] /\ st'[s] = st[s]
    BY <1>2, <2>1 DEF CreateFill, Live, TypeOK
  <2> QED BY <2>2 DEF Survives, NotRevived
<1>3. CASE CreateLink
  BY <1>3, QuietKeeps DEF CreateLink
<1> QED BY <1>1, <1>2, <1>3

(* The running task gives up the CPU, and a READY task gets it.            *)
LEMMA SwitchKeeps ==
    ASSUME TypeOK, Rest, ~raced', Followed,
           Yield \/ YieldScan \/ YieldSwitch \/ Exit \/ ExitScan \/ ExitSwitch \/ Tick
    PROVE  Survives /\ NotRevived
<1> USE DEF TypeOK
<1> DEFINE n == NextReady(cur)
<1>1. n \in Slots /\ (n # cur => st[n] = "READY")
  BY NextReadyIn DEF Followed, Ready
<1>2. CASE Yield
  <2>1. st[cur] = "RUNNING"
    BY <1>2 DEF Yield, InBody, Rest, PlaceInv
  <2> QED BY <1>2, <2>1 DEF Yield, Survives, NotRevived, Live
<1>3. CASE YieldScan
  <2>1. st[n] = "READY" /\ st' = [st EXCEPT ![n] = "RUNNING"] /\ id' = id
    BY <1>1, <1>3 DEF YieldScan, Rest, PlaceInv
  <2> QED BY <1>1, <2>1 DEF Survives, NotRevived, Live
<1>4. CASE Exit
  <2>1. st[cur] = "RUNNING"
    BY <1>4 DEF Exit, InBody, Rest, PlaceInv
  <2> QED BY <1>4, <2>1 DEF Exit, Survives, NotRevived, Live
<1>5. CASE ExitScan
  <2>1. st[cur] = "ZOMBIE" /\ id' = id
    BY <1>5 DEF ExitScan, Rest, PlaceInv
  <2>2. CASE n = cur
    BY <1>5, <2>1, <2>2, QuietKeeps DEF ExitScan
  <2>3. CASE n # cur
    <3>1. st' = [st EXCEPT ![n] = "RUNNING"]
      BY <1>5, <2>3 DEF ExitScan
    <3> QED BY <1>1, <2>1, <2>3, <3>1 DEF Survives, NotRevived, Live
  <2> QED BY <2>2, <2>3
<1>6. CASE YieldSwitch \/ ExitSwitch
  BY <1>6, QuietKeeps DEF YieldSwitch, ExitSwitch
<1>7. CASE Tick
  <2>1. pc.at = "body" /\ st[cur] = "RUNNING"
    BY <1>7 DEF Tick, Rest, PlaceInv
  <2>2. n # cur /\ st' = [st EXCEPT ![cur] = "READY", ![n] = "RUNNING"] /\ id' = id
    BY <1>7 DEF Tick, CanPreempt
  <2> QED BY <1>1, <2>1, <2>2 DEF Survives, NotRevived, Live
<1> QED BY <1>2, <1>3, <1>4, <1>5, <1>6, <1>7

(* kill, kill-all and reap spare protected tasks, as far as they live.     *)
LEMMA RemovalKeeps ==
    ASSUME TypeOK, KillAll \/ Reap \/ \E i \in Ids : Kill(i)
    PROVE  Survives /\ NotRevived
<1>1. CASE KillAll
  <2> DEFINE K == {s \in Live \ {0, cur} : ~Protected(s)}
  <2>1. Reclaim(K) /\ K \subseteq Slots /\ \A s \in K : ~Protected(s)
    BY <1>1 DEF KillAll, Live
  <2> HIDE DEF K
  <2> QED BY <2>1, ReclaimKeeps
<1>2. CASE Reap
  <2> DEFINE K == Zombies \ {cur}
  <2>1. Reclaim(K) /\ K \subseteq Slots /\ \A s \in K : st[s] = "ZOMBIE"
    BY <1>2 DEF Reap, Zombies
  <2> HIDE DEF K
  <2> QED BY <2>1, ReclaimKeeps
<1>3. ASSUME NEW i \in Ids, Kill(i) PROVE Survives /\ NotRevived
  <2> DEFINE K == {s \in Find(i) : ~Protected(s) /\ s # cur}
  <2>1. CASE K = {}
    BY <1>3, <2>1, QuietKeeps DEF Kill, table
  <2>2. CASE K # {}
    <3>1. Reclaim(K) /\ K \subseteq Slots /\ \A s \in K : ~Protected(s)
      BY <1>3, <2>2 DEF Kill, Find
    <3> HIDE DEF K
    <3> QED BY <3>1, ReclaimKeeps
  <2> QED BY <2>1, <2>2
<1> QED BY <1>1, <1>2, <1>3

(* stop spares protected tasks and zombies, continue asks for STOPPED.     *)
LEMMA SignalKeeps ==
    ASSUME TypeOK, NEW i \in Ids, Stop(i) \/ Continue(i)
    PROVE  Survives /\ NotRevived
<1>1. CASE Stop(i)
  <2>1. id' = id
    BY <1>1 DEF Stop
  <2>2. \A s \in Live : st'[s] = st[s] \/ (/\ st'[s] = "STOPPED" /\ ~Protected(s)
                                           /\ st[s] \in {"READY", "RUNNING"})
    BY <1>1 DEF Stop, Live
  <2> QED BY <2>1, <2>2 DEF Survives, NotRevived
<1>2. CASE Continue(i)
  <2>1. id' = id
    BY <1>2 DEF Continue
  <2>2. \A s \in Live : st'[s] = st[s] \/ (st'[s] = "READY" /\ st[s] = "STOPPED")
    BY <1>2 DEF Continue, Live
  <2> QED BY <2>1, <2>2 DEF Survives, NotRevived
<1> QED BY <1>1, <1>2

(* The remaining steps leave the ids and the states alone.                 *)
LEMMA OtherKeeps ==
    ASSUME \/ BootShell \/ BootSerial \/ RespawnShell
           \/ CreateJob \/ SetWatchdog \/ SetPreemption
           \/ \E i \in Ids, on \in BOOLEAN : Protect(i, on)
           \/ ExecUser \/ \E fault \in BOOLEAN : UserExit(fault)
           \/ UNCHANGED vars
    PROVE  Survives /\ NotRevived
<1>1. UNCHANGED <<id, st>>
  BY DEF BootShell, BootSerial, RespawnShell, EnsureShell, CreateJob, SetWatchdog,
         SetPreemption, Protect, ExecUser, UserExit, table, vars
<1> QED BY <1>1, QuietKeeps

LEMMA StepKeeps ==
    ASSUME IInv, [Next]_vars, ~raced'
    PROVE  Survives /\ NotRevived
<1>1. TypeOK /\ Rest
  BY RacedStays DEF IInv, Rest
<1>2. CASE UNCHANGED vars
  BY <1>2, OtherKeeps
<1>3. CASE Followed /\ SchedulerStep
  BY <1>1, <1>3, CreateKeeps, SwitchKeeps DEF SchedulerStep
<1>4. CASE Followed /\ KernelLoop
  BY <1>1, <1>4, SwitchKeeps, OtherKeeps DEF KernelLoop
<1>5. CASE Followed /\ Command
  BY <1>1, <1>5, SwitchKeeps, RemovalKeeps, SignalKeeps, OtherKeeps DEF Command
<1>6. CASE Followed /\ Tick
  BY <1>1, <1>6, SwitchKeeps
<1> QED BY <1>2, <1>3, <1>4, <1>5, <1>6 DEF Next

(* Until a tick hits the scheduler's own code, no command and no reuse of  *)
(* a slot removes or stops a task that is_protected_task protects and that *)
(* has not exited.                                                         *)
THEOREM ProtectedTasksSurvive == Spec => ProtectedSurvives
<1>1. IInv /\ [Next]_vars =>
        [~raced' => \A s \in Live :
           Protected(s) /\ st[s] # "ZOMBIE" =>
             id'[s] = id[s] /\ (st'[s] = "STOPPED" => st[s] = "STOPPED")
             /\ (st'[s] = "ZOMBIE" => s = cur)]_vars
  BY StepKeeps DEF Survives
<1> QED BY <1>1, Invariance, PTL DEF Spec, ProtectedSurvives

(* Until a tick hits the scheduler's own code, an exited task is never     *)
(* scheduled again and a stopped one waits for task_continue.              *)
THEOREM ExitIsFinal == Spec => NoResurrection
<1>1. IInv /\ [Next]_vars =>
        [~raced' => \A s \in Live : id'[s] = id[s] =>
           /\ st[s] = "ZOMBIE" => st'[s] = "ZOMBIE"
           /\ st[s] = "STOPPED" => st'[s] \in {"STOPPED", "READY"}]_vars
  BY StepKeeps DEF NotRevived
<1> QED BY <1>1, Invariance, PTL DEF Spec, NoResurrection

-----------------------------------------------------------------------------
(* One shell.                                                              *)

(* A second shell is never linked because none is asked for while one      *)
(* lives: the thread that is creating a shell has seen none, and no other  *)
(* thread is between the look and the creation.  A shell never exits.      *)
ShellInv ==
    /\ \A s, t \in Live : name[s] = "shell" /\ name[t] = "shell" => s = t
    /\ \A s \in Live : name[s] = "shell" => st[s] # "ZOMBIE"
    /\ pc.at \in {"pick", "fill"} /\ pc.nm = "shell" => \A s \in Live : name[s] # "shell"

(* The obligation of a thread that starts or goes on creating a task.      *)
AsksSafely ==
    pc'.at \in {"pick", "fill"} /\ pc'.nm = "shell" => \A s \in Live : name[s] # "shell"

(* A step that neither creates nor removes a task nor ends a shell.        *)
LEMMA ShellsKept ==
    ASSUME ShellInv, UNCHANGED <<id, name>>, AsksSafely,
           \A s \in Live : name[s] = "shell" => st'[s] # "ZOMBIE"
    PROVE  ShellInv'
<1>1. Live' = Live
  BY DEF Live
<1> QED BY <1>1 DEF ShellInv, AsksSafely

LEMMA ShellsReclaimed ==
    ASSUME TypeOK, ShellInv, NEW D, D \subseteq Slots, Reclaim(D), AsksSafely
    PROVE  ShellInv'
<1>1. \A s \in Slots : /\ s \notin D => id'[s] = id[s] /\ st'[s] = st[s] /\ name'[s] = name[s]
                       /\ s \in D => id'[s] = 0
  BY DEF Reclaim
<1>2. Live' = Live \ D
  BY <1>1 DEF Live
<1> QED BY <1>1, <1>2 DEF ShellInv, AsksSafely, Live

LEMMA CreateShells ==
    ASSUME TypeOK, Rest, ShellInv, Followed, CreatePick \/ CreateFill \/ CreateLink
    PROVE  ShellInv'
<1> USE DEF TypeOK
<1>0. At("body").at = "body" /\ {"fill", "link"} \subseteq Places /\ "none" \in Names
  BY AtType DEF Places, Names
<1>1. CASE CreatePick
  <2>1. AsksSafely
    <3>1. CASE pc' = At("body")
      BY <3>1, <1>0 DEF AsksSafely
    <3>2. CASE pc' # At("body")
      <4>1. /\ Unused \cup Zombies # {}
            /\ pc' = Pos("fill", Lowest(IF Unused # {} THEN Unused ELSE Zombies), pc.nm)
        BY <1>1, <3>2 DEF CreatePick
      <4>2. Lowest(IF Unused # {} THEN Unused ELSE Zombies) \in Slots
        BY <4>1, PickedSlot DEF Unused, Zombies
      <4>3. pc'.nm = pc.nm
        BY <1>0, <4>1, <4>2, PosType, PCType
      <4> QED BY <1>1, <4>3 DEF CreatePick, AsksSafely, ShellInv
    <3> QED BY <3>1, <3>2
  <2>2. CASE Unused = {} /\ Zombies # {}
    <3>1. Lowest(Zombies) \in Zombies
      BY <2>2, PickedSlot
    <3>2. Reclaim({Lowest(Zombies)}) /\ {Lowest(Zombies)} \subseteq Slots
      BY <1>1, <2>2, <3>1 DEF CreatePick, Zombies
    <3> QED BY <2>1, <3>2, ShellsReclaimed
  <2>3. CASE ~(Unused = {} /\ Zombies # {})
    <3>1. UNCHANGED <<id, st, name>>
      BY <1>1, <2>3 DEF CreatePick, table
    <3> QED BY <2>1, <3>1, ShellsKept DEF ShellInv
  <2> QED BY <2>2, <2>3
<1>2. CASE CreateFill
  <2> DEFINE t == pc.t
  <2>1. t \in Slots /\ id[t] = 0 /\ pc.nm \in Names
    BY <1>2, PCType DEF CreateFill, Rest, PlaceInv
  <2>2. pc'.at = "link"
    BY <1>0, <1>2, <2>1, PosType DEF CreateFill
  <2>3. /\ name' = [name EXCEPT ![t] = pc.nm] /\ st' = [st EXCEPT ![t] = "READY"]
        /\ id' = [id EXCEPT ![t] = next_id]
    BY <1>2 DEF CreateFill
  <2>4. \A s \in Live' : s = t \/ (s \in Live /\ s # t)
    BY <2>1, <2>3 DEF Live
  <2>5. pc.nm = "shell" => \A s \in Live : name[s] # "shell"
    BY <1>2 DEF CreateFill, ShellInv
  <2>6. name'[t] = pc.nm /\ st'[t] = "READY"
    BY <2>1, <2>3
  <2>7. \A s \in Live : s # t => name'[s] = name[s] /\ st'[s] = st[s]
    BY <2>1, <2>3 DEF Live
  <2> HIDE DEF t
  <2> QED BY <2>2, <2>4, <2>5, <2>6, <2>7 DEF ShellInv
<1>3. CASE CreateLink
  BY <1>0, <1>3, ShellsKept DEF CreateLink, AsksSafely, ShellInv
<1> QED BY <1>1, <1>2, <1>3

LEMMA SwitchShells ==
    ASSUME TypeOK, Rest, ShellInv, ~raced', Followed,
           Yield \/ YieldScan \/ YieldSwitch \/ Exit \/ ExitScan \/ ExitSwitch \/ Tick
    PROVE  ShellInv'
<1> USE DEF TypeOK
<1> DEFINE n == NextReady(cur)
<1>1. n \in Slots /\ (n # cur => st[n] = "READY")
  BY NextReadyIn DEF Followed, Ready
<1>2. /\ \A p \in {"body", "scan", "exitscan", "halt", "dead"} : At(p).at = p
      /\ \A p \in {"switch", "exitswitch"} : Pos(p, cur, "none").at = p
  BY AtType, PosType DEF Places, Names
<1>3. CASE Yield
  <2>1. AsksSafely /\ st' = [st EXCEPT ![cur] = "READY"] /\ UNCHANGED <<id, name>>
    BY <1>2, <1>3 DEF Yield, AsksSafely
  <2> QED BY <2>1, ShellsKept DEF ShellInv, Live
<1>4. CASE YieldScan
  <2>1. AsksSafely /\ st' = [st EXCEPT ![n] = "RUNNING"] /\ UNCHANGED <<id, name>>
    BY <1>2, <1>4 DEF YieldScan, AsksSafely
  <2> QED BY <2>1, ShellsKept DEF ShellInv, Live
<1>5. CASE Exit
  <2>1. /\ AsksSafely /\ st' = [st EXCEPT ![cur] = "ZOMBIE"] /\ UNCHANGED <<id, name>>
        /\ name[cur] # "shell"
    BY <1>2, <1>5 DEF Exit, AsksSafely
  <2> QED BY <2>1, ShellsKept DEF ShellInv, Live
<1>6. CASE ExitScan
  <2>1. AsksSafely /\ UNCHANGED <<id, name>>
    BY <1>2, <1>6 DEF ExitScan, AsksSafely
  <2>2. st' = st \/ \E s \in Slots : st' = [st EXCEPT ![s] = "RUNNING"]
    BY <1>1, <1>6 DEF ExitScan
  <2> QED BY <2>1, <2>2, ShellsKept DEF ShellInv, Live
<1>7. CASE YieldSwitch \/ ExitSwitch
  <2>1. /\ pc.t # cur /\ OnStack = pc.t /\ st[cur] = "RUNNING" /\ id[cur] # 0
        /\ pc' = rsp[cur].pc /\ UNCHANGED <<id, st, name>>
    BY <1>7 DEF YieldSwitch, ExitSwitch, Resume, Rest, TableInv, PlaceInv, OnStack
  <2>2. pc'.at = "body"
    BY <2>1 DEF Rest, ContextInv, Live
  <2> QED BY <2>1, <2>2, ShellsKept DEF AsksSafely, ShellInv
<1>8. CASE Tick
  <2>1. pc.at = "body" /\ OnStack = cur /\ n # cur /\ st[n] = "READY" /\ id[n] # 0
    BY <1>1, <1>8 DEF Tick, CanPreempt, Rest, TableInv, PlaceInv, OnStack
  <2>2. /\ st' = [st EXCEPT ![cur] = "READY", ![n] = "RUNNING"]
        /\ pc' = rsp[n].pc /\ UNCHANGED <<id, name>>
    BY <1>8, <2>1 DEF Tick, Resume
  <2>3. AsksSafely
    BY <1>1, <2>1, <2>2 DEF Rest, ContextInv, Live, AsksSafely
  <2> QED BY <1>1, <2>2, <2>3, ShellsKept DEF ShellInv, Live
<1> QED BY <1>3, <1>4, <1>5, <1>6, <1>7, <1>8

(* kernel_ensure_shell_task looks for a shell that is not a zombie.        *)
LEMMA EnsuredShells ==
    ASSUME TypeOK, ShellInv, EnsureShell, pc.at = "body"
    PROVE  ShellInv'
<1>1. UNCHANGED <<id, st, name>>
  BY DEF EnsureShell, table
<1>2. AsksSafely
  BY DEF EnsureShell, ShellExists, ShellInv, AsksSafely, Live
<1> QED BY <1>1, <1>2, ShellsKept DEF ShellInv

LEMMA CommandShells ==
    ASSUME TypeOK, Rest, ShellInv, ~raced', Followed, BootSerial \/ Command
    PROVE  ShellInv'
<1>1. CASE BootSerial \/ CreateJob
  <2>1. /\ 0 \in Slots /\ "pick" \in Places /\ {"serial", "job"} \subseteq Names
    BY DEF Slots, Places, Names
  <2>2. AsksSafely
    BY <1>1, <2>1, PosType DEF BootSerial, CreateJob, CallCreate, AsksSafely
  <2>3. UNCHANGED <<id, st, name>>
    BY <1>1 DEF BootSerial, CreateJob, table
  <2> QED BY <2>2, <2>3, ShellsKept DEF ShellInv
<1>2. CASE SetWatchdog \/ SetPreemption \/ ExecUser \/ \E fault \in BOOLEAN : UserExit(fault)
  <2>1. UNCHANGED <<id, st, name>> /\ pc'.at \in {"body", "user"}
    BY <1>2, AtType DEF SetWatchdog, SetPreemption, ExecUser, UserExit, InBody, table, Places
  <2> QED BY <2>1, ShellsKept DEF ShellInv, AsksSafely
<1>3. CASE KillAll \/ Reap
  <2>1. \E D \in SUBSET Slots : Reclaim(D)
    BY <1>3 DEF KillAll, Reap, Live, Zombies
  <2>2. AsksSafely
    BY <1>3 DEF KillAll, Reap, InBody, UnchangedByTableOps, AsksSafely
  <2> QED BY <2>1, <2>2, ShellsReclaimed
<1>4. ASSUME NEW i \in Ids, Kill(i) \/ Stop(i) \/ Continue(i) PROVE ShellInv'
  <2>1. AsksSafely
    BY <1>4 DEF Kill, Stop, Continue, Caller, UnchangedByTableOps, AsksSafely
  <2>2. CASE Kill(i)
    <3>1. UNCHANGED table \/ \E D \in SUBSET Slots : Reclaim(D)
      BY <2>2 DEF Kill, Find
    <3> QED BY <2>1, <3>1, ShellsReclaimed, ShellsKept DEF ShellInv, table
  <2>3. CASE Stop(i) \/ Continue(i)
    <3>1. /\ UNCHANGED <<id, name>>
          /\ \A s \in Live : st'[s] = st[s] \/ st'[s] \in {"STOPPED", "READY"}
      BY <2>3 DEF Stop, Continue, Live
    <3> QED BY <2>1, <3>1, ShellsKept DEF ShellInv
  <2> QED BY <1>4, <2>2, <2>3
<1>5. ASSUME NEW i \in Ids, NEW on \in BOOLEAN, Protect(i, on) PROVE ShellInv'
  <2>1. UNCHANGED <<id, st, name, pc>> /\ pc.at = "body"
    BY <1>5 DEF Protect, InBody, UnchangedByTableOps
  <2> QED BY <2>1, ShellsKept DEF ShellInv, AsksSafely
<1>6. CASE Exit
  BY <1>6, SwitchShells
<1> QED BY <1>1, <1>2, <1>3, <1>4, <1>5, <1>6 DEF Command

(* Until a tick hits the scheduler's own code, no two tasks have the same  *)
(* id and kernel_ensure_shell_task, called at boot, by the watchdog and by *)
(* shellspawn, never leaves two shells.                                    *)
THEOREM UniqueIdentities == Spec => []Identities
<1> DEFINE SInv == ~raced => ShellInv
<1>1. Init => SInv
  <2>1. Init => \A s \in Live : name[s] = "kernel"
    BY DEF Init, Live
  <2>2. Init => pc.at = "body"
    BY AtType DEF Init, Places
  <2> QED BY <2>1, <2>2 DEF ShellInv
<1>2. IInv /\ SInv /\ [Next]_vars => SInv'
  <2> SUFFICES ASSUME IInv, SInv, [Next]_vars, ~raced' PROVE ShellInv'
    OBVIOUS
  <2>1. TypeOK /\ Rest /\ ShellInv
    BY RacedStays DEF IInv, Rest
  <2>2. CASE UNCHANGED vars
    BY <2>1, <2>2 DEF vars, ShellInv, Live
  <2>3. CASE Followed /\ SchedulerStep
    BY <2>1, <2>3, CreateShells, SwitchShells DEF SchedulerStep
  <2>4. CASE Followed /\ KernelLoop
    <3>1. BootShell \/ RespawnShell => EnsureShell /\ pc.at = "body"
      BY DEF BootShell, RespawnShell, InBody
    <3> QED BY <2>1, <2>4, <3>1, SwitchShells, EnsuredShells, CommandShells DEF KernelLoop
  <2>5. CASE Followed /\ Command
    BY <2>1, <2>5, CommandShells
  <2>6. CASE Followed /\ Tick
    BY <2>1, <2>6, SwitchShells
  <2> QED BY <2>2, <2>3, <2>4, <2>5, <2>6 DEF Next
<1>3. IInv /\ SInv => Identities
  BY DEF IInv, TableInv, ShellInv, Identities
<1> HIDE DEF SInv
<1> QED BY <1>1, <1>2, <1>3, Invariance, PTL DEF Spec

-----------------------------------------------------------------------------

USE TaskMaxAssumption, MaxIdAssumption

(* Rings.  The next pointers f close the slots of R into one ring through  *)
(* slot 0: they stay in R, no two of them agree, and whoever starts at     *)
(* slot 0 and follows them reaches all of R.                               *)
OneRing(R, f) ==
    /\ R \in SUBSET Slots /\ 0 \in R
    /\ \A s \in R : f[s] \in R
    /\ \A s, t \in R : f[s] = f[t] => s = t
    /\ \A S \in SUBSET R : 0 \in S /\ (\A s \in S : f[s] \in S) => S = R

(* h lists the slots that a walk along f from s visits.                    *)
IsWalk(h, s, f) == h[0] = s /\ \A k \in 1 .. TaskMax : h[k] = f[h[k - 1]]

(* A walk that starts on the ring stays on it.                             *)
LEMMA WalkOnRing ==
    ASSUME NEW R, NEW f, OneRing(R, f), NEW s \in R, NEW h, IsWalk(h, s, f)
    PROVE  \A k \in 0 .. TaskMax : h[k] \in R
<1> DEFINE B == {k \in 0 .. TaskMax : h[k] \notin R}
<1>1. ASSUME B # {} PROVE FALSE
  <2>1. B \subseteq Nat
    OBVIOUS
  <2>2. PICK k \in B : \A j \in B : k <= j
    <3> HIDE DEF B
    <3> QED BY <1>1, <2>1, LeastExists
  <2>3. k \in 0 .. TaskMax /\ h[k] \notin R
    OBVIOUS
  <2>4. k # 0
    BY <2>3 DEF IsWalk
  <2>5. k \in 1 .. TaskMax /\ k - 1 \in 0 .. TaskMax /\ ~(k <= k - 1)
    BY <2>3, <2>4
  <2>6. h[k - 1] \in R
    BY <2>2, <2>5
  <2>7. h[k] = f[h[k - 1]]
    BY <2>5 DEF IsWalk
  <2> QED BY <2>3, <2>6, <2>7 DEF OneRing
<1> QED BY <1>1

(* More hops than there are slots visit a slot twice.                      *)
LEMMA WalkRepeats ==
    ASSUME NEW h, \A k \in 0 .. TaskMax : h[k] \in Slots
    PROVE  \E i, j \in 0 .. TaskMax : i < j /\ h[i] = h[j]
<1> DEFINE g == [k \in 0 .. TaskMax |-> h[k]]
<1>1. /\ IsFiniteSet(0 .. TaskMax) /\ Cardinality(0 .. TaskMax) = TaskMax + 1
      /\ IsFiniteSet(Slots) /\ Cardinality(Slots) = TaskMax
  <2>1. /\ IsFiniteSet(0 .. TaskMax)
        /\ Cardinality(0 .. TaskMax) = IF 0 > TaskMax THEN 0 ELSE TaskMax - 0 + 1
    BY FS_Interval
  <2>2. /\ IsFiniteSet(0 .. TaskMax - 1)
        /\ Cardinality(0 .. TaskMax - 1)
             = IF 0 > TaskMax - 1 THEN 0 ELSE (TaskMax - 1) - 0 + 1
    BY FS_Interval
  <2> QED BY <2>1, <2>2 DEF Slots
<1>2. g \in [0 .. TaskMax -> Slots]
  OBVIOUS
<1>3. Cardinality(Slots) < Cardinality(0 .. TaskMax)
  BY <1>1
<1>4. PICK x \in 0 .. TaskMax, y \in 0 .. TaskMax : x # y /\ g[x] = g[y]
  <2> HIDE DEF g
  <2> QED BY <1>1, <1>2, <1>3, FS_PigeonHole
<1>5. h[x] = h[y]
  BY <1>4
<1>6. x < y \/ y < x
  BY <1>4
<1> QED BY <1>5, <1>6

(* A walk from s is back at s after a first round of j hops, and that      *)
(* round visits the whole ring.                                            *)
LEMMA Round ==
    ASSUME NEW R, NEW f, OneRing(R, f), NEW s \in R, NEW h, IsWalk(h, s, f)
    PROVE  \E j \in 1 .. TaskMax :
             /\ h[j] = s
             /\ \A k \in 1 .. j - 1 : h[k] # s
             /\ \A t \in R : \E k \in 0 .. j - 1 : h[k] = t
<1>0. \A k \in 0 .. TaskMax : h[k] \in R
  BY WalkOnRing
<1>00. \A k \in 1 .. TaskMax : h[k] = f[h[k - 1]] /\ h[0] = s
  BY DEF IsWalk
<1> DEFINE J == {j \in 1 .. TaskMax : \E i \in 0 .. j - 1 : h[i] = h[j]}
<1>1. J # {} /\ J \subseteq Nat
  <2>1. \A k \in 0 .. TaskMax : h[k] \in Slots
    BY <1>0 DEF OneRing
  <2>2. PICK i \in 0 .. TaskMax, j \in 0 .. TaskMax : i < j /\ h[i] = h[j]
    BY <2>1, WalkRepeats
  <2>3. j \in 1 .. TaskMax /\ i \in 0 .. j - 1
    BY <2>2
  <2> QED BY <2>2, <2>3
<1>2. PICK j \in J : \A m \in J : j <= m
  <2> HIDE DEF J
  <2> QED BY <1>1, LeastExists
<1>3. j \in 1 .. TaskMax
  OBVIOUS
<1>4. PICK i \in 0 .. j - 1 : h[i] = h[j]
  OBVIOUS
<1>5. \A m \in 1 .. j - 1 : \A l \in 0 .. m - 1 : h[l] # h[m]
  <2> SUFFICES ASSUME NEW m \in 1 .. j - 1, NEW l \in 0 .. m - 1, h[l] = h[m]
               PROVE  FALSE
    OBVIOUS
  <2>1. m \in J /\ ~(j <= m)
    BY <1>3
  <2> QED BY <1>2, <2>1
<1> HIDE DEF J
<1>6. i = 0
  <2> SUFFICES ASSUME i # 0 PROVE FALSE
    OBVIOUS
  <2>1. /\ i \in 1 .. TaskMax /\ j \in 1 .. TaskMax
        /\ i - 1 \in 0 .. TaskMax /\ j - 1 \in 0 .. TaskMax
        /\ j - 1 \in 1 .. j - 1 /\ i - 1 \in 0 .. (j - 1) - 1
    BY <1>3
  <2>2. h[i] = f[h[i - 1]] /\ h[j] = f[h[j - 1]]
    BY <1>00, <2>1
  <2>3. h[i - 1] = h[j - 1]
    BY <1>0, <1>4, <2>1, <2>2 DEF OneRing
  <2> QED BY <1>5, <2>1, <2>3
<1>7. h[j] = s /\ h[0] = s
  BY <1>00, <1>3, <1>4, <1>6
<1>8. \A k \in 1 .. j - 1 : h[k] # s
  BY <1>5, <1>7
<1> DEFINE C == {h[k] : k \in 0 .. j - 1}
<1>9. C \subseteq R /\ s \in C
  <2>1. \A k \in 0 .. j - 1 : k \in 0 .. TaskMax
    BY <1>3
  <2>2. 0 \in 0 .. j - 1
    BY <1>3
  <2> QED BY <1>0, <1>7, <2>1, <2>2
<1>10. \A t \in C : f[t] \in C
  <2> SUFFICES ASSUME NEW k \in 0 .. j - 1 PROVE f[h[k]] \in C
    OBVIOUS
  <2>1. k + 1 \in 1 .. TaskMax /\ (k + 1) - 1 = k
    BY <1>3
  <2>2. h[k + 1] = f[h[k]]
    BY <1>00, <2>1
  <2>3. k + 1 \in 0 .. j - 1 \/ k + 1 = j
    BY <1>3
  <2> QED BY <1>7, <1>9, <2>2, <2>3
<1>11. \A t \in R : f[t] \in C => t \in C
  <2> SUFFICES ASSUME NEW t \in R, NEW k \in 0 .. j - 1, f[t] = h[k] PROVE t \in C
    OBVIOUS
  <2>1. PICK m \in 1 .. j : f[t] = h[m]
    <3>1. CASE k = 0
      <4>1. j \in 1 .. j
        BY <1>3
      <4> QED BY <1>7, <3>1, <4>1
    <3>2. CASE k # 0
      <4>1. k \in 1 .. j
        BY <1>3, <3>2
      <4> QED BY <4>1
    <3> QED BY <3>1, <3>2
  <2>2. m \in 1 .. TaskMax /\ m - 1 \in 0 .. j - 1 /\ m - 1 \in 0 .. TaskMax
    BY <1>3
  <2>3. f[t] = f[h[m - 1]] /\ h[m - 1] \in R
    BY <1>0, <1>00, <2>1, <2>2
  <2>4. t = h[m - 1]
    BY <2>3 DEF OneRing
  <2> QED BY <2>2, <2>4
<1>12. C = R
  <2> HIDE DEF C
  <2>1. CASE 0 \in C
    BY <1>9, <1>10, <2>1 DEF OneRing
  <2>2. CASE 0 \notin C
    <3>1. R \ C \in SUBSET R /\ 0 \in R \ C /\ \A t \in R \ C : f[t] \in R \ C
      BY <1>11, <2>2 DEF OneRing
    <3>2. R \ C = R
      BY <3>1 DEF OneRing
    <3> QED BY <1>9, <3>2
  <2> QED BY <2>1, <2>2
<1>13. \A t \in R : \E k \in 0 .. j - 1 : h[k] = t
  BY <1>12
<1> QED BY <1>3, <1>7, <1>8, <1>13

(* g[s] is the first slot outside D that the walk along f from s finds.    *)
StepsOver(g, f, D, s) ==
    \E h, k : /\ IsWalk(h, s, f)
              /\ k \in 1 .. TaskMax
              /\ g[s] = h[k] /\ h[k] \notin D
              /\ \A i \in 1 .. k - 1 : h[i] \in D

(* Closing the ring over the slots of D, of which slot 0 is none: each     *)
(* slot that stays points to the first one that its walk finds outside D.  *)
LEMMA RingClosed ==
    ASSUME NEW R, NEW f, OneRing(R, f), NEW D, 0 \notin D, NEW g,
           \A s \in R \ D : StepsOver(g, f, D, s)
    PROVE  OneRing(R \ D, g)
<1> USE DEF StepsOver
<1>1. ASSUME NEW s \in R \ D PROVE g[s] \in R \ D
  <2>1. PICK h, k : /\ IsWalk(h, s, f) /\ k \in 1 .. TaskMax
                    /\ g[s] = h[k] /\ h[k] \notin D
    OBVIOUS
  <2>2. k \in 0 .. TaskMax
    BY <2>1
  <2>3. h[k] \in R
    BY <2>1, <2>2, WalkOnRing
  <2> QED BY <2>1, <2>3
<1>2. ASSUME NEW s \in R \ D, NEW t \in R \ D, g[s] = g[t] PROVE s = t
  <2>1. PICK hs, ks : /\ IsWalk(hs, s, f) /\ ks \in 1 .. TaskMax /\ g[s] = hs[ks]
                      /\ \A i \in 1 .. ks - 1 : hs[i] \in D
    OBVIOUS
  <2>2. PICK ht, kt : /\ IsWalk(ht, t, f) /\ kt \in 1 .. TaskMax /\ g[t] = ht[kt]
                      /\ \A i \in 1 .. kt - 1 : ht[i] \in D
    OBVIOUS
  <2>3. \A k \in 0 .. TaskMax : hs[k] \in R /\ ht[k] \in R
    BY <2>1, <2>2, WalkOnRing
  <2>4. /\ hs[0] = s /\ ht[0] = t
        /\ \A k \in 1 .. TaskMax : hs[k] = f[hs[k - 1]] /\ ht[k] = f[ht[k - 1]]
    BY <2>1, <2>2 DEF IsWalk
  <2> DEFINE B == {m \in Nat : m <= ks /\ m <= kt /\ hs[ks - m] # ht[kt - m]}
  <2>5. B = {}
    <3> SUFFICES ASSUME B # {} PROVE FALSE
      OBVIOUS
    <3>1. B \subseteq Nat
      OBVIOUS
    <3>2. PICK m \in B : \A j \in B : m <= j
      <4> HIDE DEF B
      <4> QED BY <3>1, LeastExists
    <3>3. m \in Nat /\ m <= ks /\ m <= kt /\ hs[ks - m] # ht[kt - m]
      OBVIOUS
    <3>4. m # 0
      <4>1. ks - 0 = ks /\ kt - 0 = kt
        BY <2>1, <2>2
      <4> QED BY <3>3, <4>1, <1>2, <2>1, <2>2
    <3>5. m - 1 \in Nat /\ m - 1 <= ks /\ m - 1 <= kt /\ ~(m <= m - 1)
      BY <3>3, <3>4, <2>1, <2>2
    <3>6. hs[ks - (m - 1)] = ht[kt - (m - 1)]
      BY <3>2, <3>5
    <3>7. /\ ks - (m - 1) \in 1 .. TaskMax /\ kt - (m - 1) \in 1 .. TaskMax
          /\ (ks - (m - 1)) - 1 = ks - m /\ (kt - (m - 1)) - 1 = kt - m
          /\ ks - m \in 0 .. TaskMax /\ kt - m \in 0 .. TaskMax
      BY <3>3, <3>4, <2>1, <2>2
    <3>8. f[hs[ks - m]] = f[ht[kt - m]]
      BY <2>4, <3>6, <3>7
    <3>9. hs[ks - m] \in R /\ ht[kt - m] \in R
      BY <2>3, <3>7
    <3> QED BY <3>3, <3>8, <3>9 DEF OneRing
  <2>6. \A m \in Nat : m <= ks /\ m <= kt => hs[ks - m] = ht[kt - m]
    BY <2>5
  <2> HIDE DEF B
  <2>7. CASE ks < kt
    <3>1. ks \in Nat /\ ks - ks = 0 /\ kt - ks \in 1 .. kt - 1 /\ ks <= kt /\ ks <= ks
      BY <2>1, <2>2, <2>7
    <3>2. s = ht[kt - ks]
      BY <2>4, <2>6, <3>1
    <3> QED BY <2>2, <3>1, <3>2
  <2>8. CASE kt < ks
    <3>1. kt \in Nat /\ kt - kt = 0 /\ ks - kt \in 1 .. ks - 1 /\ kt <= ks /\ kt <= kt
      BY <2>1, <2>2, <2>8
    <3>2. t = hs[ks - kt]
      BY <2>4, <2>6, <3>1
    <3> QED BY <2>1, <3>1, <3>2
  <2>9. CASE ks = kt
    <3>1. ks \in Nat /\ ks - ks = 0 /\ kt - ks = 0 /\ ks <= kt /\ ks <= ks
      BY <2>1, <2>2, <2>9
    <3> QED BY <2>4, <2>6, <3>1
  <2> QED BY <2>1, <2>2, <2>7, <2>8, <2>9
<1>3. ASSUME NEW S \in SUBSET (R \ D), 0 \in S, \A s \in S : g[s] \in S
      PROVE  R \ D \subseteq S
  <2> DEFINE Led(t, s, h, k) ==
               /\ IsWalk(h, s, f) /\ k \in 0 .. TaskMax /\ t = h[k]
               /\ \A i \in 1 .. k : h[i] \in D
             T == {t \in R : \E s \in S : \E h, k : Led(t, s, h, k)}
  <2>1. \A s \in R : \E h : IsWalk(h, s, f)
    <3> SUFFICES ASSUME NEW s \in R PROVE \E h : IsWalk(h, s, f)
      OBVIOUS
    <3> DEFINE ff == [k \in 1 .. TaskMax |-> f]
    <3>1. Within(ff, TaskMax, R)
      BY DEF OneRing, Within
    <3>2. TaskMax \in Nat
      OBVIOUS
    <3>3. \E h : Iterates(h, s, ff, TaskMax, R)
      <4> HIDE DEF ff
      <4> QED BY <3>1, <3>2, IterExists, Zenon
    <3> QED BY <3>3 DEF IsWalk, Iterates
  <2>2. S \subseteq T
    <3> SUFFICES ASSUME NEW s \in S PROVE s \in T
      OBVIOUS
    <3>1. PICK h : IsWalk(h, s, f)
      BY <2>1
    <3>2. 0 \in 0 .. TaskMax /\ h[0] = s /\ \A i \in 1 .. 0 : h[i] \in D
      BY <3>1 DEF IsWalk
    <3>3. Led(s, s, h, 0)
      BY <3>1, <3>2
    <3> HIDE DEF Led
    <3> QED BY <3>3
  <2>3. ASSUME NEW t \in T PROVE f[t] \in T
    <3>1. PICK s, h, k : s \in S /\ Led(t, s, h, k)
      <4> HIDE DEF Led
      <4> QED OBVIOUS
    <3>2. PICK hs, ks : /\ IsWalk(hs, s, f) /\ ks \in 1 .. TaskMax
                        /\ g[s] = hs[ks] /\ hs[ks] \notin D
                        /\ \A i \in 1 .. ks - 1 : hs[i] \in D
      <4> HIDE DEF T, Led
      <4> QED BY <3>1
    <3> DEFINE B == {m \in 0 .. TaskMax : h[m] # hs[m]}
    <3>3. B = {}
      <4> SUFFICES ASSUME B # {} PROVE FALSE
        OBVIOUS
      <4>1. B \subseteq Nat
        OBVIOUS
      <4>2. PICK m \in B : \A j \in B : m <= j
        <5> HIDE DEF B
        <5> QED BY <4>1, LeastExists
      <4>3. m \in 0 .. TaskMax /\ h[m] # hs[m]
        OBVIOUS
      <4>4. m # 0
        BY <3>1, <3>2, <4>3 DEF IsWalk
      <4>5. m \in 1 .. TaskMax /\ m - 1 \in 0 .. TaskMax /\ ~(m <= m - 1)
        BY <4>3, <4>4
      <4>6. h[m - 1] = hs[m - 1]
        BY <4>2, <4>5
      <4>7. h[m] = f[h[m - 1]] /\ hs[m] = f[hs[m - 1]]
        BY <3>1, <3>2, <4>5 DEF IsWalk
      <4> QED BY <4>3, <4>6, <4>7
    <3>4. \A m \in 0 .. TaskMax : h[m] = hs[m]
      BY <3>3
    <3> HIDE DEF B
    <3>5. k < ks
      <4> SUFFICES ASSUME ~(k < ks) PROVE FALSE
        OBVIOUS
      <4>1. ks \in 1 .. k /\ ks \in 0 .. TaskMax
        BY <3>1, <3>2
      <4>2. h[ks] \in D
        BY <3>1, <4>1
      <4> QED BY <3>2, <3>4, <4>1, <4>2
    <3>6. k + 1 \in 1 .. TaskMax /\ (k + 1) - 1 = k /\ k + 1 \in 0 .. TaskMax
      BY <3>1, <3>2, <3>5
    <3>7. f[t] = h[k + 1]
      BY <3>1, <3>6 DEF IsWalk
    <3>8. CASE k + 1 = ks
      <4>1. f[t] = g[s]
        BY <3>2, <3>4, <3>6, <3>7, <3>8
      <4> HIDE DEF Led, T
      <4> QED BY <2>2, <3>1, <4>1, <1>3
    <3>9. CASE k + 1 # ks
      <4>1. k + 1 \in 1 .. ks - 1
        BY <3>1, <3>2, <3>5, <3>9
      <4>2. \A i \in 1 .. k + 1 : i \in 1 .. k \/ i = k + 1
        BY <3>1
      <4>3. h[k + 1] \in D
        BY <3>2, <3>4, <3>6, <4>1
      <4>4. Led(f[t], s, h, k + 1)
        BY <3>1, <3>6, <3>7, <4>2, <4>3
      <4>5. f[t] \in R
        BY DEF OneRing
      <4> HIDE DEF Led
      <4> QED BY <3>1, <4>4, <4>5
    <3> QED BY <3>8, <3>9
  <2>4. T = R
    <3>1. T \in SUBSET R /\ 0 \in T
      BY <1>3, <2>2
    <3> HIDE DEF T
    <3> QED BY <2>3, <3>1 DEF OneRing
  <2> SUFFICES ASSUME NEW t \in R \ D PROVE t \in S
    OBVIOUS
  <2>5. t \in T
    <3> HIDE DEF T
    <3> QED BY <2>4
  <2>6. PICK s, h, k : s \in S /\ Led(t, s, h, k)
    <3> HIDE DEF Led
    <3> QED BY <2>5
  <2>7. k = 0
    <3> SUFFICES ASSUME k # 0 PROVE FALSE
      OBVIOUS
    <3>1. k \in 1 .. k
      BY <2>6
    <3> QED BY <2>6, <3>1
  <2> QED BY <2>6, <2>7 DEF IsWalk
<1>4. R \ D \in SUBSET Slots /\ 0 \in R \ D
  BY DEF OneRing
<1> QED BY <1>1, <1>2, <1>3, <1>4 DEF OneRing

(* Linking a slot t behind slot 0.                                         *)
LEMMA RingLinked ==
    ASSUME NEW R, NEW f, OneRing(R, f), NEW t \in Slots \ R, NEW g,
           g[0] = t, g[t] = f[0], \A s \in R \ {0} : g[s] = f[s]
    PROVE  OneRing(R \cup {t}, g)
<1>1. R \cup {t} \in SUBSET Slots /\ 0 \in R \cup {t} /\ 0 # t /\ 0 \in R
  BY DEF OneRing
<1>2. \A s \in R \cup {t} : g[s] \in R \cup {t}
  BY <1>1 DEF OneRing
<1>3. \A s \in R \cup {t} : \/ s = 0 /\ g[s] = t
                            \/ s = t /\ g[s] = f[0] /\ f[0] \in R
                            \/ s \in R \ {0} /\ g[s] = f[s] /\ f[s] \in R
  BY DEF OneRing
<1>4. \A r, s \in R : f[r] = f[s] => r = s
  BY DEF OneRing
<1>5. \A r, s \in R \cup {t} : g[r] = g[s] => r = s
  BY <1>1, <1>3, <1>4
<1>6. ASSUME NEW S \in SUBSET (R \cup {t}), 0 \in S, \A s \in S : g[s] \in S
      PROVE  S = R \cup {t}
  <2>1. t \in S /\ f[0] \in S
    BY <1>6
  <2>2. \A s \in S \ {t} : f[s] \in S
    BY <1>3, <1>6, <2>1
  <2>3. S \ {t} \in SUBSET R /\ 0 \in S \ {t} /\ \A s \in S \ {t} : f[s] \in R
    BY <1>1, <1>6 DEF OneRing
  <2>4. \A s \in S \ {t} : f[s] \in S \ {t}
    BY <2>2, <2>3
  <2>5. S \ {t} = R
    BY <2>3, <2>4 DEF OneRing
  <2> QED BY <2>1, <2>5
<1> QED BY <1>1, <1>2, <1>5, <1>6 DEF OneRing

(* The ring depends on the next pointers of its slots only.                *)
LEMMA RingSame ==
    ASSUME NEW R, NEW f, OneRing(R, f), NEW g, \A s \in R : g[s] = f[s]
    PROVE  OneRing(R, g)
BY DEF OneRing

-----------------------------------------------------------------------------
(* The walks of Scheduler.                                                 *)

(* What the recursive definition of Hops says.                             *)
LEMMA HopsAre ==
    ASSUME TypeOK, NEW s \in Slots
    PROVE  /\ Hops(s)[0] = s
           /\ \A k \in 1 .. TaskMax :
                Hops(s)[k] = IF Hops(s)[k - 1] = Null THEN Null ELSE nxt[Hops(s)[k - 1]]
<1> DEFINE V == Slots \cup {Null}
           g == [x \in V |-> IF x = Null THEN Null ELSE nxt[x]]
           ff == [k \in 1 .. TaskMax |-> g]
           Body(hop) == [k \in 0 .. TaskMax |->
                           IF k = 0 THEN s
                           ELSE IF hop[k - 1] = Null THEN Null ELSE nxt[hop[k - 1]]]
<1>1. Hops(s) = CHOOSE hop : hop = Body(hop)
  BY DEF Hops
<1>2. \A x \in V : g[x] \in V
  BY DEF TypeOK
<1>3. PICK h : Iterates(h, s, ff, TaskMax, V)
  <2>1. Within(ff, TaskMax, V)
    BY <1>2 DEF Within
  <2>2. TaskMax \in Nat /\ s \in V
    OBVIOUS
  <2> HIDE DEF ff, V
  <2> QED BY <2>1, <2>2, IterExists, Zenon
<1>4. \A k \in 1 .. TaskMax : h[k] = IF h[k - 1] = Null THEN Null ELSE nxt[h[k - 1]]
  <2> SUFFICES ASSUME NEW k \in 1 .. TaskMax
               PROVE  h[k] = IF h[k - 1] = Null THEN Null ELSE nxt[h[k - 1]]
    OBVIOUS
  <2>1. k - 1 \in 0 .. TaskMax
    OBVIOUS
  <2>2. h[k - 1] \in V /\ h[k] = g[h[k - 1]]
    BY <1>3, <2>1 DEF Iterates
  <2> QED BY <2>2
<1>5. h = Body(h)
  <2>1. h \in [0 .. TaskMax -> V] /\ h[0] = s
    BY <1>3 DEF Iterates
  <2>2. \A k \in 0 .. TaskMax : k = 0 \/ k \in 1 .. TaskMax
    OBVIOUS
  <2>3. \A k \in 0 .. TaskMax :
          h[k] = IF k = 0 THEN s ELSE IF h[k - 1] = Null THEN Null ELSE nxt[h[k - 1]]
    BY <1>4, <2>1, <2>2
  <2> QED BY <2>1, <2>3
<1>6. Hops(s) = Body(Hops(s))
  <2> HIDE DEF Body
  <2> QED BY <1>1, <1>5
<1>7. 0 \in 0 .. TaskMax /\ \A k \in 1 .. TaskMax : k \in 0 .. TaskMax /\ k # 0
  OBVIOUS
<1>8. \A k \in 0 .. TaskMax : Hops(s)[k] = Body(Hops(s))[k]
  <2> HIDE DEF Body
  <2> QED BY <1>6
<1> QED BY <1>7, <1>8

(* On the ring no hop is NULL.                                             *)
LEMMA HopsWalk ==
    ASSUME TypeOK, NEW R, OneRing(R, nxt), NEW s \in R
    PROVE  IsWalk(Hops(s), s, nxt)
<1>0. s \in Slots
  BY DEF OneRing
<1> DEFINE B == {k \in 0 .. TaskMax : Hops(s)[k] \notin R}
<1>1. ASSUME B # {} PROVE FALSE
  <2>1. B \subseteq Nat
    OBVIOUS
  <2>2. PICK k \in B : \A j \in B : k <= j
    <3> HIDE DEF B
    <3> QED BY <1>1, <2>1, LeastExists
  <2>3. k \in 0 .. TaskMax /\ Hops(s)[k] \notin R
    OBVIOUS
  <2>4. k # 0
    BY <1>0, <2>3, HopsAre
  <2>5. k \in 1 .. TaskMax /\ k - 1 \in 0 .. TaskMax /\ ~(k <= k - 1)
    BY <2>3, <2>4
  <2>6. Hops(s)[k - 1] \in R
    BY <2>2, <2>5
  <2>7. Hops(s)[k - 1] # Null
    BY <2>6 DEF OneRing, Slots, Null
  <2>8. Hops(s)[k] = nxt[Hops(s)[k - 1]]
    BY <1>0, <2>5, <2>7, HopsAre
  <2> QED BY <2>3, <2>6, <2>8 DEF OneRing
<1>2. \A k \in 0 .. TaskMax : Hops(s)[k] \in R
  BY <1>1
<1>3. \A k \in 1 .. TaskMax : Hops(s)[k - 1] # Null
  <2>1. \A k \in 1 .. TaskMax : k - 1 \in 0 .. TaskMax
    OBVIOUS
  <2> QED BY <1>2, <2>1 DEF OneRing, Slots, Null
<1> QED BY <1>0, <1>3, HopsAre DEF IsWalk

(* The first hop that lies in S, when one does.                            *)
LEMMA FirstHopAt ==
    ASSUME NEW s, NEW S, NEW m \in 1 .. TaskMax, Hops(s)[m] \in S
    PROVE  \E k \in 1 .. m : /\ FirstHop(s, S) = Hops(s)[k]
                             /\ Hops(s)[k] \in S
                             /\ \A i \in 1 .. k - 1 : Hops(s)[i] \notin S
<1> DEFINE K == {k \in 1 .. TaskMax : Hops(s)[k] \in S}
           c == CHOOSE k \in K : \A j \in K : k <= j
<1>1. m \in K
  OBVIOUS
<1>2. \E k \in K : \A j \in K : k <= j
  <2>1. K \subseteq Nat
    OBVIOUS
  <2> HIDE DEF K
  <2> QED BY <1>1, <2>1, LeastExists
<1>3. c \in K /\ \A j \in K : c <= j
  <2> HIDE DEF K
  <2> QED BY <1>2
<1>4. FirstHop(s, S) = Hops(s)[c]
  BY <1>1 DEF FirstHop
<1> HIDE DEF c
<1>5. c \in 1 .. TaskMax /\ Hops(s)[c] \in S /\ c <= m
  BY <1>1, <1>3
<1>6. \A i \in 1 .. c - 1 : Hops(s)[i] \notin S
  <2> SUFFICES ASSUME NEW i \in 1 .. c - 1, Hops(s)[i] \in S PROVE FALSE
    OBVIOUS
  <2>1. i \in K /\ ~(c <= i)
    BY <1>5
  <2> QED BY <1>3, <2>1
<1> QED BY <1>4, <1>5, <1>6

(* From every slot of the ring the walk comes to slot 0.                   *)
LEMMA ReachesZero ==
    ASSUME TypeOK, NEW R, OneRing(R, nxt), NEW s \in R
    PROVE  \E m \in 1 .. TaskMax :
             Hops(s)[m] = 0 /\ \A i \in 1 .. m - 1 : Hops(s)[i] # s
<1>1. PICK f : f = nxt
  OBVIOUS
<1>2. PICK h : h = Hops(s)
  OBVIOUS
<1>3. IsWalk(h, s, f) /\ OneRing(R, f) /\ 0 \in R
  BY <1>1, <1>2, HopsWalk DEF OneRing
<1>4. PICK j \in 1 .. TaskMax :
             /\ h[j] = s
             /\ \A k \in 1 .. j - 1 : h[k] # s
             /\ \A t \in R : \E k \in 0 .. j - 1 : h[k] = t
  BY <1>3, Round
<1>5. PICK k \in 0 .. j - 1 : h[k] = 0
  BY <1>3, <1>4
<1>6. CASE k = 0
  <2>1. h[j] = 0
    BY <1>3, <1>4, <1>5, <1>6 DEF IsWalk
  <2> QED BY <1>2, <1>4, <2>1
<1>7. CASE k # 0
  <2>1. k \in 1 .. TaskMax /\ \A i \in 1 .. k - 1 : i \in 1 .. j - 1
    BY <1>7
  <2> QED BY <1>2, <1>4, <1>5, <2>1
<1> QED BY <1>6, <1>7

(* The ring that the walk from slot 0 draws is the whole ring.             *)
LEMMA RingIs ==
    ASSUME TypeOK, NEW R, OneRing(R, nxt)
    PROVE  Ring = R
<1>1. PICK f : f = nxt
  OBVIOUS
<1>2. PICK h : h = Hops(0)
  OBVIOUS
<1>3. 0 \in R /\ OneRing(R, f)
  BY <1>1 DEF OneRing
<1>4. IsWalk(h, 0, f)
  BY <1>1, <1>2, <1>3, HopsWalk
<1>5. \A k \in 0 .. TaskMax - 1 : h[k] \in R
  BY <1>3, <1>4, WalkOnRing
<1>6. \A t \in R : \E k \in 0 .. TaskMax - 1 : h[k] = t
  <2>1. PICK j \in 1 .. TaskMax : \A t \in R : \E k \in 0 .. j - 1 : h[k] = t
    BY <1>3, <1>4, Round
  <2>2. \A k \in 0 .. j - 1 : k \in 0 .. TaskMax - 1
    OBVIOUS
  <2> QED BY <2>1, <2>2
<1> QED BY <1>2, <1>5, <1>6 DEF Ring

-----------------------------------------------------------------------------
(* The invariant of the ring.                                              *)

(* The tasks that have an id are one ring, but for the slot that           *)
(* task_create has filled and not linked yet: it points where slot 0 does. *)
(* Slot 0 can always run.                                                  *)
RingInv ==
    /\ OneRing(Live \ Linking, nxt)
    /\ pc.at = "link" => id[pc.t] # 0 /\ pc.t # 0 /\ nxt[pc.t] = nxt[0]
    /\ st[0] \in {"READY", "RUNNING"}
    /\ NeverHalts

(* A step that leaves the ids and the ring alone and that starts no link.  *)
LEMMA RingKept ==
    ASSUME RingInv, UNCHANGED <<id, nxt>>, pc.at # "link",
           pc'.at \notin {"link", "halt", "dead"}, st'[0] \in {"READY", "RUNNING"}
    PROVE  RingInv'
<1>1. Linking = {} /\ Linking' = {} /\ Live' = Live
  BY DEF Linking, Live
<1>2. OneRing(Live \ {}, nxt)
  BY <1>1 DEF RingInv
<1>3. OneRing((Live \ Linking)', nxt')
  BY <1>1, <1>2
<1> QED BY <1>3 DEF RingInv, NeverHalts

(* Reclaiming slots closes the ring over them.                             *)
LEMMA RingReclaimed ==
    ASSUME TypeOK, RingInv, pc.at # "link", NEW D \in SUBSET Slots, 0 \notin D,
           Reclaim(D), pc'.at \notin {"link", "halt", "dead"}
    PROVE  RingInv'
<1>0. 0 \in Slots
  BY DEF Slots
<1>1. PICK R : R = Live
  OBVIOUS
<1>2. PICK f, g : f = nxt /\ g = nxt'
  OBVIOUS
<1>3. OneRing(R, nxt)
  <2>1. Linking = {} /\ Live \ {} = R
    BY <1>1 DEF Linking
  <2> QED BY <2>1 DEF RingInv
<1>4. OneRing(R, f) /\ Ring = R
  BY <1>2, <1>3, RingIs
<1>5. ASSUME NEW s \in R \ D
      PROVE  StepsOver(g, f, D, s)
  <2> DEFINE S == (Slots \cup {Null}) \ D
  <2>1. PICK h : h = Hops(s)
    OBVIOUS
  <2>2. IsWalk(h, s, f)
    BY <1>2, <1>3, <2>1, HopsWalk
  <2>3. PICK m \in 1 .. TaskMax : h[m] = 0
    BY <1>3, <2>1, ReachesZero
  <2>4. Hops(s)[m] \in S
    BY <1>0, <2>1, <2>3
  <2>5. PICK k \in 1 .. m : /\ FirstHop(s, S) = Hops(s)[k]
                            /\ Hops(s)[k] \in S
                            /\ \A i \in 1 .. k - 1 : Hops(s)[i] \notin S
    <3> HIDE DEF S
    <3> QED BY <2>4, FirstHopAt
  <2>6. g[s] = FirstHop(s, S)
    <3>1. s \in Slots /\ s \notin D /\ s \in Ring
      BY <1>3, <1>4 DEF OneRing
    <3> QED BY <1>2, <3>1 DEF Reclaim
  <2>7. \A i \in 0 .. TaskMax : h[i] \in R
    BY <1>4, <2>2, WalkOnRing
  <2>8. \A i \in 1 .. k - 1 : h[i] \in D
    <3> SUFFICES ASSUME NEW i \in 1 .. k - 1 PROVE h[i] \in D
      OBVIOUS
    <3>1. i \in 0 .. TaskMax
      BY <2>5
    <3>2. h[i] \in Slots
      BY <1>3, <2>7, <3>1 DEF OneRing
    <3> QED BY <2>1, <2>5, <3>2
  <2>9. k \in 1 .. TaskMax /\ g[s] = h[k] /\ h[k] \notin D
    BY <2>1, <2>5, <2>6
  <2> QED BY <2>2, <2>8, <2>9 DEF StepsOver
<1>6. OneRing(R \ D, g)
  BY <1>4, <1>5, RingClosed
<1>7. /\ Linking' = {} /\ st'[0] = st[0]
      /\ Live' = R \ D
  BY <1>0, <1>1 DEF Linking, Live, Reclaim
<1>8. OneRing((Live \ Linking)', nxt')
  <2>1. (Live \ Linking)' = R \ D
    BY <1>7
  <2> QED BY <1>2, <1>6, <2>1
<1> QED BY <1>7, <1>8 DEF RingInv, NeverHalts

(* The three steps of task_create.                                         *)
LEMMA CreateRing ==
    ASSUME TypeOK, Rest, RingInv, Followed, CreatePick \/ CreateFill \/ CreateLink
    PROVE  RingInv'
<1> USE DEF TypeOK
<1>0. /\ At("body").at = "body" /\ {"fill", "link"} \subseteq Places
      /\ "none" \in Names /\ 0 \in Slots
  BY AtType DEF Places, Names, Slots
<1>1. CASE CreatePick
  <2>1. pc.at # "link" /\ pc'.at \in {"fill", "body"} /\ st[cur] = "RUNNING"
    <3>1. CASE pc' = At("body")
      BY <1>0, <1>1, <3>1 DEF CreatePick, Rest, PlaceInv
    <3>2. CASE pc' # At("body")
      <4>1. /\ Unused \cup Zombies # {}
            /\ pc' = Pos("fill", Lowest(IF Unused # {} THEN Unused ELSE Zombies), pc.nm)
        BY <1>1, <3>2 DEF CreatePick
      <4>2. Lowest(IF Unused # {} THEN Unused ELSE Zombies) \in Slots
        BY <4>1, PickedSlot DEF Unused, Zombies
      <4>3. pc'.at = "fill"
        BY <1>0, <4>1, <4>2, PosType, PCType
      <4> QED BY <1>1, <4>3 DEF CreatePick, Rest, PlaceInv
    <3> QED BY <3>1, <3>2
  <2>2. CASE Unused = {} /\ Zombies # {}
    <3>1. Lowest(Zombies) \in Zombies
      BY <2>2, PickedSlot
    <3>2. PICK D : D = {Lowest(Zombies)}
      OBVIOUS
    <3>3. Reclaim(D) /\ D \in SUBSET Slots /\ 0 \notin D
      BY <1>1, <2>2, <3>1, <3>2 DEF CreatePick, Zombies
    <3> QED BY <2>1, <3>3, RingReclaimed
  <2>3. CASE ~(Unused = {} /\ Zombies # {})
    <3>1. UNCHANGED <<id, st, nxt>>
      BY <1>1, <2>3 DEF CreatePick, table
    <3> QED BY <2>1, <3>1, RingKept DEF RingInv
  <2> QED BY <2>2, <2>3
<1>2. CASE CreateFill
  <2>1. PICK t : t = pc.t
    OBVIOUS
  <2>2. t \in Slots /\ t # 0 /\ id[t] = 0 /\ pc.nm \in Names /\ next_id # 0
    BY <1>2, <2>1, PCType DEF CreateFill, Rest, PlaceInv, TableInv
  <2>3. pc'.at = "link" /\ pc'.t = t
    BY <1>0, <1>2, <2>1, <2>2, PosType DEF CreateFill
  <2>4. /\ nxt' = [nxt EXCEPT ![t] = nxt[0]] /\ id' = [id EXCEPT ![t] = next_id]
        /\ st' = [st EXCEPT ![t] = "READY"]
    BY <1>2, <2>1 DEF CreateFill
  <2>5. PICK R : R = Live
    OBVIOUS
  <2>6. PICK f, g : f = nxt /\ g = nxt'
    OBVIOUS
  <2>7. OneRing(R, f)
    <3>1. Linking = {} /\ Live \ {} = R
      BY <1>2, <2>5 DEF Linking, CreateFill
    <3> QED BY <2>6, <3>1 DEF RingInv
  <2>8. t \notin R /\ \A s \in R : g[s] = f[s]
    BY <2>2, <2>4, <2>5, <2>6 DEF Live
  <2>9. OneRing(R, g)
    BY <2>7, <2>8, RingSame
  <2>10. (Live \ Linking)' = R
    BY <2>2, <2>3, <2>4, <2>5 DEF Live, Linking
  <2>11. id'[t] # 0 /\ nxt'[t] = nxt'[0] /\ st'[0] = st[0]
    BY <1>0, <2>2, <2>4
  <2>12. OneRing((Live \ Linking)', nxt')
    BY <2>6, <2>9, <2>10
  <2> QED BY <2>2, <2>3, <2>11, <2>12 DEF RingInv, NeverHalts
<1>3. CASE CreateLink
  <2>1. PICK t : t = pc.t
    OBVIOUS
  <2>2. t \in Slots /\ t # 0 /\ id[t] # 0 /\ nxt[t] = nxt[0] /\ pc.at = "link"
    BY <1>3, <2>1, PCType DEF CreateLink, RingInv
  <2>3. pc'.at = "body"
    BY <1>0, <1>3 DEF CreateLink
  <2>4. nxt' = [nxt EXCEPT ![0] = t] /\ UNCHANGED <<id, st>>
    BY <1>3, <2>1 DEF CreateLink
  <2>5. PICK R : R = Live \ {t}
    OBVIOUS
  <2>6. PICK f, g : f = nxt /\ g = nxt'
    OBVIOUS
  <2>7. OneRing(R, f)
    <3>1. Linking = {t}
      BY <2>1, <2>2 DEF Linking
    <3> QED BY <2>5, <2>6, <3>1 DEF RingInv
  <2>8. /\ t \in Slots \ R /\ g[0] = t /\ g[t] = f[0]
        /\ \A s \in R \ {0} : g[s] = f[s]
    BY <1>0, <2>2, <2>4, <2>5, <2>6 DEF Live
  <2>9. OneRing(R \cup {t}, g)
    BY <2>7, <2>8, RingLinked
  <2>10. (Live \ Linking)' = R \cup {t}
    BY <2>2, <2>3, <2>4, <2>5 DEF Live, Linking
  <2>11. OneRing((Live \ Linking)', nxt')
    BY <2>6, <2>9, <2>10
  <2> QED BY <2>3, <2>4, <2>11 DEF RingInv, NeverHalts
<1> QED BY <1>1, <1>2, <1>3

(* The choice of the next task: a task that has given up the CPU finds     *)
(* another one unless it is slot 0's, which can run itself.                *)
LEMMA NextFound ==
    ASSUME TypeOK, Rest, RingInv, pc.at # "link", st[cur] = "ZOMBIE"
    PROVE  NextReady(cur) # cur
<1> USE DEF TypeOK
<1>0. 0 \in Slots /\ cur # 0 /\ st[0] = "READY" /\ id[cur] # 0
  BY DEF RingInv, Rest, TableInv, Slots
<1>1. PICK R : R = Live
  OBVIOUS
<1>2. OneRing(R, nxt) /\ cur \in R
  <2>1. Linking = {} /\ Live \ {} = R
    BY <1>1 DEF Linking
  <2> QED BY <1>0, <1>1, <2>1 DEF RingInv, Live
<1>3. PICK m \in 1 .. TaskMax :
             Hops(cur)[m] = 0 /\ \A i \in 1 .. m - 1 : Hops(cur)[i] # cur
  BY <1>2, ReachesZero
<1>4. Hops(cur)[m] \in Ready \cup {cur}
  BY <1>0, <1>3 DEF Ready
<1>5. PICK k \in 1 .. m :
             /\ FirstHop(cur, Ready \cup {cur}) = Hops(cur)[k]
             /\ Hops(cur)[k] \in Ready \cup {cur}
             /\ \A i \in 1 .. k - 1 : Hops(cur)[i] \notin Ready \cup {cur}
  BY <1>4, FirstHopAt
<1>6. Hops(cur)[k] # cur
  BY <1>0, <1>3
<1> QED BY <1>5, <1>6 DEF NextReady

(* The steps that switch tasks.                                            *)
LEMMA SwitchRing ==
    ASSUME TypeOK, Rest, RingInv, ~raced', Followed,
           Yield \/ YieldScan \/ YieldSwitch \/ Exit \/ ExitScan \/ ExitSwitch \/ Tick
    PROVE  RingInv'
<1> USE DEF TypeOK
<1> DEFINE n == NextReady(cur)
<1>1. n \in Slots /\ (n # cur => st[n] = "READY")
  BY NextReadyIn DEF Followed, Ready
<1>2. /\ \A p \in {"body", "scan", "exitscan", "halt", "dead"} : At(p).at = p
      /\ \A p \in {"switch", "exitswitch"} : Pos(p, cur, "none").at = p
  BY AtType, PosType DEF Places, Names
<1>z. 0 \in Slots /\ st[0] \in {"READY", "RUNNING"}
  BY DEF Slots, RingInv
<1>3. CASE Yield
  <2>1. /\ pc.at # "link" /\ pc'.at = "scan" /\ UNCHANGED <<id, nxt>>
        /\ st' = [st EXCEPT ![cur] = "READY"]
    BY <1>2, <1>3 DEF Yield, InBody
  <2> QED BY <1>z, <2>1, RingKept
<1>4. CASE YieldScan
  <2>1. /\ pc.at # "link" /\ pc'.at \in {"body", "switch"} /\ UNCHANGED <<id, nxt>>
        /\ st' = [st EXCEPT ![n] = "RUNNING"]
    BY <1>2, <1>4 DEF YieldScan
  <2> QED BY <1>z, <2>1, RingKept
<1>5. CASE Exit
  <2>1. /\ pc.at # "link" /\ pc'.at = "exitscan" /\ UNCHANGED <<id, nxt>>
        /\ st' = [st EXCEPT ![cur] = "ZOMBIE"] /\ cur # 0
    BY <1>2, <1>5 DEF Exit, InBody
  <2> QED BY <1>z, <2>1, RingKept
<1>6. CASE ExitScan
  <2>1. pc.at = "exitscan" /\ st[cur] = "ZOMBIE"
    BY <1>6 DEF ExitScan, Rest, PlaceInv
  <2>2. n # cur
    BY <2>1, NextFound
  <2>3. /\ pc'.at = "exitswitch" /\ UNCHANGED <<id, nxt>>
        /\ st' = [st EXCEPT ![n] = "RUNNING"]
    BY <1>2, <1>6, <2>2 DEF ExitScan
  <2> QED BY <1>z, <2>1, <2>3, RingKept
<1>7. CASE YieldSwitch \/ ExitSwitch
  <2>1. /\ pc.t # cur /\ OnStack = pc.t /\ st[cur] = "RUNNING" /\ id[cur] # 0
        /\ pc.at # "link" /\ pc' = rsp[cur].pc /\ UNCHANGED <<id, st, nxt>>
    BY <1>7 DEF YieldSwitch, ExitSwitch, Resume, Rest, TableInv, PlaceInv, OnStack
  <2>2. pc'.at = "body"
    BY <2>1 DEF Rest, ContextInv, Live
  <2> QED BY <1>z, <2>1, <2>2, RingKept
<1>8. CASE Tick
  <2>1. /\ pc.at = "body" /\ OnStack = cur /\ n # cur /\ st[n] = "READY" /\ id[n] # 0
    BY <1>1, <1>8 DEF Tick, CanPreempt, Rest, TableInv, PlaceInv, OnStack
  <2>2. /\ st' = [st EXCEPT ![cur] = "READY", ![n] = "RUNNING"]
        /\ pc' = rsp[n].pc /\ UNCHANGED <<id, nxt>>
    BY <1>8, <2>1 DEF Tick, Resume
  <2>3. pc'.at = "body"
    BY <1>1, <2>1, <2>2 DEF Rest, ContextInv, Live
  <2>4. st'[0] \in {"READY", "RUNNING"}
    BY <1>z, <1>1, <2>2
  <2> QED BY <2>1, <2>2, <2>3, <2>4, RingKept
<1> QED BY <1>3, <1>4, <1>5, <1>6, <1>7, <1>8

(* Commands.                                                               *)
LEMMA CommandRing ==
    ASSUME TypeOK, Rest, RingInv, ~raced', Followed, Command
    PROVE  RingInv'
<1>z. 0 \in Slots /\ st[0] \in {"READY", "RUNNING"} /\ Protected(0)
  BY DEF Slots, RingInv, Rest, TableInv, Protected
<1>1. CASE CreateJob
  <2>1. 0 \in Slots /\ "pick" \in Places /\ "job" \in Names
    BY DEF Slots, Places, Names
  <2>2. pc.at # "link" /\ pc'.at = "pick" /\ UNCHANGED <<id, st, nxt>>
    BY <1>1, <2>1, PosType DEF CreateJob, CallCreate, InBody, table
  <2> QED BY <1>z, <2>2, RingKept
<1>2. CASE SetWatchdog \/ SetPreemption \/ ExecUser \/ \E fault \in BOOLEAN : UserExit(fault)
  <2>1. /\ UNCHANGED <<id, st, nxt>> /\ pc.at # "link" /\ pc'.at \in {"body", "user"}
    BY <1>2, AtType DEF SetWatchdog, SetPreemption, ExecUser, UserExit, InBody, table, Places
  <2> QED BY <1>z, <2>1, RingKept
<1>3. CASE KillAll \/ Reap
  <2>1. PICK D : D \in SUBSET Slots /\ 0 \notin D /\ Reclaim(D)
    BY <1>3 DEF KillAll, Reap, Live, Zombies
  <2>2. pc.at = "body" /\ pc'.at = "body"
    BY <1>3 DEF KillAll, Reap, InBody, UnchangedByTableOps
  <2> QED BY <2>1, <2>2, RingReclaimed
<1>4. ASSUME NEW i \in Ids, Kill(i) \/ Stop(i) \/ Continue(i) PROVE RingInv'
  <2>1. pc.at \in {"body", "user"} /\ pc' = pc
    BY <1>4 DEF Kill, Stop, Continue, Caller, UnchangedByTableOps
  <2>2. CASE Kill(i)
    <3>1. UNCHANGED table \/ \E D \in SUBSET Slots : 0 \notin D /\ Reclaim(D)
      BY <1>z, <2>2 DEF Kill, Find
    <3>2. CASE UNCHANGED table
      BY <1>z, <2>1, <3>2, RingKept DEF table
    <3>3. ASSUME NEW D \in SUBSET Slots, 0 \notin D, Reclaim(D) PROVE RingInv'
      BY <2>1, <3>3, RingReclaimed
    <3> QED BY <3>1, <3>2, <3>3
  <2>3. CASE Stop(i) \/ Continue(i)
    <3>1. UNCHANGED <<id, nxt>> /\ st'[0] \in {"READY", "RUNNING"}
      BY <1>z, <2>3 DEF Stop, Continue
    <3> QED BY <2>1, <3>1, RingKept
  <2> QED BY <1>4, <2>2, <2>3
<1>5. ASSUME NEW i \in Ids, NEW on \in BOOLEAN, Protect(i, on) PROVE RingInv'
  <2>1. UNCHANGED <<id, st, nxt, pc>> /\ pc.at = "body"
    BY <1>5 DEF Protect, InBody, UnchangedByTableOps
  <2> QED BY <1>z, <2>1, RingKept
<1>6. CASE Exit
  BY <1>6, SwitchRing
<1> QED BY <1>1, <1>2, <1>3, <1>4, <1>5, <1>6 DEF Command

(* Task 0's loop, at boot and afterwards.                                  *)
LEMMA LoopRing ==
    ASSUME TypeOK, Rest, RingInv, ~raced', Followed, KernelLoop
    PROVE  RingInv'
<1>1. CASE Yield
  BY <1>1, SwitchRing
<1>2. CASE BootShell \/ BootSerial \/ RespawnShell
  <2>1. 0 \in Slots /\ "pick" \in Places /\ {"shell", "serial"} \subseteq Names
    BY DEF Slots, Places, Names
  <2>2. /\ pc.at = "body" /\ pc'.at \in {"body", "pick"} /\ UNCHANGED <<id, st, nxt>>
    BY <1>2, <2>1, PosType
       DEF BootShell, BootSerial, RespawnShell, EnsureShell, CallCreate, InBody, table
  <2> QED BY <2>2, RingKept DEF RingInv
<1> QED BY <1>1, <1>2 DEF KernelLoop

(* kernel_main starts with a ring of one.                                  *)
LEMMA InitRing == Init => RingInv
<1> SUFFICES ASSUME Init PROVE RingInv
  OBVIOUS
<1>1. 0 \in Slots /\ pc.at = "body"
  BY AtType DEF Init, Slots, Places
<1>2. Live \ Linking = {0} /\ nxt[0] = 0 /\ st[0] = "RUNNING"
  BY <1>1 DEF Init, Live, Linking
<1>3. OneRing({0}, nxt)
  <2>1. \A S \in SUBSET {0} : 0 \in S => S = {0}
    OBVIOUS
  <2> QED BY <1>1, <1>2, <2>1 DEF OneRing
<1>4. OneRing(Live \ Linking, nxt)
  BY <1>2, <1>3
<1> QED BY <1>1, <1>2, <1>4 DEF RingInv, NeverHalts

(* Every step keeps the ring, until a tick hits the scheduler's own code.  *)
LEMMA RingStep ==
    ASSUME IInv, ~raced => RingInv, [Next]_vars
    PROVE  ~raced' => RingInv'
<1> SUFFICES ASSUME ~raced' PROVE RingInv'
  OBVIOUS
<1>1. TypeOK /\ Rest /\ RingInv
  BY RacedStays DEF IInv, Rest
<1>2. CASE UNCHANGED vars
  BY <1>1, <1>2 DEF vars, RingInv, Live, Linking, NeverHalts
<1>3. CASE Followed /\ SchedulerStep
  BY <1>1, <1>3, CreateRing, SwitchRing DEF SchedulerStep
<1>4. CASE Followed /\ KernelLoop
  BY <1>1, <1>4, LoopRing
<1>5. CASE Followed /\ Command
  BY <1>1, <1>5, CommandRing
<1>6. CASE Followed /\ Tick
  BY <1>1, <1>6, SwitchRing
<1> QED BY <1>2, <1>3, <1>4, <1>5, <1>6 DEF Next

LEMMA RingInvariance == Spec => [](~raced => RingInv)
<1> DEFINE RInv == ~raced => RingInv
<1>1. Init => RInv
  BY InitRing
<1>2. IInv /\ RInv /\ [Next]_vars => RInv'
  BY RingStep
<1> HIDE DEF RInv
<1>3. Spec => []RInv
  BY <1>1, <1>2, Invariance, PTL DEF Spec
<1> QED BY <1>3 DEF RInv

(* Until a tick hits the scheduler's own code, kill, kill-all, reap and    *)
(* the reuse of slots keep every task with an id on one ring through slot  *)
(* 0, whatever its size, and no switch of do_switch_to_next or task_exit   *)
(* ends in one of the two halts.                                           *)
THEOREM RingAlwaysIntact == Spec => []RingIntact
<1>1. ASSUME TypeOK, RingInv PROVE RingSound /\ NeverHalts
  <2>1. PICK R : R = Live \ Linking
    OBVIOUS
  <2>2. OneRing(R, nxt)
    BY <1>1, <2>1 DEF RingInv
  <2>3. Ring = R
    BY <1>1, <2>2, RingIs
  <2> QED BY <1>1, <2>1, <2>2, <2>3 DEF RingSound, RingInv, OneRing
<1>2. TypeOK /\ (~raced => RingInv) => RingIntact
  BY <1>1 DEF RingIntact
<1> QED BY <1>2, TypeCorrect, RingInvariance, PTL

-----------------------------------------------------------------------------
(* The preemption counter.                                                 *)

CountInv == count >= Cardinality(Suspended)

(* Sets of slots can be counted.                                           *)
LEMMA SuspendedFinite ==
    ASSUME NEW S, S \subseteq Slots
    PROVE  IsFiniteSet(S) /\ Cardinality(S) \in Nat
<1>1. IsFiniteSet(Slots)
  <2>1. IsFiniteSet(0 .. TaskMax - 1)
    BY FS_Interval
  <2> QED BY <2>1 DEF Slots
<1>2. IsFiniteSet(S)
  BY <1>1, FS_Subset
<1> QED BY <1>2, FS_CardinalityType

(* A step that suspends no further task and leaves the counter alone.      *)
LEMMA CountKept ==
    ASSUME TypeOK, CountInv, count' = count, Suspended' \subseteq Suspended
    PROVE  CountInv'
<1>1. PICK S, T : S = Suspended /\ T = Suspended'
  OBVIOUS
<1>2. S \subseteq Slots /\ T \in SUBSET S
  BY <1>1 DEF Suspended, Live
<1>3. IsFiniteSet(S) /\ Cardinality(S) \in Nat /\ Cardinality(T) \in Nat
  BY <1>2, SuspendedFinite
<1>4. Cardinality(T) <= Cardinality(S)
  BY <1>2, <1>3, FS_Subset
<1>5. CountInv' <=> count' >= Cardinality(T)
  BY <1>1 DEF CountInv
<1> QED BY <1>1, <1>3, <1>4, <1>5 DEF CountInv, TypeOK

(* A task that resumes is suspended no more, and takes back what it added. *)
LEMMA CountResumed ==
    ASSUME TypeOK, CountInv, NEW n \in Slots, NEW b \in BOOLEAN,
           b <=> n \in Suspended,
           count' = IF b THEN count - 1 ELSE count,
           Suspended' \subseteq Suspended \ {n}
    PROVE  CountInv'
<1>1. PICK S, T : S = Suspended /\ T = Suspended'
  OBVIOUS
<1>2. S \subseteq Slots /\ T \in SUBSET (S \ {n}) /\ S \ {n} \subseteq Slots
  BY <1>1 DEF Suspended, Live
<1>3. /\ IsFiniteSet(S) /\ Cardinality(S) \in Nat /\ Cardinality(T) \in Nat
      /\ IsFiniteSet(S \ {n}) /\ Cardinality(S \ {n}) \in Nat
  BY <1>2, SuspendedFinite
<1>4. Cardinality(T) <= Cardinality(S \ {n})
  BY <1>2, <1>3, FS_Subset
<1>5. Cardinality(S \ {n}) = IF n \in S THEN Cardinality(S) - 1 ELSE Cardinality(S)
  BY <1>3, FS_RemoveElement
<1>6. CountInv' <=> count' >= Cardinality(T)
  BY <1>1 DEF CountInv
<1>7. count \in Int /\ count >= Cardinality(S) /\ (b <=> n \in S)
  BY <1>1 DEF CountInv, TypeOK
<1> QED BY <1>3, <1>4, <1>5, <1>6, <1>7

(* A tick suspends the running task and resumes another one.               *)
LEMMA CountTicked ==
    ASSUME TypeOK, CountInv, NEW n \in Slots, NEW c \in Slots, NEW b \in BOOLEAN,
           b <=> n \in Suspended,
           count' = IF b THEN (count + 1) - 1 ELSE count + 1,
           Suspended' \subseteq (Suspended \ {n}) \cup {c}
    PROVE  CountInv'
<1>1. PICK S, T : S = Suspended /\ T = Suspended'
  OBVIOUS
<1>2. PICK U : U = S \ {n}
  OBVIOUS
<1>3. S \subseteq Slots /\ U \subseteq Slots /\ U \cup {c} \subseteq Slots
      /\ T \in SUBSET (U \cup {c}) /\ T \subseteq Slots
  BY <1>1, <1>2 DEF Suspended, Live
<1>4. /\ IsFiniteSet(S) /\ Cardinality(S) \in Nat /\ Cardinality(T) \in Nat
      /\ IsFiniteSet(U) /\ Cardinality(U) \in Nat
      /\ IsFiniteSet(U \cup {c}) /\ Cardinality(U \cup {c}) \in Nat
  BY <1>3, SuspendedFinite
<1>5. Cardinality(T) <= Cardinality(U \cup {c})
  BY <1>3, <1>4, FS_Subset
<1>6. Cardinality(U \cup {c}) <= Cardinality(U) + 1
  <2>1. Cardinality(U \cup {c}) = IF c \in U THEN Cardinality(U) ELSE Cardinality(U) + 1
    BY <1>4, FS_AddElement
  <2> QED BY <1>4, <2>1
<1>7. Cardinality(U) = IF n \in S THEN Cardinality(S) - 1 ELSE Cardinality(S)
  BY <1>2, <1>4, FS_RemoveElement
<1>8. CountInv' <=> count' >= Cardinality(T)
  BY <1>1 DEF CountInv
<1>9. count \in Int /\ count >= Cardinality(S) /\ (b <=> n \in S)
  BY <1>1 DEF CountInv, TypeOK
<1> QED BY <1>4, <1>5, <1>6, <1>7, <1>8, <1>9

(* Reclaiming slots suspends no task.                                      *)
LEMMA ReclaimSuspends ==
    ASSUME NEW D, Reclaim(D), OnStack' = OnStack
    PROVE  Suspended' \subseteq Suspended
<1>1. \A s \in Slots : /\ s \in D => id'[s] = 0
                       /\ s \notin D => id'[s] = id[s] /\ rsp'[s] = rsp[s]
  BY DEF Reclaim
<1> QED BY <1>1 DEF Suspended, Live

(* The steps of the scheduler itself.                                      *)
LEMMA SwitchCount ==
    ASSUME TypeOK, Rest, CountInv, ~raced', Followed,
           \/ CreatePick \/ CreateFill \/ CreateLink \/ Yield \/ YieldScan \/ YieldSwitch
           \/ Exit \/ ExitScan \/ ExitSwitch \/ Tick
    PROVE  CountInv'
<1> USE DEF TypeOK
<1> DEFINE n == NextReady(cur)
<1>0. At("body") \in PC /\ At("dead") \in PC /\ At("body").at = "body" /\ pc.t \in Slots
  BY AtType, PCType DEF Places
<1>1. n \in Slots /\ (n # cur => st[n] = "READY")
  BY NextReadyIn DEF Followed, Ready
<1>2. /\ \A p \in {"body", "scan", "exitscan", "halt", "dead"} : At(p).at = p
      /\ \A p \in {"switch", "exitswitch"} : Pos(p, cur, "none").at = p
                                              /\ Pos(p, cur, "none").t = cur
  BY AtType, PosType DEF Places, Names
<1>3. CASE CreatePick
  <2>1. OnStack = cur /\ OnStack' = cur /\ count' = count
    <3>1. CASE pc' = At("body")
      BY <1>0, <1>3, <3>1 DEF CreatePick, OnStack
    <3>2. CASE pc' # At("body")
      <4>1. /\ Unused \cup Zombies # {}
            /\ pc' = Pos("fill", Lowest(IF Unused # {} THEN Unused ELSE Zombies), pc.nm)
        BY <1>3, <3>2 DEF CreatePick
      <4>2. Lowest(IF Unused # {} THEN Unused ELSE Zombies) \in Slots /\ "fill" \in Places
        BY <4>1, PickedSlot DEF Unused, Zombies, Places
      <4>3. pc'.at = "fill"
        BY <4>1, <4>2, PosType, PCType
      <4> QED BY <1>3, <4>3 DEF CreatePick, OnStack
    <3> QED BY <3>1, <3>2
  <2>2. UNCHANGED <<id, rsp>> \/ \E D : Reclaim(D)
    BY <1>3 DEF CreatePick, table
  <2>3. CASE UNCHANGED <<id, rsp>>
    <3>1. Suspended' = Suspended
      BY <2>1, <2>3 DEF Suspended, Live
    <3> QED BY <2>1, <3>1, CountKept
  <2>4. ASSUME NEW D, Reclaim(D) PROVE CountInv'
    <3>1. Suspended' \subseteq Suspended
      BY <2>1, <2>4, ReclaimSuspends
    <3> QED BY <2>1, <3>1, CountKept
  <2> QED BY <2>2, <2>3, <2>4
<1>4. CASE CreateFill
  <2>1. PICK t : t = pc.t
    OBVIOUS
  <2>2. OnStack = cur /\ count' = count /\ pc.nm \in Names /\ "link" \in Places
        /\ "none" \in Names
    BY <1>4, PCType DEF CreateFill, OnStack, Places, Names
  <2>3. pc'.at = "link"
    BY <1>0, <1>4, <2>2, PosType DEF CreateFill
  <2>4. OnStack' = cur
    BY <1>4, <2>3 DEF OnStack, CreateFill
  <2>5. FreshContext(t).tick = FALSE
    BY DEF FreshContext, Context
  <2>6. id' = [id EXCEPT ![t] = next_id] /\ rsp' = [rsp EXCEPT ![t] = FreshContext(t)]
    BY <1>4, <2>1 DEF CreateFill
  <2>7. Suspended' \subseteq Suspended
    <3> HIDE DEF FreshContext
    <3> QED BY <1>0, <2>1, <2>2, <2>4, <2>5, <2>6 DEF Suspended, Live
  <2> QED BY <2>2, <2>7, CountKept
<1>5. CASE CreateLink \/ Yield \/ YieldScan \/ Exit \/ ExitScan
  <2>1. OnStack = cur /\ OnStack' = cur /\ UNCHANGED <<id, rsp, count>>
    BY <1>2, <1>5 DEF CreateLink, Yield, YieldScan, Exit, ExitScan, InBody, OnStack
  <2>2. Suspended' = Suspended
    BY <2>1 DEF Suspended, Live
  <2> QED BY <2>1, <2>2, CountKept
<1>6. CASE YieldSwitch \/ ExitSwitch
  <2>1. PICK o : o = pc.t
    OBVIOUS
  <2>2. /\ o \in Slots /\ o # cur /\ OnStack = o /\ st[cur] = "RUNNING" /\ id[cur] # 0
        /\ UNCHANGED <<id, st, cur>> /\ pc' = rsp[cur].pc
        /\ count' = IF rsp[cur].tick THEN count - 1 ELSE count
    BY <1>0, <1>6, <2>1
       DEF YieldSwitch, ExitSwitch, Resume, Rest, TableInv, PlaceInv, OnStack
  <2>3. pc'.at = "body"
    BY <2>2 DEF Rest, ContextInv, Live
  <2>4. OnStack' = cur
    BY <2>2, <2>3 DEF OnStack
  <2>5. PICK c : c.tick = FALSE /\ rsp' = [rsp EXCEPT ![o] = c, ![cur] = NoContext]
    <3>1. /\ Context(pc.t, FALSE, iflag, At("body")).tick = FALSE
          /\ Context(pc.t, FALSE, iflag, At("dead")).tick = FALSE
      BY DEF Context
    <3> QED BY <1>6, <2>1, <3>1 DEF YieldSwitch, ExitSwitch
  <2>6. rsp[cur].tick \in BOOLEAN /\ (rsp[cur].tick <=> cur \in Suspended)
    BY <2>2, ContextFields DEF Suspended, Live
  <2>7. Suspended' \subseteq Suspended \ {cur}
    BY <2>2, <2>4, <2>5 DEF Suspended, Live
  <2> QED BY <2>2, <2>6, <2>7, CountResumed
<1>7. CASE Tick
  <2>1. PICK m : m = n
    OBVIOUS
  <2>2. /\ pc.at = "body" /\ OnStack = cur /\ m # cur /\ st[m] = "READY" /\ id[m] # 0
        /\ m \in Slots
    BY <1>1, <1>7, <2>1 DEF Tick, CanPreempt, Rest, TableInv, PlaceInv, OnStack
  <2>3. /\ UNCHANGED id /\ cur' = m /\ pc' = rsp[m].pc
        /\ count' = IF rsp[m].tick THEN (count + 1) - 1 ELSE count + 1
        /\ rsp' = [rsp EXCEPT ![cur] = Context(OnStack, TRUE, TRUE, pc), ![m] = NoContext]
    BY <1>7, <2>1, <2>2 DEF Tick, Resume
  <2>4. pc'.at = "body"
    BY <2>2, <2>3 DEF Rest, ContextInv, Live
  <2>5. OnStack' = m
    BY <2>3, <2>4 DEF OnStack
  <2>6. rsp[m].tick \in BOOLEAN /\ (rsp[m].tick <=> m \in Suspended)
    BY <2>2, ContextFields DEF Suspended, Live
  <2>7. Suspended' \subseteq (Suspended \ {m}) \cup {cur}
    BY <2>2, <2>3, <2>5 DEF Suspended, Live
  <2> QED BY <2>2, <2>3, <2>6, <2>7, CountTicked
<1> QED BY <1>3, <1>4, <1>5, <1>6, <1>7

(* The remaining steps move no context but those that Reclaim forgets.     *)
LEMMA OtherCount ==
    ASSUME TypeOK, Rest, CountInv, ~raced', Followed,
           KernelLoop \/ (Command /\ ~Exit)
    PROVE  CountInv'
<1>0. /\ 0 \in Slots /\ {"pick", "body", "user"} \subseteq Places
      /\ {"shell", "serial", "job"} \subseteq Names
  BY DEF Slots, Places, Names
<1>1. CASE Yield
  BY <1>1, SwitchCount
<1>2. CASE \/ BootShell \/ BootSerial \/ RespawnShell \/ CreateJob \/ SetWatchdog
           \/ SetPreemption \/ ExecUser \/ \E fault \in BOOLEAN : UserExit(fault)
  <2>1. pc.at \in {"body", "user"} /\ pc'.at \in {"body", "user", "pick"}
    BY <1>0, <1>2, PosType, AtType
       DEF BootShell, BootSerial, RespawnShell, CreateJob, SetWatchdog, SetPreemption,
           ExecUser, UserExit, EnsureShell, CallCreate, InBody
  <2>2. UNCHANGED <<id, rsp, cur, count>>
    BY <1>2
       DEF BootShell, BootSerial, RespawnShell, CreateJob, SetWatchdog, SetPreemption,
           ExecUser, UserExit, EnsureShell, table
  <2>3. OnStack' = OnStack
    BY <2>1, <2>2 DEF OnStack
  <2>4. Suspended' = Suspended
    BY <2>2, <2>3 DEF Suspended, Live
  <2> QED BY <2>2, <2>4, CountKept
<1>3. CASE \/ KillAll \/ Reap
           \/ \E i \in Ids : Kill(i) \/ Stop(i) \/ Continue(i)
           \/ \E i \in Ids, on \in BOOLEAN : Protect(i, on)
  <2>1. UNCHANGED <<cur, count, pc>>
    BY <1>3 DEF KillAll, Reap, Kill, Stop, Continue, Protect, UnchangedByTableOps
  <2>2. UNCHANGED <<id, rsp>> \/ \E D : Reclaim(D)
    BY <1>3 DEF KillAll, Reap, Kill, Stop, Continue, Protect, table
  <2>3. OnStack' = OnStack
    BY <2>1 DEF OnStack
  <2>4. Suspended' \subseteq Suspended
    <3>1. UNCHANGED <<id, rsp>> => Suspended' = Suspended
      BY <2>3 DEF Suspended, Live
    <3>2. (\E D : Reclaim(D)) => Suspended' \subseteq Suspended
      BY <2>3, ReclaimSuspends
    <3> QED BY <2>2, <3>1, <3>2
  <2> QED BY <2>1, <2>4, CountKept
<1> QED BY <1>1, <1>2, <1>3 DEF KernelLoop, Command

(* Until a tick hits the scheduler's own code, preempt_disable_count is at *)
(* least the number of tasks that a tick has suspended and that will each  *)
(* decrement it once: however the switches nest, it never becomes negative *)
(* and lets a tick into a tick.                                            *)
THEOREM CounterCoversSuspended == Spec => []CountCoversSuspended
<1> DEFINE CInv == ~raced => CountInv
<1>1. Init => CInv
  <2> SUFFICES ASSUME Init PROVE CountInv
    OBVIOUS
  <2>1. Suspended = {}
    BY AtType DEF Init, Suspended, Live, NoContext, Context
  <2> QED BY <2>1, FS_EmptySet DEF CountInv, Init
<1>2. IInv /\ CInv /\ [Next]_vars => CInv'
  <2> SUFFICES ASSUME IInv, CInv, [Next]_vars, ~raced' PROVE CountInv'
    OBVIOUS
  <2>1. TypeOK /\ Rest /\ CountInv
    BY RacedStays DEF IInv, Rest
  <2>2. CASE UNCHANGED vars
    <3>1. Suspended' = Suspended /\ count' = count
      BY <2>2 DEF vars, Suspended, Live, OnStack
    <3> QED BY <2>1, <3>1, CountKept
  <2>3. CASE Followed /\ SchedulerStep
    BY <2>1, <2>3, SwitchCount DEF SchedulerStep
  <2>4. CASE Followed /\ KernelLoop
    BY <2>1, <2>4, OtherCount
  <2>5. CASE Followed /\ Command
    BY <2>1, <2>5, OtherCount, SwitchCount
  <2>6. CASE Followed /\ Tick
    BY <2>1, <2>6, SwitchCount
  <2> QED BY <2>2, <2>3, <2>4, <2>5, <2>6 DEF Next
<1>3. IInv /\ CInv => CountCoversSuspended
  BY DEF CountInv, CountCoversSuspended
<1> HIDE DEF CInv
<1> QED BY <1>1, <1>2, <1>3, Invariance, PTL DEF Spec
=============================================================================
