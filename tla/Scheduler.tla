----------------------------- MODULE Scheduler -----------------------------
(***************************************************************************)
(* The kernel task scheduler: kernel/task.c, arch/x86_64/task_switch.s,    *)
(* the timer interrupt of arch/x86_64/idt.c and the task 0 loop of         *)
(* kernel/kernel.c.                                                        *)
(*                                                                         *)
(* One CPU runs one thread at a time.  pc says where the running thread    *)
(* is: in the body of its task, in a user program, or inside one of the    *)
(* scheduler's own functions (task_create, task_yield, task_exit) that do  *)
(* not disable interrupts.  The timer may interrupt the thread anywhere    *)
(* while the interrupt flag is set; the functions that run between cli and *)
(* sti are single steps.                                                   *)
(***************************************************************************)
EXTENDS Integers, FiniteSets

CONSTANTS
    TaskMax,    \* TASK_MAX, the number of task slots
    MaxId,      \* bound: task ids handed out to commands in one behaviour
    FollowRaces \* whether a behaviour is followed beyond a tick that has
                \* switched tasks inside the scheduler's own code

ASSUME TaskMaxAssumption == TaskMax \in Nat /\ TaskMax >= 2
ASSUME MaxIdAssumption == MaxId \in Nat /\ FollowRaces \in BOOLEAN

Slots == 0 .. TaskMax - 1
Null == TaskMax              \* a NULL task_t pointer
States == {"READY", "RUNNING", "ZOMBIE", "STOPPED"}
Names == {"none", "kernel", "shell", "serial", "job"}

VARIABLES
    id,         \* tasks[s].id, 0 for an unused slot
    st,         \* tasks[s].state
    nxt,        \* tasks[s].next, the round-robin ring through slot 0
    name,       \* tasks[s].name
    rsp,        \* tasks[s].rsp: the context that task_switch would resume
    prot,       \* task_protect_mode[s]: 0 default, 1 protected, 2 unprotected
    cur,        \* current_task
    count,      \* preempt_disable_count
    preempt,    \* preempt_enabled
    user,       \* user_task_saved_rsp # 0: a ring-3 program is running
    next_id,    \* task_create's static next_id
    watchdog,   \* shell_watchdog_on
    boot,       \* how far kernel_main is: "shell", "serial" or "loop"
    iflag,      \* RFLAGS.IF of the running thread
    pc,         \* where the running thread is
    raced       \* history: a tick has switched tasks inside the scheduler

table == <<id, st, nxt, name, rsp, prot>>
vars == <<id, st, nxt, name, rsp, prot, cur, count, preempt, user, next_id,
          watchdog, boot, iflag, pc, raced>>

Places == {"body", "user", "pick", "fill", "link", "scan", "switch", "exitscan",
           "exitswitch", "dead", "halt", "wild"}
PC == [at : Places, t : Slots, nm : Names]
Pos(p, s, n) == [at |-> p, t |-> s, nm |-> n]
At(p) == Pos(p, 0, "none")

(* A saved context: whose stack it lies on, whether it was saved by the    *)
(* timer handler (so that resuming it runs the end of task_preempt_tick),  *)
(* the flag that is in force once the thread is back at its own code.      *)
Contexts == [stack : Slots \cup {Null}, tick : BOOLEAN, iflag : BOOLEAN, pc : PC]
Context(s, tk, f, p) == [stack |-> s, tick |-> tk, iflag |-> f, pc |-> p]
NoContext == Context(Null, FALSE, FALSE, At("body"))

(* task_create builds 0x202 below six zeroes, but task_switch pops the six *)
(* callee-saved registers first and RFLAGS last: the word that popfq takes *)
(* is one of the zeroes, so a new task starts with interrupts disabled.    *)
FreshContext(s) == Context(s, FALSE, FALSE, At("body"))

-----------------------------------------------------------------------------
(* Walks of the ring.                                                      *)

Hops(s) ==
    LET hop[k \in 0 .. TaskMax] ==
            IF k = 0 THEN s
            ELSE IF hop[k - 1] = Null THEN Null ELSE nxt[hop[k - 1]]
    IN  hop

(* The first of hops 1 .. TaskMax of s that lies in S; Null if none does.  *)
FirstHop(s, S) ==
    LET K == {k \in 1 .. TaskMax : Hops(s)[k] \in S}
    IN  IF K = {} THEN Null ELSE Hops(s)[CHOOSE k \in K : \A j \in K : k <= j]

Ring == {Hops(0)[k] : k \in 0 .. TaskMax - 1}

Live == {s \in Slots : id[s] # 0}
Ready == {s \in Slots : st[s] = "READY"}

(* Mutant: the scan restarts at slot 0 instead of following the ring.      *)
NextReadyLowest(old) ==
    LET R == Ready \ {old}
    IN  IF R = {} THEN old ELSE CHOOSE s \in R : \A r \in R : s <= r

(* The loop of do_switch_to_next and of task_preempt_tick's quick scan:    *)
(* the next READY task after old, or old itself after a full round.        *)
NextReady(old) == FirstHop(old, Ready \cup {old})

(* Every task that has an id is on the ring, once, and the ring closes.    *)
(* The slot a thread is about to link is not on the ring yet.              *)
Linking == IF pc.at = "link" THEN {pc.t} ELSE {}
RingSound ==
    /\ Ring = Live \ Linking
    /\ \A s \in Ring : nxt[s] \in Ring
    /\ \A s, t \in Ring : nxt[s] = nxt[t] => s = t

-----------------------------------------------------------------------------
(* Slots.                                                                  *)

(* Mutant: reclaim_task_slot without the unlink_task before it.            *)
ReclaimLinked(D) ==
    /\ id' = [s \in Slots |-> IF s \in D THEN 0 ELSE id[s]]
    /\ st' = [s \in Slots |-> IF s \in D THEN "ZOMBIE" ELSE st[s]]
    /\ name' = [s \in Slots |-> IF s \in D THEN "none" ELSE name[s]]
    /\ rsp' = [s \in Slots |-> IF s \in D THEN NoContext ELSE rsp[s]]
    /\ prot' = [s \in Slots |-> IF s \in D THEN 0 ELSE prot[s]]
    /\ nxt' = [s \in Slots |-> IF s \in D THEN Null ELSE nxt[s]]

(* unlink_task and reclaim_task_slot for every slot of D: the ring closes  *)
(* over the removed tasks, their stacks are freed, the slots are unused.   *)
Reclaim(D) ==
    /\ id' = [s \in Slots |-> IF s \in D THEN 0 ELSE id[s]]
    /\ st' = [s \in Slots |-> IF s \in D THEN "ZOMBIE" ELSE st[s]]
    /\ name' = [s \in Slots |-> IF s \in D THEN "none" ELSE name[s]]
    /\ rsp' = [s \in Slots |-> IF s \in D THEN NoContext ELSE rsp[s]]
    /\ prot' = [s \in Slots |-> IF s \in D THEN 0 ELSE prot[s]]
    /\ nxt' = [s \in Slots |->
                 IF s \in D THEN Null
                 ELSE IF s \in Ring THEN FirstHop(s, (Slots \cup {Null}) \ D)
                 ELSE nxt[s]]

(* is_protected_task *)
Protected(s) ==
    \/ prot[s] = 1
    \/ prot[s] # 2 /\ (s = 0 \/ name[s] \in {"shell", "serial"})

(* find_task_by_id: the lowest slot with this id.  Id 0 finds an unused    *)
(* slot; taskkill 0 reaches this.                                          *)
Find(i) == {s \in Slots : id[s] = i /\ \A r \in Slots : id[r] = i => s <= r}

(* Whose code may call into task.c: a task at its own body, or the user    *)
(* program it runs (SYS_KILL).  Task 0 only runs kernel_main's loop.       *)
InBody == pc.at = "body"
Caller == pc.at \in {"body", "user"} /\ cur # 0

(* Every function that ends with arch_enable_interrupts leaves IF set.     *)
Sti == iflag' = TRUE

-----------------------------------------------------------------------------
(* task_create: pick a slot, fill it, link it.  Three steps, none of them  *)
(* with interrupts disabled.                                               *)

Unused == {s \in Slots \ {0} : id[s] = 0}
Zombies == {s \in Slots \ {0} : id[s] # 0 /\ st[s] = "ZOMBIE"}
Lowest(S) == CHOOSE s \in S : \A r \in S : s <= r

(* The search for a slot and virt_alloc_pages, which may fail.             *)
CreatePick ==
    /\ pc.at = "pick"
    /\ IF Unused = {} /\ Zombies # {}
       THEN Reclaim({Lowest(Zombies)})
       ELSE UNCHANGED table
    /\ \/ /\ Unused \cup Zombies # {}
          /\ pc' = Pos("fill", Lowest(IF Unused # {} THEN Unused ELSE Zombies), pc.nm)
       \/ pc' = At("body")
    /\ UNCHANGED <<cur, count, preempt, user, next_id, watchdog, boot, iflag, raced>>

CreateFill ==
    /\ pc.at = "fill"
    /\ LET t == pc.t IN
         /\ rsp' = [rsp EXCEPT ![t] = FreshContext(t)]
         /\ id' = [id EXCEPT ![t] = next_id]
         /\ st' = [st EXCEPT ![t] = "READY"]
         /\ name' = [name EXCEPT ![t] = pc.nm]
         /\ prot' = [prot EXCEPT ![t] = 0]
         /\ nxt' = [nxt EXCEPT ![t] = nxt[0]]
    /\ next_id' = next_id + 1
    /\ pc' = Pos("link", pc.t, "none")
    /\ UNCHANGED <<cur, count, preempt, user, watchdog, boot, iflag, raced>>

CreateLink ==
    /\ pc.at = "link"
    /\ nxt' = [nxt EXCEPT ![0] = pc.t]
    /\ pc' = At("body")
    /\ UNCHANGED <<id, st, name, rsp, prot, cur, count, preempt, user, next_id,
                   watchdog, boot, iflag, raced>>

CallCreate(n) == pc' = Pos("pick", 0, n)

(* A command (tasktest, taskspin, a background job) creates a task.        *)
(* MaxId bounds the tasks that commands create.                            *)
CreateJob ==
    /\ InBody /\ cur # 0
    /\ next_id <= MaxId
    /\ CallCreate("job")
    /\ UNCHANGED <<table, cur, count, preempt, user, next_id, watchdog, boot,
                   iflag, raced>>

(* Mutant: a stopped shell is not found.                                   *)
ShellRunnable ==
    \E s \in Slots : id[s] # 0 /\ st[s] \in {"READY", "RUNNING"} /\ name[s] = "shell"

(* kernel_ensure_shell_task: task_find_id_by_name runs with interrupts off *)
(* and turns them on; the task_create that follows is a separate step.     *)
ShellExists == \E s \in Slots : id[s] # 0 /\ st[s] # "ZOMBIE" /\ name[s] = "shell"

EnsureShell ==
    /\ Sti
    /\ IF ShellExists THEN UNCHANGED pc ELSE CallCreate("shell")
    /\ UNCHANGED <<table, cur, count, preempt, user, next_id, watchdog, raced>>

(* kernel_main: create the shell, create the serial console, then loop.    *)
BootShell ==
    /\ InBody /\ cur = 0 /\ boot = "shell"
    /\ EnsureShell
    /\ boot' = "serial"

BootSerial ==
    /\ InBody /\ cur = 0 /\ boot = "serial"
    /\ CallCreate("serial")
    /\ boot' = "loop"
    /\ UNCHANGED <<table, cur, count, preempt, user, next_id, watchdog, iflag, raced>>

(* The watchdog of task 0's loop, and the shellspawn command.              *)
RespawnShell ==
    /\ InBody
    /\ cur = 0 => boot = "loop" /\ watchdog
    /\ ShellExists \/ next_id <= MaxId
    /\ EnsureShell
    /\ UNCHANGED boot

SetWatchdog ==
    /\ InBody /\ cur # 0
    /\ watchdog' = ~watchdog
    /\ UNCHANGED <<table, cur, count, preempt, user, next_id, boot, iflag, pc, raced>>

-----------------------------------------------------------------------------
(* Switching.                                                              *)

(* A context is used once: the saved rsp of a running task is never read   *)
(* again, and the model forgets it.                                        *)
(*                                                                         *)
(* What the thread of context c finds when task_switch has loaded it: the  *)
(* caller of do_switch_to_next marks current_task RUNNING, and one that    *)
(* came through the timer handler also leaves task_preempt_tick.           *)
Resume(c, n) ==
    /\ iflag' = c.iflag
    /\ count' = IF c.tick THEN n - 1 ELSE n
    /\ pc' = c.pc

(* Mutant: the yielding task stays RUNNING.                                *)
YieldStillRunning ==
    /\ InBody
    /\ cur = 0 => boot = "loop"
    /\ pc' = At("scan")
    /\ UNCHANGED <<table, cur, count, preempt, user, next_id, watchdog, boot, iflag,
                   raced>>

(* task_yield: the caller is READY from here on but still running.  Task 0 *)
(* yields in its loop only.                                                *)
Yield ==
    /\ InBody
    /\ cur = 0 => boot = "loop"
    /\ st' = [st EXCEPT ![cur] = "READY"]
    /\ pc' = At("scan")
    /\ UNCHANGED <<id, nxt, name, rsp, prot, cur, count, preempt, user, next_id,
                   watchdog, boot, iflag, raced>>

(* do_switch_to_next called by task_yield: find the next task and make it  *)
(* current; with no other READY task, keep running.  pc.t is then old.     *)
YieldScan ==
    /\ pc.at = "scan"
    /\ LET n == NextReady(cur) IN
         /\ st' = [st EXCEPT ![n] = "RUNNING"]
         /\ cur' = n
         /\ pc' = IF n = cur THEN At("body") ELSE Pos("switch", cur, "none")
    /\ UNCHANGED <<id, nxt, name, rsp, prot, count, preempt, user, next_id,
                   watchdog, boot, iflag, raced>>

(* Mutant: task_switch(next, old).                                         *)
YieldSwitchSwapped ==
    /\ pc.at = "switch"
    /\ rsp' = [rsp EXCEPT ![cur] = Context(pc.t, FALSE, iflag, At("body"))]
    /\ Resume(rsp[pc.t], count)
    /\ UNCHANGED <<id, st, nxt, name, prot, cur, preempt, user, next_id, watchdog,
                   boot, raced>>

(* task_switch(old, current_task): old's context is saved with its flag.   *)
YieldSwitch ==
    /\ pc.at = "switch"
    /\ rsp' = [rsp EXCEPT ![pc.t] = Context(pc.t, FALSE, iflag, At("body")),
                         ![cur] = NoContext]
    /\ Resume(rsp[cur], count)
    /\ UNCHANGED <<id, st, nxt, name, prot, cur, preempt, user, next_id, watchdog,
                   boot, raced>>

(* task_exit of a kernel task (also when a task's entry function returns). *)
(* The loops of the shell and of the serial console never return.          *)
Exit ==
    /\ InBody /\ cur # 0
    /\ name[cur] \notin {"shell", "serial"}
    /\ st' = [st EXCEPT ![cur] = "ZOMBIE"]
    /\ pc' = At("exitscan")
    /\ UNCHANGED <<id, nxt, name, rsp, prot, cur, count, preempt, user, next_id,
                   watchdog, boot, iflag, raced>>

(* do_switch_to_next called by task_exit: with no READY task the CPU halts *)
(* for good, unless a tick has made the zombie runnable in between: then   *)
(* the call returns into the loop marked "should never reach here".        *)
ExitScan ==
    /\ pc.at = "exitscan"
    /\ LET n == NextReady(cur) IN
         IF n # cur
         THEN /\ st' = [st EXCEPT ![n] = "RUNNING"]
              /\ cur' = n
              /\ pc' = Pos("exitswitch", cur, "none")
         ELSE /\ UNCHANGED cur
              /\ IF st[cur] = "ZOMBIE"
                 THEN UNCHANGED st /\ pc' = At("halt")
                 ELSE st' = [st EXCEPT ![cur] = "RUNNING"] /\ pc' = At("dead")
    /\ UNCHANGED <<id, nxt, name, rsp, prot, count, preempt, user, next_id,
                   watchdog, boot, iflag, raced>>

(* The context saved for the exited task would resume in its halt loop.    *)
ExitSwitch ==
    /\ pc.at = "exitswitch"
    /\ rsp' = [rsp EXCEPT ![pc.t] = Context(pc.t, FALSE, iflag, At("dead")),
                         ![cur] = NoContext]
    /\ Resume(rsp[cur], count)
    /\ UNCHANGED <<id, st, nxt, name, prot, cur, preempt, user, next_id, watchdog,
                   boot, raced>>

-----------------------------------------------------------------------------
(* The timer interrupt.                                                    *)

(* task_preempt_tick's guards; a tick that fails them changes nothing here.*)
CanPreempt ==
    /\ iflag /\ preempt /\ count = 0 /\ ~user
    /\ NextReady(cur) # cur

Interruptible == {"body", "pick", "fill", "link", "scan", "switch", "exitscan",
                  "exitswitch", "dead"}

(* The task whose stack the CPU is on: from "current_task = next" to the   *)
(* end of task_switch it is the old task, not current_task.                *)
OnStack == IF pc.at \in {"switch", "exitswitch"} THEN pc.t ELSE cur

(* Mutant: the handler does not raise preempt_disable_count.               *)
TickUncounted ==
    /\ pc.at \in Interruptible
    /\ CanPreempt
    /\ LET n == NextReady(cur)
       IN  /\ st' = [st EXCEPT ![cur] = "READY", ![n] = "RUNNING"]
           /\ rsp' = [rsp EXCEPT ![cur] = Context(OnStack, TRUE, TRUE, pc),
                               ![n] = NoContext]
           /\ cur' = n
           /\ IF OnStack = cur
              THEN Resume(rsp[n], count)
              ELSE pc' = At("wild") /\ UNCHANGED <<iflag, count>>
    /\ raced' = (raced \/ pc.at \notin {"body", "dead"})
    /\ UNCHANGED <<id, nxt, name, prot, preempt, user, next_id, watchdog, boot>>

(* The handler saves the interrupted thread in current_task and switches.  *)
(* The switch is one step: the handler runs with interrupts disabled.      *)
(* Between "current_task = next" and task_switch the thread still runs on  *)
(* old's stack, so the context goes to the wrong task; the next resumption *)
(* of either task is then outside the model.                               *)
Tick ==
    /\ pc.at \in Interruptible
    /\ CanPreempt
    /\ LET n == NextReady(cur)
       IN  /\ st' = [st EXCEPT ![cur] = "READY", ![n] = "RUNNING"]
           /\ rsp' = [rsp EXCEPT ![cur] = Context(OnStack, TRUE, TRUE, pc),
                               ![n] = NoContext]
           /\ cur' = n
           /\ IF OnStack = cur
              THEN Resume(rsp[n], count + 1)
              ELSE pc' = At("wild") /\ count' = count + 1 /\ UNCHANGED iflag
    /\ raced' = (raced \/ pc.at \notin {"body", "dead"})
    /\ UNCHANGED <<id, nxt, name, prot, preempt, user, next_id, watchdog, boot>>

-----------------------------------------------------------------------------
(* The functions that run between cli and sti.                             *)

UnchangedByTableOps == UNCHANGED <<cur, count, preempt, user, next_id, watchdog,
                                   boot, pc, raced>>

Kill(i) ==
    /\ Caller
    /\ Sti
    /\ LET K == {s \in Find(i) : ~Protected(s) /\ s # cur}
       IN  IF K = {} THEN UNCHANGED table ELSE Reclaim(K)
    /\ UnchangedByTableOps

(* Mutant: kill-all does not ask is_protected_task.                        *)
KillAllUnguarded ==
    /\ InBody /\ cur # 0
    /\ Sti
    /\ Reclaim(Live \ {0, cur})
    /\ UnchangedByTableOps

KillAll ==
    /\ InBody /\ cur # 0
    /\ Sti
    /\ Reclaim({s \in Live \ {0, cur} : ~Protected(s)})
    /\ UnchangedByTableOps

Reap ==
    /\ InBody /\ cur # 0
    /\ Sti
    /\ Reclaim(Zombies \ {cur})
    /\ UnchangedByTableOps

Stop(i) ==
    /\ Caller
    /\ Sti
    /\ LET K == {s \in Find(i) : /\ ~Protected(s) /\ s # cur
                                 /\ st[s] \in {"READY", "RUNNING"}}
       IN  st' = [s \in Slots |-> IF s \in K THEN "STOPPED" ELSE st[s]]
    /\ UNCHANGED <<id, nxt, name, rsp, prot>>
    /\ UnchangedByTableOps

(* Mutant: task_continue does not ask for TASK_STATE_STOPPED.              *)
ContinueAny(i) ==
    /\ Caller
    /\ Sti
    /\ st' = [s \in Slots |-> IF s \in Find(i) THEN "READY" ELSE st[s]]
    /\ UNCHANGED <<id, nxt, name, rsp, prot>>
    /\ UnchangedByTableOps

Continue(i) ==
    /\ Caller
    /\ Sti
    /\ LET K == {s \in Find(i) : st[s] = "STOPPED"}
       IN  st' = [s \in Slots |-> IF s \in K THEN "READY" ELSE st[s]]
    /\ UNCHANGED <<id, nxt, name, rsp, prot>>
    /\ UnchangedByTableOps

(* task_set_protection_by_id; by_name differs only in how it finds s.      *)
Protect(i, on) ==
    /\ InBody /\ cur # 0
    /\ i # 0
    /\ Sti
    /\ LET K == Find(i) \ {0}
       IN  prot' = [s \in Slots |-> IF s \in K THEN (IF on THEN 1 ELSE 2) ELSE prot[s]]
    /\ UNCHANGED <<id, st, nxt, name, rsp>>
    /\ UnchangedByTableOps

SetPreemption ==
    /\ InBody /\ cur # 0
    /\ preempt' = ~preempt
    /\ UNCHANGED <<table, cur, count, user, next_id, watchdog, boot, iflag, pc, raced>>

-----------------------------------------------------------------------------
(* Ring 3.                                                                 *)

(* task_exec_user: iretq sets the interrupt flag.                          *)
ExecUser ==
    /\ InBody /\ cur # 0
    /\ user' = TRUE
    /\ iflag' = TRUE
    /\ pc' = At("user")
    /\ UNCHANGED <<table, cur, count, preempt, next_id, watchdog, boot, raced>>

(* SYS_EXIT: task_exit restores the saved kernel stack.  SYSCALL cleared   *)
(* the interrupt flag and nothing sets it again.  A fault's handler sets   *)
(* it before task_user_fault_exit.                                         *)
UserExit(fault) ==
    /\ pc.at = "user"
    /\ user' = FALSE
    /\ iflag' = fault
    /\ pc' = At("body")
    /\ UNCHANGED <<table, cur, count, preempt, next_id, watchdog, boot, raced>>

-----------------------------------------------------------------------------
Ids == 0 .. next_id - 1

(* task_init, and kernel_main up to arch_enable_interrupts.                *)
Init ==
    /\ id = [s \in Slots |-> IF s = 0 THEN 1 ELSE 0]
    /\ st = [s \in Slots |-> IF s = 0 THEN "RUNNING" ELSE "ZOMBIE"]
    /\ nxt = [s \in Slots |-> IF s = 0 THEN 0 ELSE Null]
    /\ name = [s \in Slots |-> IF s = 0 THEN "kernel" ELSE "none"]
    /\ rsp = [s \in Slots |-> NoContext]
    /\ prot = [s \in Slots |-> 0]
    /\ cur = 0 /\ count = 0 /\ preempt = TRUE /\ user = FALSE
    /\ next_id = 2 /\ watchdog = FALSE /\ boot = "shell"
    /\ iflag = TRUE /\ pc = At("body") /\ raced = FALSE

(* A thread on a foreign stack, a halted CPU, and a walk of a broken ring  *)
(* are the ends of what the model follows.                                 *)
Followed ==
    /\ pc.at \notin {"wild", "halt"}
    /\ RingSound /\ NextReady(cur) # Null
    /\ raced => FollowRaces

SchedulerStep == CreatePick \/ CreateFill \/ CreateLink \/ YieldScan \/ YieldSwitch
                   \/ ExitScan \/ ExitSwitch

KernelLoop == BootShell \/ BootSerial \/ RespawnShell \/ Yield

Command ==
    \/ CreateJob \/ SetWatchdog \/ SetPreemption \/ KillAll \/ Reap \/ Exit
    \/ \E i \in Ids : Kill(i) \/ Stop(i) \/ Continue(i)
    \/ \E i \in Ids, on \in BOOLEAN : Protect(i, on)
    \/ ExecUser \/ \E fault \in BOOLEAN : UserExit(fault)

Next ==
    \/ Followed /\ (SchedulerStep \/ KernelLoop \/ Command \/ Tick)
    \/ (~Followed \/ pc.at = "dead") /\ UNCHANGED vars

Spec == Init /\ [][Next]_vars

(* The scheduler's own code makes progress, a user program ends, and every *)
(* task comes back to its loop and yields again and again, as the loops of *)
(* task 0, of the shell, of the serial console and of taskspin do.         *)
CoopSpec ==
    /\ Spec
    /\ WF_vars(Followed /\ (SchedulerStep \/ BootShell \/ BootSerial))
    /\ WF_vars(Followed /\ UserExit(FALSE))
    /\ SF_vars(Followed /\ Yield)

(* The timer keeps ticking and every task but the shell comes back to its  *)
(* loop: the shell may sit in a tight loop.                                *)
TightLoopSpec ==
    /\ Spec
    /\ WF_vars(Followed /\ (SchedulerStep \/ BootShell \/ BootSerial))
    /\ WF_vars(Followed /\ UserExit(FALSE))
    /\ WF_vars(Followed /\ Tick)
    /\ SF_vars(Followed /\ name[cur] # "shell" /\ Yield)

-----------------------------------------------------------------------------
(* Properties.                                                             *)

(* Types, a part of RingIntact. *)
TypeOK ==
    /\ id \in [Slots -> Nat]
    /\ st \in [Slots -> States]
    /\ nxt \in [Slots -> Slots \cup {Null}]
    /\ name \in [Slots -> Names]
    /\ rsp \in [Slots -> Contexts]
    /\ prot \in [Slots -> 0 .. 2]
    /\ cur \in Slots
    /\ count \in Int
    /\ preempt \in BOOLEAN /\ user \in BOOLEAN
    /\ next_id \in Nat
    /\ watchdog \in BOOLEAN
    /\ boot \in {"shell", "serial", "loop"}
    /\ iflag \in BOOLEAN
    /\ pc \in PC
    /\ raced \in BOOLEAN

(* As long as no tick has hit the scheduler's own code: current_task is the *)
(* only RUNNING task, and it is RUNNING except between the moment it gives  *)
(* up the CPU and the choice of its successor (do_switch_to_next).          *)
OnlyCurrentRuns ==
    ~raced =>
      /\ \A s \in Live : st[s] = "RUNNING" => s = cur
      /\ pc.at \notin {"scan", "exitscan", "halt"} => st[cur] = "RUNNING"

(* As long as no tick has hit the scheduler's own code, the ring holds each *)
(* live task once: kill, kill-all, reap and the reuse of a zombie's slot    *)
(* never lose a task or leave a dangling next pointer.  So a walk of it     *)
(* finds a task to run: the "no runnable tasks left" halt of                *)
(* do_switch_to_next and the halt after task_exit's switch are unreachable, *)
(* task 0 being beyond stop, kill and exit.                                 *)
NeverHalts == pc.at \notin {"halt", "dead"}
RingIntact == TypeOK /\ (~raced => RingSound /\ NeverHalts)

(* As long as no tick has hit the scheduler's own code, no two live tasks   *)
(* have the same id and there is at most one shell that can run             *)
(* (kernel_ensure_shell_task looks before it creates).                      *)
Identities ==
    ~raced =>
      /\ \A s, t \in Live : id[s] = id[t] => s = t
      /\ \A s, t \in Live : name[s] = "shell" /\ name[t] = "shell" => s = t

(* Every task that can be switched to has a context on its own stack.      *)
ContextsSound ==
    ~raced => \A s \in Live \ {OnStack} : rsp[s].stack = s

(* preempt_disable_count never falls below the number of suspended tasks   *)
(* that will still decrement it: it cannot become negative and so let a    *)
(* tick into a nested switch.                                              *)
Suspended == {s \in Live \ {OnStack} : rsp[s].tick}
CountCoversSuspended == ~raced => count >= Cardinality(Suspended)

(* A protected task that has not exited is never removed nor stopped by    *)
(* kill, kill-all, stop, reap or the reuse of slots.                       *)
ProtectedSurvives ==
    [][~raced' => \A s \in Live :
         Protected(s) /\ st[s] # "ZOMBIE" =>
           id'[s] = id[s] /\ (st'[s] = "STOPPED" => st[s] = "STOPPED")
           /\ (st'[s] = "ZOMBIE" => s = cur)]_vars

(* A task that has exited is never scheduled again under the same id, and  *)
(* a stopped task runs again only after task_continue made it READY.       *)
NoResurrection ==
    [][~raced' => \A s \in Live : id'[s] = id[s] =>
         /\ st[s] = "ZOMBIE" => st'[s] = "ZOMBIE"
         /\ st[s] = "STOPPED" => st'[s] \in {"STOPPED", "READY"}]_vars

(* When every task keeps yielding, a READY task gets the CPU: whatever is  *)
(* created, killed, stopped or preempted meanwhile, the ring walk of       *)
(* do_switch_to_next starves no task.                                      *)
ReadyTasksRun ==
    \A s \in Slots : (id[s] # 0 /\ st[s] = "READY") ~> (st[s] # "READY" \/ raced)

(* "With the PIT timer driving preemption, this console can respond to     *)
(* commands even when the VGA shell is blocked in a tight loop"            *)
(* (kernel/serial_console.c): a READY serial console gets the CPU.         *)
SerialConsoleResponds ==
    \A s \in Slots :
      (name[s] = "serial" /\ st[s] = "READY") ~> (st[s] # "READY" \/ raced)

(* "The timer tick handler calls task_preempt_tick() which yields the CPU  *)
(* to the next ready task when safe to do so" (kernel/task.c): every task  *)
(* off the CPU has its context on its own stack.                           *)
SwitchOnlyWhenSafe == \A s \in Live \ {OnStack} : rsp[s].stack = s

=============================================================================
