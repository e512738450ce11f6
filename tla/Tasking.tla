------------------------------ MODULE Tasking -------------------------------
(***************************************************************************)
(* The cooperative scheduler of kernel/tasking.c with the time accounting  *)
(* of kernel/timer.c and the context switch of kernel/utility.asm.         *)
(*                                                                         *)
(* A task (process_t) is named by its pid.  The CPU executes on the stack  *)
(* esp, and pc[s] is where the code on stack s is, or will resume:         *)
(*                                                                         *)
(*   "init"     init_tasking, before its while loop                        *)
(*   "body"     the while loop of task0/task1/task2, about to call         *)
(*              schedule() or terminate_task()                             *)
(*   "read"     switch_to_task, update_time about to call read_timer()     *)
(*   "account"  update_time, the ticks are in the local current_time       *)
(*   "switch"   switch_to_task, update_time has returned                   *)
(*   "stub"     in switch_to_task_stub; a suspended task stays here        *)
(*   "panic"    hung in panic() with interrupts disabled                   *)
(*                                                                         *)
(* Interrupts are enabled throughout (kernel.c enables them before         *)
(* init_tasking), so a timer tick can fall between any two of these steps. *)
(***************************************************************************)
EXTENDS Integers, Sequences, Functions

CONSTANTS
    NTasks,    \* tasks created by init_tasking, the kernel task included (3)
    Loops,     \* the tasks whose body is while (1); the kernel task is one
    Rounds,    \* how often a task outside Loops may yield before it terminates
    WordMod,   \* 2^32, the modulus of uint32_t
    MaxTicks,  \* the timer stops at this count; WordMod lets it wrap around
    NULL

Pid == 0 .. NTasks - 1

ASSUME TasksAssumption == NTasks \in Nat \ {0} /\ NULL \notin Pid
ASSUME BodyAssumption == 0 \in Loops /\ Loops \subseteq Pid /\ Rounds \in [Pid -> SUBSET Nat]
ASSUME WordAssumption == WordMod \in Nat \ {0, 1} /\ MaxTicks \in 0 .. WordMod

VARIABLES
    next_task,           \* process_t.next_task
    state,               \* process_t.state
    time_used,           \* process_t.time_used
    kernel_stack_top,    \* process_t.kernel_stack_top: the stack it points into
    ready_to_run,        \* the list of live tasks, the running one in front
    terminated,          \* the list of terminated tasks
    current_task, previous_task,
    next_available_pid,
    last_time,           \* ticks when time was last accounted
    ticks,               \* timer.c: timer interrupts so far
    x,                   \* the loop counter of task1, for every finite task
    esp, pc,             \* the stack in use, and the control point of each stack
    frame,               \* which function called switch_to_task on each stack
    other,               \* the argument of the switch_to_task under way
    current_time         \* the local of update_time

lists == <<next_task, state, ready_to_run, terminated>>
clock == <<ticks, last_time, time_used, current_time>>
cpu   == <<esp, pc, frame, other, kernel_stack_top>>
tasks == <<current_task, previous_task, next_available_pid, x>>
vars  == <<lists, clock, cpu, tasks>>

Word == 0 .. WordMod - 1
PidOrNull == Pid \cup {NULL}
ProcessState == {"RUNNING", "READY_TO_RUN", "BLOCKED", "TERMINATED"}
Control == {"none", "init", "body", "read", "account", "switch", "stub", "panic"}
EmptyList == [head |-> NULL, tail |-> NULL]

(***************************************************************************)
(* enqueue_task(queue, proc): the queue and the next_task links after it.  *)
(* Adding to an empty queue leaves proc's own link as it was.              *)
(***************************************************************************)
enqueue_task_unlinked(queue, next, proc) ==
    IF queue.head = NULL
    THEN [queue |-> [head |-> proc, tail |-> proc], next  |-> next]
    ELSE [queue |-> [queue EXCEPT !.tail = proc], next  |-> [next EXCEPT ![proc] = NULL]]

enqueue_task(queue, next, proc) ==
    IF queue.head = NULL
    THEN [queue |-> [head |-> proc, tail |-> proc], next  |-> next]
    ELSE [queue |-> [queue EXCEPT !.tail = proc],
          next  |-> [next EXCEPT ![queue.tail] = proc, ![proc] = NULL]]

(***************************************************************************)
(* elapsed_time(start, end) of timer.c.  UINT64_MAX - start + end is       *)
(* computed in 64 bits and truncated to the uint32_t it returns.           *)
(***************************************************************************)
UINT64_MAX == WordMod * WordMod - 1

elapsed_time(start, end) ==
    IF end >= start THEN end - start ELSE (UINT64_MAX - start + end) % WordMod

-----------------------------------------------------------------------------

Init ==
    /\ next_task = [p \in Pid |-> NULL]
    /\ state = [p \in Pid |-> "RUNNING"]            \* halloc returns zeroes
    /\ time_used = [p \in Pid |-> 0]
    /\ kernel_stack_top = [p \in Pid |-> NULL]
    /\ ready_to_run = EmptyList
    /\ terminated = EmptyList
    /\ current_task = NULL
    /\ previous_task = NULL
    /\ next_available_pid = 0
    /\ last_time = 0
    /\ ticks = 0
    /\ x \in [Pid -> UNION {Rounds[p] : p \in Pid}]
    /\ \A p \in Pid : x[p] \in Rounds[p]
    /\ esp = 0
    /\ pc = [p \in Pid |-> IF p = 0 THEN "init" ELSE "none"]
    /\ frame = [p \in Pid |-> "none"]
    /\ other = NULL
    /\ current_time = 0

(***************************************************************************)
(* One "enqueue_task(&ready_to_run, create_kernel_task(..))" of            *)
(* init_tasking.  The first task created is the one already running: it    *)
(* gets no start address, and its stack pointer is only filled in by the   *)
(* first switch away from it (NULL until then: the stack area it is given  *)
(* is never used).  Every other task gets a stack of its own, on which the *)
(* stub's ret enters the task's function.                                  *)
(***************************************************************************)
CreateTask_one_too_many ==
    LET p == next_available_pid
        q == enqueue_task(ready_to_run, next_task, p)
    IN  /\ pc[esp] = "init"
        /\ p <= NTasks
        /\ next_available_pid' = p + 1
        /\ next_task' = q.next
        /\ ready_to_run' = q.queue
        /\ state' = [state EXCEPT ![p] = "READY_TO_RUN"]
        /\ kernel_stack_top' = [kernel_stack_top EXCEPT ![p] = IF p = 0 THEN NULL ELSE p]
        /\ current_task' = IF p = 0 THEN p ELSE current_task
        /\ pc' = [pc EXCEPT ![p] = IF p = 0 THEN "init" ELSE "body"]
        /\ UNCHANGED <<terminated, previous_task, esp, frame, other, x, clock>>

CreateTask ==
    LET p == next_available_pid
        q == enqueue_task(ready_to_run, next_task, p)
    IN  /\ pc[esp] = "init"
        /\ p < NTasks
        /\ next_available_pid' = p + 1
        /\ next_task' = q.next
        /\ ready_to_run' = q.queue
        /\ state' = [state EXCEPT ![p] = "READY_TO_RUN"]
        /\ kernel_stack_top' = [kernel_stack_top EXCEPT ![p] = IF p = 0 THEN NULL ELSE p]
        /\ current_task' = IF p = 0 THEN p ELSE current_task
        /\ pc' = [pc EXCEPT ![p] = IF p = 0 THEN "init" ELSE "body"]
        /\ UNCHANGED <<terminated, previous_task, esp, frame, other, x, clock>>

\* init_tasking enters its while loop: task 0's body.
StartLoop ==
    /\ pc[esp] = "init"
    /\ next_available_pid = NTasks
    /\ pc' = [pc EXCEPT ![esp] = "body"]
    /\ UNCHANGED <<lists, clock, tasks, esp, frame, other, kernel_stack_top>>

(***************************************************************************)
(* schedule(), called from the loop of the running task.  The successor is *)
(* read before enqueue_task overwrites the link.                           *)
(***************************************************************************)
Yields(p) == p \in Loops \/ x[p] > 0
CountDown_forgotten(p) == x' = x

CountDown(p) == x' = IF p \in Loops THEN x ELSE [x EXCEPT ![p] = @ - 1]

ScheduleAlone ==
    /\ pc[esp] = "body"
    /\ Yields(esp)
    /\ next_task[current_task] = NULL
    /\ CountDown(esp)
    /\ UNCHANGED <<lists, clock, cpu, current_task, previous_task, next_available_pid>>

Schedule ==
    LET next == next_task[current_task]
        q == enqueue_task([ready_to_run EXCEPT !.head = next], next_task, current_task)
    IN  /\ pc[esp] = "body"
        /\ Yields(esp)
        /\ next # NULL
        /\ other' = next
        /\ ready_to_run' = q.queue
        /\ next_task' = q.next
        /\ state' = [state EXCEPT ![current_task] = "READY_TO_RUN"]
        /\ CountDown(esp)
        /\ pc' = [pc EXCEPT ![esp] = "read"]
        /\ frame' = [frame EXCEPT ![esp] = "schedule"]
        /\ UNCHANGED <<terminated, clock, current_task, previous_task,
                       next_available_pid, esp, kernel_stack_top>>

(***************************************************************************)
(* terminate_task(), called when the loop of a finite task ends.           *)
(***************************************************************************)
Terminate_keeps_head ==
    LET q == enqueue_task(terminated, next_task, current_task)
    IN  /\ pc[esp] = "body"
        /\ ~Yields(esp)
        /\ other' = next_task[current_task]
        /\ state' = [state EXCEPT ![current_task] = "TERMINATED"]
        /\ terminated' = q.queue
        /\ next_task' = q.next
        /\ pc' = [pc EXCEPT ![esp] = "read"]
        /\ frame' = [frame EXCEPT ![esp] = "terminate_task"]
        /\ UNCHANGED <<ready_to_run, clock, tasks, esp, kernel_stack_top>>

Terminate_requeues ==
    LET next == next_task[current_task]
        q == enqueue_task([ready_to_run EXCEPT !.head = next], next_task, current_task)
    IN  /\ pc[esp] = "body"
        /\ ~Yields(esp)
        /\ other' = next
        /\ ready_to_run' = q.queue
        /\ state' = [state EXCEPT ![current_task] = "TERMINATED"]
        /\ next_task' = q.next
        /\ pc' = [pc EXCEPT ![esp] = "read"]
        /\ frame' = [frame EXCEPT ![esp] = "terminate_task"]
        /\ UNCHANGED <<terminated, clock, tasks, esp, kernel_stack_top>>

Terminate ==
    LET next == next_task[current_task]
        q == enqueue_task(terminated, next_task, current_task)
    IN  /\ pc[esp] = "body"
        /\ ~Yields(esp)
        /\ IF current_task = 0
           THEN /\ pc' = [pc EXCEPT ![esp] = "panic"]
                /\ UNCHANGED <<lists, other, frame>>
           ELSE /\ other' = next
                /\ ready_to_run' = [ready_to_run EXCEPT !.head = next]
                /\ state' = [state EXCEPT ![current_task] = "TERMINATED"]
                /\ terminated' = q.queue
                /\ next_task' = q.next
                /\ pc' = [pc EXCEPT ![esp] = "read"]
                /\ frame' = [frame EXCEPT ![esp] = "terminate_task"]
        /\ UNCHANGED <<clock, tasks, esp, kernel_stack_top>>

\* update_time: current_time = read_timer().
ReadTimer ==
    /\ pc[esp] = "read"
    /\ current_time' = ticks
    /\ pc' = [pc EXCEPT ![esp] = "account"]
    /\ UNCHANGED <<lists, tasks, ticks, last_time, time_used, esp, frame, other, kernel_stack_top>>

\* The rest of update_time charges the ticks to the task being left.
UpdateTime_rereads_timer ==
    /\ pc[esp] = "account"
    /\ time_used' = [time_used EXCEPT ![current_task] =
                        (@ + elapsed_time(last_time, current_time)) % WordMod]
    /\ last_time' = ticks
    /\ current_time' = 0
    /\ pc' = [pc EXCEPT ![esp] = "switch"]
    /\ UNCHANGED <<lists, tasks, ticks, esp, frame, other, kernel_stack_top>>

UpdateTime ==
    /\ pc[esp] = "account"
    /\ time_used' = [time_used EXCEPT ![current_task] =
                        (@ + elapsed_time(last_time, current_time)) % WordMod]
    /\ last_time' = current_time
    /\ current_time' = 0                            \* the local goes out of scope
    /\ pc' = [pc EXCEPT ![esp] = "switch"]
    /\ UNCHANGED <<lists, tasks, ticks, esp, frame, other, kernel_stack_top>>

\* switch_to_task: previous_task = current_task; current_task = other.
SwitchToTask ==
    /\ pc[esp] = "switch"
    /\ previous_task' = current_task
    /\ current_task' = other
    /\ pc' = [pc EXCEPT ![esp] = "stub"]
    /\ UNCHANGED <<lists, clock, next_available_pid, x, esp, frame, other, kernel_stack_top>>

(***************************************************************************)
(* switch_to_task_stub saves esp in previous_task, loads it from the task  *)
(* switched to and returns on that task's stack: into the function of a    *)
(* task that never ran, out of schedule(), or, if the task had terminated, *)
(* to the panic that ends terminate_task().                                *)
(***************************************************************************)
ResumeAt(s) ==
    CASE pc[s] = "body" -> "body"
      [] pc[s] # "body" /\ frame[s] = "schedule" -> "body"
      [] OTHER -> "panic"

SwitchStub_saves_into_current ==
    LET saved == [kernel_stack_top EXCEPT ![current_task] = esp]
    IN  /\ pc[esp] = "stub"
        /\ kernel_stack_top' = saved
        /\ esp' = saved[other]
        /\ pc' = [pc EXCEPT ![saved[other]] = ResumeAt(saved[other])]
        /\ UNCHANGED <<lists, clock, tasks, frame, other>>

SwitchStub ==
    LET saved == [kernel_stack_top EXCEPT ![previous_task] = esp]
    IN  /\ pc[esp] = "stub"
        /\ kernel_stack_top' = saved
        /\ esp' = saved[other]
        /\ pc' = [pc EXCEPT ![saved[other]] = ResumeAt(saved[other])]
        /\ UNCHANGED <<lists, clock, tasks, frame, other>>

\* irq0: timer_callback runs on the interrupted stack and only counts.
TimerCallback ==
    /\ pc[esp] # "panic"                            \* panic() disables interrupts
    /\ ticks < MaxTicks
    /\ ticks' = (ticks + 1) % WordMod
    /\ UNCHANGED <<lists, cpu, tasks, last_time, time_used, current_time>>

Cpu ==
    \/ CreateTask \/ StartLoop
    \/ ScheduleAlone \/ Schedule \/ Terminate
    \/ ReadTimer \/ UpdateTime \/ SwitchToTask \/ SwitchStub

Next == Cpu \/ TimerCallback

\* Timer interrupts are served and return, so the interrupted code goes on.
Spec == Init /\ [][Next]_vars /\ WF_vars(Cpu)

-----------------------------------------------------------------------------

List == [head : PidOrNull, tail : PidOrNull]

\* The type of every variable: what the declarations of tasking.c promise.
TypeOK ==
    /\ next_task \in [Pid -> PidOrNull]
    /\ state \in [Pid -> ProcessState]
    /\ time_used \in [Pid -> Word]
    /\ kernel_stack_top \in [Pid -> PidOrNull]
    /\ ready_to_run \in List
    /\ terminated \in List
    /\ current_task \in PidOrNull
    /\ previous_task \in PidOrNull
    /\ next_available_pid \in 0 .. NTasks
    /\ last_time \in Word
    /\ ticks \in Word
    /\ x \in [Pid -> Nat]
    /\ esp \in Pid
    /\ pc \in [Pid -> Control]
    /\ frame \in [Pid -> {"none", "schedule", "terminate_task"}]
    /\ other \in PidOrNull
    /\ current_time \in Word

Live(p) == p < next_available_pid /\ state[p] # "TERMINATED"
SwitchPending == pc[esp] \in {"read", "account", "switch"}

(***************************************************************************)
(* q is the ready list: its links lead from head to tail and end there,    *)
(* and it holds every live task exactly once.                              *)
(***************************************************************************)
IsReadyList(n, q) ==
    /\ ready_to_run.head = q[1]
    /\ ready_to_run.tail = q[n]
    /\ \A i \in 1 .. n - 1 : next_task[q[i]] = q[i + 1]
    /\ next_task[q[n]] = NULL
    /\ \A i, j \in 1 .. n : q[i] = q[j] => i = j
    /\ \A p \in Pid : Live(p) <=> \E i \in 1 .. n : q[i] = p

\* The links of the ready list never lose a live task, hold one twice, form a
\* cycle or keep a terminated one, however tasks yield and terminate
\* (schedule, enqueue_task and terminate_task share the next_task links).
ReadyListExact ==
    next_available_pid > 0 => \E n \in 1 .. NTasks : \E q \in [1 .. n -> Pid] : IsReadyList(n, q)

\* terminate_task switches to next_task without a NULL check: a task that can
\* terminate always has a successor, because the kernel task never leaves the list.
SuccessorExists ==
    pc[esp] = "body" /\ current_task # 0 => next_task[current_task] # NULL

\* Neither panic of terminate_task is reached: the kernel task does not
\* terminate, and control never comes back to a terminated task.
NoPanic == pc[esp] # "panic"

\* Outside a switch the CPU runs on the stack of current_task, and every live
\* task that is not running has its own stack saved in its kernel_stack_top
\* (tasking.c and switch_to_task_stub agree about who is left and who is entered).
StacksMatchTasks ==
    /\ pc[esp] = "body" => esp = current_task
    /\ \A p \in Pid \ {esp} : Live(p) => kernel_stack_top[p] = p

\* What a step does to terminated tasks: no revival, no return to their stacks.
KeepsTerminated ==
    \A p \in Pid : state[p] = "TERMINATED" =>
        state'[p] = "TERMINATED" /\ (esp # p => esp' # p)

\* A terminated task stays terminated, and once the CPU has left its stack it
\* never runs there again (the panic that ends terminate_task stays unreached).
TerminatedForever == [][KeepsTerminated]_vars

\* Until the tick counter wraps around, every tick is charged to exactly one
\* task: the times used add up to the time of the last accounting, although
\* ticks arrive between read_timer() and the switch.
TimeConserved == SumFunction(time_used) % WordMod = last_time

\* Every live task gets the CPU again and again.
StarvationFree == \A p \in Pid : Live(p) ~> (esp = p /\ pc[p] = "body")

\* A task with a finite loop, such as task1, terminates.
FiniteTasksTerminate == \A p \in Pid \ Loops : <>(state[p] = "TERMINATED")

-----------------------------------------------------------------------------
(***************************************************************************)
(* The inductive invariant behind the safety properties above.             *)
(***************************************************************************)

\* While init_tasking creates tasks, the ready list is 0, 1, 2, ... in pid order.
CreationInv ==
    pc[esp] = "init" =>
        /\ esp = 0
        /\ terminated.head = NULL
        /\ \A p \in Pid : state[p] # "TERMINATED"
        /\ \A p \in Pid : p >= next_available_pid => next_task[p] = NULL
        /\ next_available_pid = 0 => ready_to_run.head = NULL
        /\ next_available_pid > 0 =>
              /\ current_task = 0
              /\ ready_to_run.head = 0
              /\ ready_to_run.tail = next_available_pid - 1
              /\ \A p \in Pid : p < next_available_pid - 1 => next_task[p] = p + 1

\* Who current_task, previous_task, other and the head of the ready list are at
\* each point of a switch.
SwitchInv ==
    /\ pc[esp] \in {"init", "body", "read", "account", "switch", "stub"}
    /\ pc[esp] # "init" => next_available_pid = NTasks
    /\ pc[esp] = "body" => current_task = esp /\ ready_to_run.head = esp
    /\ SwitchPending => current_task = esp /\ other = ready_to_run.head /\ other # esp
    /\ pc[esp] = "stub" =>
          /\ previous_task = esp
          /\ current_task = other
          /\ other = ready_to_run.head
          /\ other # esp
    /\ pc[esp] \notin {"init", "body"} =>
          (IF state[esp] = "TERMINATED" THEN frame[esp] = "terminate_task"
                                        ELSE frame[esp] = "schedule")

\* Every live task off the CPU can be resumed, and not inside terminate_task.
ResumeInv ==
    \A p \in Pid \ {esp} : Live(p) =>
        /\ kernel_stack_top[p] = p
        /\ pc[p] = "body" \/ (pc[p] = "stub" /\ frame[p] = "schedule")

\* The kernel task never terminates; the tail of the terminated list did.
TerminatedInv ==
    /\ state[0] # "TERMINATED"
    /\ terminated.head # NULL => terminated.tail \in Pid /\ state[terminated.tail] = "TERMINATED"

IInv ==
    /\ TypeOK
    /\ CreationInv
    /\ ReadyListExact
    /\ SwitchInv
    /\ ResumeInv
    /\ TerminatedInv

-----------------------------------------------------------------------------

\* The list from head along next, up to its end.
Followed(head, next) ==
    LET walk[i \in 1 .. NTasks] ==
            IF i = 1 THEN head ELSE IF walk[i - 1] = NULL THEN NULL ELSE next[walk[i - 1]]
        n == CHOOSE n \in 0 .. NTasks : \A i \in 1 .. NTasks : walk[i] # NULL <=> i <= n
    IN  [i \in 1 .. n |-> walk[i]]

\* The ready list as a sequence.
ReadyList == Followed(ready_to_run.head, next_task)

RR == INSTANCE RoundRobin WITH queue <- ReadyList, created <- next_available_pid

\* The linked lists implement a round-robin queue: see RoundRobin.
ImplementsRoundRobin == RR!Spec
=============================================================================
