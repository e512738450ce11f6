--------------------------- MODULE TaskingProofs ----------------------------
(***************************************************************************)
(* Proofs about the scheduler, for every number of tasks and every body.   *)
(* IInv is shown inductive action by action; the safety properties that    *)
(* TLC checks on small instances follow from it.                           *)
(***************************************************************************)
EXTENDS Tasking, FiniteSets, FiniteSetTheorems, SequenceTheorems, WellFoundedInduction, TLAPS

\* A remainder of a uint32_t computation is a uint32_t.
LEMMA ModInWord == ASSUME NEW n \in Int PROVE n % WordMod \in Word
  BY WordAssumption DEF Word

\* elapsed_time returns a uint32_t, wrapped around or not.
LEMMA ElapsedInWord ==
  ASSUME NEW start \in Word, NEW end \in Word
  PROVE  elapsed_time(start, end) \in Word
<1>1. CASE end >= start
  BY <1>1, WordAssumption DEF elapsed_time, Word
<1>2. CASE ~(end >= start)
  <2>1. UINT64_MAX - start + end \in Int
    BY WordAssumption DEF UINT64_MAX, Word
  <2>2. elapsed_time(start, end) = (UINT64_MAX - start + end) % WordMod
    BY <1>2 DEF elapsed_time
  <2>3. QED
    BY <2>1, <2>2, ModInWord
<1>3. QED
  BY <1>1, <1>2

\* The initial state satisfies the invariant: no task has been created yet.
LEMMA InitIInv == Init => IInv
<1>. SUFFICES ASSUME Init PROVE IInv
  OBVIOUS
<1>. USE DEF Init, EmptyList
<1>0. 0 \in Pid /\ NULL \notin Pid /\ NTasks \in Nat
  BY TasksAssumption DEF Pid
<1>1. TypeOK
  <2>1. x \in [Pid -> Nat]
    BY BodyAssumption
  <2>2. ready_to_run \in List /\ terminated \in List
    BY DEF List, PidOrNull
  <2>3. 0 \in Word
    BY WordAssumption DEF Word
  <2>4. pc \in [Pid -> Control] /\ state \in [Pid -> ProcessState]
    BY DEF ProcessState, Control
  <2>5. QED
    BY <1>0, <2>1, <2>2, <2>3, <2>4 DEF TypeOK, PidOrNull
<1>2. CreationInv
  BY <1>0 DEF CreationInv, Pid
<1>3. ReadyListExact
  BY DEF ReadyListExact
<1>4. SwitchInv
  BY <1>0 DEF SwitchInv, SwitchPending
<1>5. ResumeInv
  BY DEF ResumeInv, Live, Pid
<1>6. TerminatedInv
  BY <1>0 DEF TerminatedInv
<1>7. QED
  BY <1>1, <1>2, <1>3, <1>4, <1>5, <1>6 DEF IInv

-----------------------------------------------------------------------------
(***************************************************************************)
(* Steps that leave the lists alone.                                       *)
(***************************************************************************)

\* ReadyListExact speaks of the links, the states, the list and the pid counter.
LEMMA ReadyListUnchanged ==
  ASSUME ReadyListExact, UNCHANGED <<next_task, state, ready_to_run, next_available_pid>>
  PROVE  ReadyListExact'
BY DEF ReadyListExact, IsReadyList, Live

\* A timer interrupt changes nothing but the tick counter.
LEMMA TimerCallbackIInv == ASSUME IInv, TimerCallback PROVE IInv'
<1>. USE DEF TimerCallback, lists, cpu, tasks
<1>1. ticks' \in Word
  BY ModInWord DEF IInv, TypeOK, Word
<1>2. TypeOK'
  BY <1>1 DEF IInv, TypeOK
<1>3. ReadyListExact'
  BY ReadyListUnchanged DEF IInv
<1>4. CreationInv' /\ SwitchInv' /\ ResumeInv' /\ TerminatedInv'
  BY DEF IInv, CreationInv, SwitchInv, SwitchPending, ResumeInv, TerminatedInv, Live
<1>5. QED
  BY <1>2, <1>3, <1>4 DEF IInv

\* A task alone in the list returns from schedule() at once.
LEMMA ScheduleAloneIInv == ASSUME IInv, ScheduleAlone PROVE IInv'
<1>. USE DEF ScheduleAlone, lists, clock, cpu
<1>1. x' \in [Pid -> Nat]
  BY DEF IInv, TypeOK, CountDown, Yields
<1>2. TypeOK'
  BY <1>1 DEF IInv, TypeOK
<1>3. ReadyListExact'
  BY ReadyListUnchanged DEF IInv
<1>4. CreationInv' /\ SwitchInv' /\ ResumeInv' /\ TerminatedInv'
  BY DEF IInv, CreationInv, SwitchInv, SwitchPending, ResumeInv, TerminatedInv, Live
<1>5. QED
  BY <1>2, <1>3, <1>4 DEF IInv

\* Entering the loop of task 0: the creation order is the ready list.
LEMMA StartLoopIInv == ASSUME IInv, StartLoop PROVE IInv'
<1>. USE DEF StartLoop, lists, clock, tasks
<1>1. TypeOK'
  BY DEF IInv, TypeOK, Control
<1>2. ReadyListExact'
  BY ReadyListUnchanged DEF IInv
<1>3. pc'[esp'] = "body" /\ esp' = esp /\ \A p \in Pid \ {esp} : pc'[p] = pc[p]
  BY DEF IInv, TypeOK
<1>4. SwitchInv'
  BY <1>3, TasksAssumption DEF IInv, SwitchInv, SwitchPending, CreationInv
<1>5. CreationInv' /\ ResumeInv' /\ TerminatedInv'
  BY <1>3 DEF IInv, CreationInv, ResumeInv, TerminatedInv, Live
<1>6. QED
  BY <1>1, <1>2, <1>4, <1>5 DEF IInv

\* The two halves of update_time only move the clock.
LEMMA ReadTimerIInv == ASSUME IInv, ReadTimer PROVE IInv'
<1>. USE DEF ReadTimer, lists, tasks
<1>1. TypeOK'
  BY DEF IInv, TypeOK, Control
<1>2. ReadyListExact'
  BY ReadyListUnchanged DEF IInv
<1>3. pc'[esp'] = "account" /\ esp' = esp /\ \A p \in Pid \ {esp} : pc'[p] = pc[p]
  BY DEF IInv, TypeOK
<1>4. SwitchInv'
  BY <1>3 DEF IInv, SwitchInv, SwitchPending
<1>5. CreationInv' /\ ResumeInv' /\ TerminatedInv'
  BY <1>3 DEF IInv, CreationInv, ResumeInv, TerminatedInv, Live
<1>6. QED
  BY <1>1, <1>2, <1>4, <1>5 DEF IInv

LEMMA UpdateTimeIInv == ASSUME IInv, UpdateTime PROVE IInv'
<1>. USE DEF UpdateTime, lists, tasks
<1>1. TypeOK'
  <2>1. elapsed_time(last_time, current_time) \in Word
    BY ElapsedInWord DEF IInv, TypeOK
  <2>2. current_task \in Pid
    BY DEF IInv, TypeOK, SwitchInv, SwitchPending
  <2>3. (time_used[current_task] + elapsed_time(last_time, current_time)) % WordMod \in Word
    BY <2>1, <2>2, ModInWord DEF IInv, TypeOK, Word
  <2>4. 0 \in Word
    BY WordAssumption DEF Word
  <2>5. QED
    BY <2>2, <2>3, <2>4 DEF IInv, TypeOK, Control
<1>2. ReadyListExact'
  BY ReadyListUnchanged DEF IInv
<1>3. pc'[esp'] = "switch" /\ esp' = esp /\ \A p \in Pid \ {esp} : pc'[p] = pc[p]
  BY DEF IInv, TypeOK
<1>4. SwitchInv'
  BY <1>3 DEF IInv, SwitchInv, SwitchPending
<1>5. CreationInv' /\ ResumeInv' /\ TerminatedInv'
  BY <1>3 DEF IInv, CreationInv, ResumeInv, TerminatedInv, Live
<1>6. QED
  BY <1>1, <1>2, <1>4, <1>5 DEF IInv

\* From here on current_task is the task being entered.
LEMMA SwitchToTaskIInv == ASSUME IInv, SwitchToTask PROVE IInv'
<1>. USE DEF SwitchToTask, lists, clock
<1>1. TypeOK'
  BY DEF IInv, TypeOK, Control
<1>2. ReadyListExact'
  BY ReadyListUnchanged DEF IInv
<1>3. pc'[esp'] = "stub" /\ esp' = esp /\ \A p \in Pid \ {esp} : pc'[p] = pc[p]
  BY DEF IInv, TypeOK
<1>4. SwitchInv'
  BY <1>3 DEF IInv, SwitchInv, SwitchPending
<1>5. CreationInv' /\ ResumeInv' /\ TerminatedInv'
  BY <1>3 DEF IInv, CreationInv, ResumeInv, TerminatedInv, Live
<1>6. QED
  BY <1>1, <1>2, <1>4, <1>5 DEF IInv

-----------------------------------------------------------------------------
(***************************************************************************)
(* The context switch.                                                     *)
(***************************************************************************)

\* Once tasks exist, the head of the ready list is a live task.
LEMMA HeadIsLive ==
  ASSUME IInv, next_available_pid > 0
  PROVE  ready_to_run.head \in Pid /\ Live(ready_to_run.head)
<1>1. PICK n \in 1 .. NTasks : \E q \in [1 .. n -> Pid] : IsReadyList(n, q)
  BY DEF IInv, ReadyListExact
<1>2. PICK q \in [1 .. n -> Pid] : IsReadyList(n, q)
  BY <1>1
<1>3. 1 \in 1 .. n
  BY TasksAssumption
<1>4. QED
  BY <1>2, <1>3 DEF IsReadyList

\* The stub resumes the head of the ready list on its own stack, in its body.
LEMMA SwitchStubIInv == ASSUME IInv, SwitchStub PROVE IInv'
<1>. USE DEF SwitchStub, lists, clock, tasks
<1>1. /\ previous_task = esp /\ esp \in Pid
      /\ other # esp /\ other = ready_to_run.head /\ other = current_task
  BY DEF IInv, SwitchInv, TypeOK
<1>2. next_available_pid > 0 /\ next_available_pid = NTasks
  BY TasksAssumption DEF IInv, SwitchInv
<1>3. other \in Pid /\ Live(other)
  BY <1>1, <1>2, HeadIsLive
<1>4. /\ kernel_stack_top' = [kernel_stack_top EXCEPT ![esp] = esp]
      /\ esp' = other
      /\ pc' = [pc EXCEPT ![other] = "body"]
  <2>1. /\ kernel_stack_top[other] = other
        /\ pc[other] = "body" \/ (pc[other] = "stub" /\ frame[other] = "schedule")
    BY <1>1, <1>3 DEF IInv, ResumeInv
  <2>2. ResumeAt(other) = "body"
    BY <2>1 DEF ResumeAt
  <2>3. kernel_stack_top'[other] = other
    BY <1>1, <1>3, <2>1 DEF IInv, TypeOK
  <2>4. QED
    BY <1>1, <2>2, <2>3
<1>5. TypeOK'
  BY <1>1, <1>3, <1>4 DEF IInv, TypeOK, Control, PidOrNull
<1>6. ReadyListExact'
  BY ReadyListUnchanged DEF IInv
<1>7. pc'[esp'] = "body"
  BY <1>3, <1>4 DEF IInv, TypeOK
<1>8. SwitchInv'
  BY <1>1, <1>2, <1>4, <1>7 DEF SwitchInv, SwitchPending
<1>9. ResumeInv'
  <2>. SUFFICES ASSUME NEW p \in Pid, p # other, Live(p)
                PROVE  /\ kernel_stack_top'[p] = p
                       /\ pc'[p] = "body" \/ (pc'[p] = "stub" /\ frame'[p] = "schedule")
    BY <1>4 DEF ResumeInv, Live
  <2>1. CASE p = esp
    <3>1. pc[esp] = "stub" /\ frame[esp] = "schedule"
      BY <2>1 DEF IInv, SwitchInv, Live
    <3>2. QED
      BY <2>1, <3>1, <1>4 DEF IInv, TypeOK
  <2>2. CASE p # esp
    BY <2>2, <1>4 DEF IInv, TypeOK, ResumeInv
  <2>3. QED
    BY <2>1, <2>2
<1>10. CreationInv' /\ TerminatedInv'
  BY <1>7 DEF IInv, CreationInv, TerminatedInv
<1>11. QED
  BY <1>5, <1>6, <1>8, <1>9, <1>10 DEF IInv

-----------------------------------------------------------------------------
(***************************************************************************)
(* Creation.                                                               *)
(***************************************************************************)

\* The sequence 0, 1, ..., n - 1, and what a yield and an exit make of q[1], ..., q[n].
Counted(n)    == [i \in 1 .. n |-> i - 1]
Rotated(n, q) == [i \in 1 .. n |-> IF i < n THEN q[i + 1] ELSE q[1]]
Rest(n, q)    == [i \in 1 .. n - 1 |-> q[i + 1]]

\* What a step does to the ready list.
Appends ==
    \E n \in 1 .. NTasks :
        /\ n = next_available_pid'
        /\ Counted(n) \in [1 .. n -> Pid] /\ IsReadyList(n, Counted(n))'

Rotates ==
    \E n \in 1 .. NTasks : \E q \in [1 .. n -> Pid] :
        /\ n > 1 /\ IsReadyList(n, q)
        /\ Rotated(n, q) \in [1 .. n -> Pid] /\ IsReadyList(n, Rotated(n, q))'

Drops ==
    \E n \in 1 .. NTasks : \E q \in [1 .. n -> Pid] :
        /\ n > 1 /\ q[1] # 0 /\ IsReadyList(n, q)
        /\ Rest(n, q) \in [1 .. n - 1 -> Pid] /\ IsReadyList(n - 1, Rest(n, q))'

\* A new task goes to the end of the creation order.
LEMMA CreateTaskIInv == ASSUME IInv, CreateTask PROVE IInv' /\ Appends
<1>. DEFINE p == next_available_pid
<1>1. /\ pc[esp] = "init" /\ esp = 0 /\ p \in Pid /\ p + 1 \in 1 .. NTasks
      /\ next_task[p] = NULL
      /\ terminated.head = NULL /\ \A r \in Pid : state[r] # "TERMINATED"
  BY TasksAssumption DEF CreateTask, IInv, TypeOK, CreationInv, Pid
<1>2. /\ next_available_pid' = p + 1
      /\ state' = [state EXCEPT ![p] = "READY_TO_RUN"]
      /\ kernel_stack_top' = [kernel_stack_top EXCEPT ![p] = IF p = 0 THEN NULL ELSE p]
      /\ current_task' = IF p = 0 THEN p ELSE current_task
      /\ pc' = [pc EXCEPT ![p] = IF p = 0 THEN "init" ELSE "body"]
      /\ UNCHANGED <<terminated, previous_task, esp, frame, other, x>>
      /\ UNCHANGED <<ticks, last_time, time_used, current_time>>
  BY DEF CreateTask, clock
<1>3. /\ ready_to_run' = [head |-> 0, tail |-> p]
      /\ next_task' = [r \in Pid |-> IF r < p THEN r + 1 ELSE NULL]
  <2>1. CASE p = 0
    <3>1. ready_to_run' = [head |-> 0, tail |-> 0] /\ next_task' = next_task
      BY <1>1, <2>1 DEF CreateTask, enqueue_task, IInv, CreationInv
    <3>2. next_task = [r \in Pid |-> IF r < p THEN r + 1 ELSE NULL]
      BY <1>1, <2>1 DEF IInv, TypeOK, CreationInv, Pid
    <3>3. QED
      BY <2>1, <3>1, <3>2
  <2>2. CASE p # 0
    <3>1. p > 0 /\ p - 1 \in Pid /\ 0 # NULL
      BY <1>1, <2>2, TasksAssumption DEF Pid
    <3>2. /\ ready_to_run.head = 0 /\ ready_to_run.tail = p - 1
          /\ \A r \in Pid : r < p - 1 => next_task[r] = r + 1
          /\ \A r \in Pid : r >= p => next_task[r] = NULL
      BY <1>1, <3>1 DEF IInv, CreationInv
    <3>3. ready_to_run' = [ready_to_run EXCEPT !.tail = p]
      BY <3>1, <3>2 DEF CreateTask, enqueue_task
    <3>4. next_task' = [next_task EXCEPT ![p - 1] = p, ![p] = NULL]
      BY <3>1, <3>2 DEF CreateTask, enqueue_task
    <3>5. next_task' = [r \in Pid |-> IF r < p THEN r + 1 ELSE NULL]
      <4>1. /\ next_task' = [r \in Pid |-> next_task'[r]]
            /\ \A r \in Pid : next_task'[r] = IF r = p THEN NULL
                                             ELSE IF r = p - 1 THEN p ELSE next_task[r]
        BY <1>1, <3>1, <3>4 DEF IInv, TypeOK
      <4>2. \A r \in Pid : next_task'[r] = IF r < p THEN r + 1 ELSE NULL
        BY <1>1, <3>1, <3>2, <4>1 DEF Pid
      <4>3. QED
        BY <4>1, <4>2
    <3>6. ready_to_run' = [head |-> 0, tail |-> p]
      BY <3>2, <3>3 DEF IInv, TypeOK, List
    <3>7. QED
      BY <3>5, <3>6
  <2>3. QED
    BY <2>1, <2>2
<1>4. pc'[esp'] = "init"
  BY <1>1, <1>2 DEF IInv, TypeOK
<1>5. TypeOK'
  <2>1. ready_to_run' \in List
    BY <1>1, <1>3, TasksAssumption DEF List, PidOrNull, Pid
  <2>2. next_task' \in [Pid -> PidOrNull]
    BY <1>1, <1>3, TasksAssumption DEF PidOrNull, Pid
  <2>3. state' \in [Pid -> ProcessState] /\ pc' \in [Pid -> Control]
    BY <1>1, <1>2 DEF IInv, TypeOK, Control, ProcessState
  <2>4. kernel_stack_top' \in [Pid -> PidOrNull] /\ current_task' \in PidOrNull
    BY <1>1, <1>2 DEF IInv, TypeOK, PidOrNull
  <2>5. next_available_pid' \in 0 .. NTasks
    BY <1>1, <1>2
  <2>6. QED
    BY <1>2, <2>1, <2>2, <2>3, <2>4, <2>5 DEF IInv, TypeOK
<1>6. current_task' = 0
  BY <1>1, <1>2 DEF IInv, CreationInv, TypeOK
<1>7. \A r \in Pid : state'[r] # "TERMINATED"
  BY <1>1, <1>2 DEF IInv, TypeOK
<1>8. CreationInv'
  BY <1>1, <1>2, <1>3, <1>6, <1>7 DEF CreationInv, Pid
<1>9. Appends
  <2>0. PICK n \in 1 .. NTasks : n = p + 1
    BY <1>1
  <2>. DEFINE q == Counted(n)
  <2>1. q \in [1 .. n -> Pid]
    BY TasksAssumption DEF Pid, Counted
  <2>2. /\ ready_to_run'.head = q[1] /\ ready_to_run'.tail = q[n]
        /\ \A i \in 1 .. n - 1 : next_task'[q[i]] = q[i + 1]
        /\ next_task'[q[n]] = NULL
    BY <1>1, <1>3, <2>0, TasksAssumption DEF Pid, Counted
  <2>3. \A r \in Pid : Live(r)' <=> \E i \in 1 .. n : q[i] = r
    <3>1. \A r \in Pid : r < n <=> r + 1 \in 1 .. n
      BY TasksAssumption DEF Pid
    <3>2. \A r \in Pid : r < n => q[r + 1] = r
      BY <3>1 DEF Pid, Counted
    <3>3. QED
      BY <1>2, <1>7, <2>0, <3>1, <3>2 DEF Live, Pid, Counted
  <2>4. \A i, j \in 1 .. n : q[i] = q[j] => i = j
    BY DEF Counted
  <2>5. IsReadyList(n, q)'
    BY <2>2, <2>3, <2>4 DEF IsReadyList
  <2>6. QED
    BY <1>2, <2>0, <2>1, <2>5 DEF Appends
<1>10. SwitchInv'
  BY <1>2, <1>4 DEF SwitchInv, SwitchPending
<1>11. ResumeInv'
  <2>. SUFFICES ASSUME NEW r \in Pid, r # 0, r < p + 1
                PROVE  /\ kernel_stack_top'[r] = r
                       /\ pc'[r] = "body" \/ (pc'[r] = "stub" /\ frame'[r] = "schedule")
    BY <1>1, <1>2 DEF ResumeInv, Live
  <2>1. CASE r = p
    BY <1>1, <1>2, <2>1 DEF IInv, TypeOK
  <2>2. CASE r # p
    <3>1. r < p
      BY <2>2, <1>1 DEF Pid
    <3>2. kernel_stack_top[r] = r /\ (pc[r] = "body" \/ (pc[r] = "stub" /\ frame[r] = "schedule"))
      BY <1>1, <3>1 DEF IInv, ResumeInv, Live
    <3>3. QED
      BY <3>2, <1>1, <1>2, <2>2 DEF IInv, TypeOK
  <2>3. QED
    BY <2>1, <2>2
<1>12. TerminatedInv'
  BY <1>1, <1>2, <1>7 DEF IInv, TypeOK, TerminatedInv
<1>13. ReadyListExact'
  <2>1. PICK n \in 1 .. NTasks : Counted(n) \in [1 .. n -> Pid] /\ IsReadyList(n, Counted(n))'
    BY <1>9 DEF Appends
  <2>2. QED
    BY <2>1 DEF ReadyListExact
<1>14. QED
  BY <1>5, <1>8, <1>9, <1>10, <1>11, <1>12, <1>13 DEF IInv

-----------------------------------------------------------------------------
(***************************************************************************)
(* schedule() rotates the ready list, terminate_task() drops its head.     *)
(***************************************************************************)

\* schedule() keeps the ready list exact: q becomes q[2], ..., q[n], q[1].
LEMMA ScheduleIInv == ASSUME IInv, Schedule PROVE IInv' /\ Rotates
<1>1. /\ pc[esp] = "body" /\ esp \in Pid /\ current_task = esp /\ ready_to_run.head = esp
      /\ next_available_pid = NTasks /\ next_task[esp] # NULL
  BY DEF Schedule, IInv, TypeOK, SwitchInv
<1>2. PICK n \in 1 .. NTasks : \E q \in [1 .. n -> Pid] : IsReadyList(n, q)
  BY <1>1, TasksAssumption DEF IInv, ReadyListExact
<1>3. PICK q \in [1 .. n -> Pid] : IsReadyList(n, q)
  BY <1>2
<1>4. q[1] = esp /\ n > 1 /\ 1 \in 1 .. n /\ 2 \in 1 .. n /\ n \in 1 .. n
  BY <1>1, <1>3, TasksAssumption DEF IsReadyList
<1>5. next_task[esp] = q[2] /\ q[2] \in Pid /\ q[2] # esp /\ q[n] \in Pid /\ q[n] # esp
  BY <1>3, <1>4 DEF IsReadyList
<1>6. Live(esp) /\ \A i \in 1 .. n : Live(q[i])
  BY <1>1, <1>3, <1>4 DEF IsReadyList
<1>7. /\ ready_to_run' = [ready_to_run EXCEPT !.head = q[2], !.tail = esp]
      /\ next_task' = [next_task EXCEPT ![q[n]] = esp, ![esp] = NULL]
  <2>1. q[2] # NULL
    BY <1>5, TasksAssumption
  <2>2. [ready_to_run EXCEPT !.head = q[2]].tail = q[n]
    BY <1>3 DEF IsReadyList, IInv, TypeOK, List
  <2>3. [ready_to_run EXCEPT !.head = q[2]].head = q[2]
    BY DEF IInv, TypeOK, List
  <2>4. QED
    BY <1>1, <1>5, <2>1, <2>2, <2>3 DEF Schedule, enqueue_task
<1>8. /\ other' = q[2]
      /\ state' = [state EXCEPT ![esp] = "READY_TO_RUN"]
      /\ pc' = [pc EXCEPT ![esp] = "read"]
      /\ frame' = [frame EXCEPT ![esp] = "schedule"]
      /\ UNCHANGED <<terminated, current_task, previous_task, next_available_pid,
                     esp, kernel_stack_top, ticks, last_time, time_used, current_time>>
  BY <1>1, <1>5 DEF Schedule, clock
<1>9. TypeOK'
  <2>1. x' \in [Pid -> Nat]
    BY DEF Schedule, IInv, TypeOK, CountDown, Yields
  <2>2. ready_to_run' \in List /\ next_task' \in [Pid -> PidOrNull] /\ other' \in PidOrNull
    BY <1>1, <1>5, <1>7, <1>8 DEF IInv, TypeOK, List, PidOrNull
  <2>3. /\ state' \in [Pid -> ProcessState] /\ pc' \in [Pid -> Control]
        /\ frame' \in [Pid -> {"none", "schedule", "terminate_task"}]
    BY <1>8 DEF IInv, TypeOK, ProcessState, Control
  <2>4. QED
    BY <1>8, <2>1, <2>2, <2>3 DEF IInv, TypeOK
<1>10. \A p \in Pid : Live(p)' <=> Live(p)
  BY <1>1, <1>6, <1>8 DEF IInv, TypeOK, Live
<1>11. Rotated(n, q) \in [1 .. n -> Pid] /\ IsReadyList(n, Rotated(n, q))'
  <2>. DEFINE r == [i \in 1 .. n |-> IF i < n THEN q[i + 1] ELSE q[1]]
  <2>1. r \in [1 .. n -> Pid]
    BY <1>1
  <2>2. ready_to_run'.head = r[1] /\ ready_to_run'.tail = r[n]
    BY <1>4, <1>7 DEF IInv, TypeOK, List
  <2>3. \A i \in 1 .. n - 1 : next_task'[r[i]] = r[i + 1]
    <3>. SUFFICES ASSUME NEW i \in 1 .. n - 1 PROVE next_task'[r[i]] = r[i + 1]
      OBVIOUS
    <3>1. r[i] = q[i + 1] /\ i + 1 \in 1 .. n /\ q[i + 1] \in Pid
      OBVIOUS
    <3>2. q[i + 1] # esp
      BY <1>3, <1>4, <3>1 DEF IsReadyList
    <3>3. CASE i + 1 = n
      <4>1. r[i + 1] = esp
        BY <3>3, <1>4
      <4>2. next_task'[q[n]] = esp
        BY <1>1, <1>5, <1>7 DEF IInv, TypeOK
      <4>3. QED
        BY <3>1, <3>3, <4>1, <4>2
    <3>4. CASE i + 1 < n
      <4>1. q[i + 1] # q[n] /\ next_task[q[i + 1]] = q[i + 2]
        BY <1>3, <1>4, <3>4 DEF IsReadyList
      <4>2. next_task'[q[i + 1]] = q[i + 2]
        BY <4>1, <3>1, <3>2, <1>7 DEF IInv, TypeOK
      <4>3. r[i + 1] = q[i + 2]
        BY <3>4
      <4>4. QED
        BY <3>1, <4>2, <4>3
    <3>5. QED
      BY <3>1, <3>3, <3>4
  <2>4. next_task'[r[n]] = NULL
    BY <1>1, <1>4, <1>7 DEF IInv, TypeOK
  <2>5. \A i, j \in 1 .. n : r[i] = r[j] => i = j
    <3>1. \A i \in 1 .. n : i < n => i + 1 \in 1 .. n /\ q[i + 1] # q[1]
      BY <1>3, <1>4 DEF IsReadyList
    <3>2. \A i, j \in 1 .. n : q[i] = q[j] => i = j
      BY <1>3 DEF IsReadyList
    <3>3. QED
      BY <1>4, <3>1, <3>2
  <2>6. \A p \in Pid : Live(p) <=> \E i \in 1 .. n : r[i] = p
    <3>. SUFFICES ASSUME NEW p \in Pid
                  PROVE  (\E i \in 1 .. n : q[i] = p) <=> (\E i \in 1 .. n : r[i] = p)
      BY <1>3 DEF IsReadyList
    <3>1. ASSUME NEW i \in 1 .. n, q[i] = p PROVE \E j \in 1 .. n : r[j] = p
      <4>1. CASE i = 1
        BY <3>1, <4>1, <1>4
      <4>2. CASE i # 1
        <5>1. i - 1 \in 1 .. n /\ i - 1 < n /\ r[i - 1] = q[i]
          BY <4>2
        <5>2. QED
          BY <3>1, <5>1
      <4>3. QED
        BY <4>1, <4>2
    <3>2. ASSUME NEW i \in 1 .. n, r[i] = p PROVE \E j \in 1 .. n : q[j] = p
      BY <3>2, <1>4
    <3>3. QED
      BY <3>1, <3>2
  <2>7. IsReadyList(n, r)'
    BY <1>10, <2>2, <2>3, <2>4, <2>5, <2>6 DEF IsReadyList
  <2>8. QED
    BY <2>1, <2>7 DEF Rotated
<1>12. pc'[esp'] = "read" /\ \A p \in Pid \ {esp} : pc'[p] = pc[p] /\ frame'[p] = frame[p]
  BY <1>8 DEF IInv, TypeOK
<1>13. SwitchInv'
  <2>1. ready_to_run'.head = q[2] /\ state'[esp] # "TERMINATED" /\ frame'[esp] = "schedule"
    BY <1>1, <1>7, <1>8 DEF IInv, TypeOK, List
  <2>2. QED
    BY <1>1, <1>5, <1>8, <1>12, <2>1 DEF SwitchInv, SwitchPending
<1>14. CreationInv' /\ ResumeInv'
  BY <1>8, <1>10, <1>12 DEF IInv, CreationInv, ResumeInv
<1>15. TerminatedInv'
  <2>1. state[0] # "TERMINATED" /\ 0 \in Pid
    BY TasksAssumption DEF IInv, TerminatedInv, Pid
  <2>2. \A p \in Pid : p # esp => state'[p] = state[p]
    BY <1>8 DEF IInv, TypeOK
  <2>3. state'[esp] = "READY_TO_RUN" /\ state[esp] # "TERMINATED"
    BY <1>1, <1>6, <1>8 DEF IInv, TypeOK, Live
  <2>4. QED
    BY <1>8, <2>1, <2>2, <2>3 DEF IInv, TerminatedInv
<1>16. ReadyListExact'
  BY <1>11 DEF ReadyListExact
<1>17. Rotates
  BY <1>3, <1>4, <1>11 DEF Rotates
<1>18. QED
  BY <1>9, <1>13, <1>14, <1>15, <1>16, <1>17 DEF IInv

\* terminate_task() keeps it exact: q becomes q[2], ..., q[n], which is not
\* empty because the kernel task is in it.
LEMMA TerminateIInv == ASSUME IInv, Terminate PROVE IInv' /\ Drops
<1>1. /\ pc[esp] = "body" /\ esp \in Pid /\ current_task = esp /\ ready_to_run.head = esp
      /\ next_available_pid = NTasks /\ ~Yields(esp)
  BY DEF Terminate, IInv, TypeOK, SwitchInv
<1>2. esp # 0 /\ 0 \in Pid /\ 0 # NULL /\ esp # NULL
  BY <1>1, BodyAssumption, TasksAssumption DEF Yields, Pid
<1>3. PICK n \in 1 .. NTasks : \E q \in [1 .. n -> Pid] : IsReadyList(n, q)
  BY <1>1, TasksAssumption DEF IInv, ReadyListExact
<1>4. PICK q \in [1 .. n -> Pid] : IsReadyList(n, q)
  BY <1>3
<1>5. q[1] = esp /\ 1 \in 1 .. n /\ n \in 1 .. n
  BY <1>1, <1>4, TasksAssumption DEF IsReadyList
<1>6. n > 1 /\ 2 \in 1 .. n
  <2>1. Live(0)
    BY <1>1, <1>2, TasksAssumption DEF Live, IInv, TerminatedInv
  <2>2. PICK i \in 1 .. n : q[i] = 0
    BY <1>2, <1>4, <2>1 DEF IsReadyList
  <2>3. i # 1
    BY <1>2, <1>5, <2>2
  <2>4. QED
    BY <2>3
<1>7. next_task[esp] = q[2] /\ q[2] \in Pid /\ q[2] # esp /\ q[n] \in Pid /\ q[n] # esp
  BY <1>4, <1>5, <1>6 DEF IsReadyList
<1>8. \A i \in 1 .. n : Live(q[i])
  BY <1>4 DEF IsReadyList
<1>9. /\ other' = q[2]
      /\ ready_to_run' = [ready_to_run EXCEPT !.head = q[2]]
      /\ state' = [state EXCEPT ![esp] = "TERMINATED"]
      /\ pc' = [pc EXCEPT ![esp] = "read"]
      /\ frame' = [frame EXCEPT ![esp] = "terminate_task"]
      /\ UNCHANGED <<current_task, previous_task, next_available_pid, x, esp,
                     kernel_stack_top, ticks, last_time, time_used, current_time>>
  BY <1>1, <1>2, <1>7 DEF Terminate, clock, tasks
<1>10. /\ terminated' \in List /\ terminated'.tail = esp
       /\ next_task' \in [Pid -> PidOrNull]
       /\ \A p \in Pid : Live(p) /\ p # esp => next_task'[p] = next_task[p]
  <2>. DEFINE e == enqueue_task(terminated, next_task, current_task)
  <2>1. terminated' = e.queue /\ next_task' = e.next
    BY <1>1, <1>2 DEF Terminate
  <2>2. CASE terminated.head = NULL
    BY <1>1, <2>1, <2>2 DEF enqueue_task, IInv, TypeOK, List, PidOrNull
  <2>3. CASE terminated.head # NULL
    <3>1. terminated.tail \in Pid /\ ~Live(terminated.tail)
      BY <2>3 DEF IInv, TerminatedInv, Live
    <3>2. /\ terminated' = [terminated EXCEPT !.tail = esp]
          /\ next_task' = [next_task EXCEPT ![terminated.tail] = esp, ![esp] = NULL]
      BY <1>1, <2>1, <2>3 DEF enqueue_task
    <3>3. terminated' \in List /\ terminated'.tail = esp
      BY <1>1, <3>2 DEF IInv, TypeOK, List, PidOrNull
    <3>4. next_task' \in [Pid -> PidOrNull]
      BY <1>1, <3>1, <3>2 DEF IInv, TypeOK, PidOrNull
    <3>5. ASSUME NEW p \in Pid, Live(p), p # esp PROVE next_task'[p] = next_task[p]
      <4>1. p # terminated.tail
        BY <3>1, <3>5
      <4>2. QED
        BY <3>2, <3>5, <4>1 DEF IInv, TypeOK
    <3>6. QED
      BY <3>3, <3>4, <3>5
  <2>4. QED
    BY <2>2, <2>3
<1>11. TypeOK'
  <2>1. ready_to_run' \in List /\ other' \in PidOrNull
    BY <1>7, <1>9 DEF IInv, TypeOK, List, PidOrNull
  <2>2. /\ state' \in [Pid -> ProcessState] /\ pc' \in [Pid -> Control]
        /\ frame' \in [Pid -> {"none", "schedule", "terminate_task"}]
    BY <1>9 DEF IInv, TypeOK, ProcessState, Control
  <2>3. QED
    BY <1>9, <1>10, <2>1, <2>2 DEF IInv, TypeOK
<1>12. \A p \in Pid : Live(p)' <=> Live(p) /\ p # esp
  BY <1>1, <1>9 DEF IInv, TypeOK, Live
<1>13. /\ n - 1 \in 1 .. NTasks
       /\ Rest(n, q) \in [1 .. n - 1 -> Pid] /\ IsReadyList(n - 1, Rest(n, q))'
  <2>. DEFINE m == n - 1
              r == [i \in 1 .. m |-> q[i + 1]]
  <2>1. m \in 1 .. NTasks /\ r \in [1 .. m -> Pid] /\ m \in 1 .. m /\ 1 \in 1 .. m
    BY <1>6, TasksAssumption
  <2>2. \A i \in 1 .. n : i # 1 => q[i] # esp
    BY <1>4, <1>5 DEF IsReadyList
  <2>3. ready_to_run'.head = r[1] /\ ready_to_run'.tail = r[m]
    BY <1>4, <1>6, <1>9, <2>1 DEF IsReadyList, IInv, TypeOK, List
  <2>4. \A i \in 1 .. n : i # 1 => next_task'[q[i]] = next_task[q[i]]
    BY <1>8, <1>10, <2>2
  <2>5. \A i \in 1 .. m - 1 : next_task'[r[i]] = r[i + 1]
    <3>. SUFFICES ASSUME NEW i \in 1 .. m - 1 PROVE next_task'[r[i]] = r[i + 1]
      OBVIOUS
    <3>1. /\ i \in 1 .. m /\ i + 1 \in 1 .. m /\ i + 1 \in 1 .. n - 1
          /\ i + 1 \in 1 .. n /\ i + 1 # 1 /\ (i + 1) + 1 = i + 2
      BY <1>6
    <3>2. r[i] = q[i + 1] /\ r[i + 1] = q[i + 2]
      BY <3>1
    <3>3. next_task[q[i + 1]] = q[i + 2]
      BY <1>4, <3>1 DEF IsReadyList
    <3>4. next_task'[q[i + 1]] = next_task[q[i + 1]]
      BY <2>4, <3>1
    <3>5. QED
      BY <3>2, <3>3, <3>4
  <2>6. next_task'[r[m]] = NULL
    <3>1. r[m] = q[n] /\ n # 1
      BY <1>6, <2>1
    <3>2. QED
      BY <1>4, <1>5, <2>4, <3>1 DEF IsReadyList
  <2>7. \A i, j \in 1 .. m : r[i] = r[j] => i = j
    <3>. SUFFICES ASSUME NEW i \in 1 .. m, NEW j \in 1 .. m, r[i] = r[j] PROVE i = j
      OBVIOUS
    <3>1. i + 1 \in 1 .. n /\ j + 1 \in 1 .. n /\ q[i + 1] = q[j + 1]
      OBVIOUS
    <3>2. i + 1 = j + 1
      BY <1>4, <3>1 DEF IsReadyList
    <3>3. QED
      BY <3>2
  <2>8. ASSUME NEW p \in Pid PROVE Live(p)' <=> \E i \in 1 .. m : r[i] = p
    <3>1. ASSUME Live(p), p # esp PROVE \E i \in 1 .. m : r[i] = p
      <4>1. PICK i \in 1 .. n : q[i] = p
        BY <1>4, <3>1 DEF IsReadyList
      <4>2. i # 1
        BY <1>5, <3>1, <4>1
      <4>3. i - 1 \in 1 .. m /\ r[i - 1] = q[i]
        BY <4>2
      <4>4. QED
        BY <4>1, <4>3
    <3>2. ASSUME NEW i \in 1 .. m, r[i] = p PROVE Live(p) /\ p # esp
      <4>1. i + 1 \in 1 .. n /\ i + 1 # 1 /\ q[i + 1] = p
        BY <3>2
      <4>2. QED
        BY <1>8, <2>2, <4>1
    <3>3. QED
      BY <1>12, <3>1, <3>2
  <2>9. IsReadyList(m, r)'
    BY <2>3, <2>5, <2>6, <2>7, <2>8 DEF IsReadyList
  <2>10. QED
    BY <2>1, <2>9 DEF Rest
<1>14. /\ pc'[esp'] = "read" /\ state'[esp] = "TERMINATED" /\ frame'[esp] = "terminate_task"
       /\ \A p \in Pid \ {esp} : pc'[p] = pc[p] /\ frame'[p] = frame[p]
       /\ \A p \in Pid \ {esp} : state'[p] = state[p]
  BY <1>1, <1>9 DEF IInv, TypeOK
<1>15. SwitchInv'
  <2>1. ready_to_run'.head = q[2]
    BY <1>9 DEF IInv, TypeOK, List
  <2>2. QED
    BY <1>1, <1>7, <1>9, <1>14, <2>1 DEF SwitchInv, SwitchPending
<1>16. CreationInv' /\ ResumeInv'
  BY <1>9, <1>12, <1>14 DEF IInv, CreationInv, ResumeInv
<1>17. TerminatedInv'
  BY <1>1, <1>2, <1>10, <1>14 DEF IInv, TerminatedInv
<1>18. ReadyListExact'
  BY <1>13 DEF ReadyListExact
<1>19. Drops
  BY <1>2, <1>4, <1>5, <1>6, <1>13 DEF Drops
<1>20. QED
  BY <1>11, <1>15, <1>16, <1>17, <1>18, <1>19 DEF IInv

-----------------------------------------------------------------------------

\* IInv is inductive: every step of the CPU or of the timer preserves it.
LEMMA NextIInv == ASSUME IInv, [Next]_vars PROVE IInv'
<1>1. CASE CreateTask     BY <1>1, CreateTaskIInv
<1>2. CASE StartLoop      BY <1>2, StartLoopIInv
<1>3. CASE ScheduleAlone  BY <1>3, ScheduleAloneIInv
<1>4. CASE Schedule       BY <1>4, ScheduleIInv
<1>5. CASE Terminate      BY <1>5, TerminateIInv
<1>6. CASE ReadTimer      BY <1>6, ReadTimerIInv
<1>7. CASE UpdateTime     BY <1>7, UpdateTimeIInv
<1>8. CASE SwitchToTask   BY <1>8, SwitchToTaskIInv
<1>9. CASE SwitchStub     BY <1>9, SwitchStubIInv
<1>10. CASE TimerCallback BY <1>10, TimerCallbackIInv
<1>11. CASE UNCHANGED vars
  <2>1. UNCHANGED <<next_task, state, ready_to_run, terminated, ticks, last_time,
                    time_used, current_time, esp, pc, frame, other, kernel_stack_top,
                    current_task, previous_task, next_available_pid, x>>
    BY <1>11 DEF vars, lists, clock, cpu, tasks
  <2>2. ReadyListExact'
    BY <2>1, ReadyListUnchanged DEF IInv
  <2>3. TypeOK' /\ CreationInv'
    BY <2>1 DEF IInv, TypeOK, CreationInv
  <2>4. SwitchInv' /\ ResumeInv' /\ TerminatedInv'
    BY <2>1 DEF IInv, SwitchInv, SwitchPending, ResumeInv, Live, TerminatedInv
  <2>5. QED
    BY <2>2, <2>3, <2>4 DEF IInv
<1>12. QED
  BY <1>1, <1>2, <1>3, <1>4, <1>5, <1>6, <1>7, <1>8, <1>9, <1>10, <1>11 DEF Next, Cpu

\* Every reachable state of the scheduler satisfies the inductive invariant.
THEOREM InductiveInvariant == Spec => []IInv
<1>1. Init => IInv
  BY InitIInv
<1>2. IInv /\ [Next]_vars => IInv'
  BY NextIInv
<1>3. QED
  BY <1>1, <1>2, PTL DEF Spec

-----------------------------------------------------------------------------
(***************************************************************************)
(* What follows from the inductive invariant.                              *)
(***************************************************************************)

\* The variables of tasking.c keep their types.
THEOREM TypeCorrect == Spec => []TypeOK
<1>1. IInv => TypeOK
  BY DEF IInv
<1>2. QED
  BY <1>1, InductiveInvariant, PTL

\* The ready list holds every live task exactly once and ends at its tail.
THEOREM ReadyListCorrect == Spec => []ReadyListExact
<1>1. IInv => ReadyListExact
  BY DEF IInv
<1>2. QED
  BY <1>1, InductiveInvariant, PTL

\* terminate_task always finds a successor to switch to.
THEOREM TerminateHasSuccessor == Spec => []SuccessorExists
<1>1. IInv => SuccessorExists
  <2>. SUFFICES ASSUME IInv, pc[esp] = "body", current_task # 0
                PROVE  next_task[current_task] # NULL
    BY DEF SuccessorExists
  <2>1. /\ esp \in Pid /\ current_task = esp /\ ready_to_run.head = esp
        /\ next_available_pid = NTasks /\ 0 \in Pid
    BY TasksAssumption DEF IInv, TypeOK, SwitchInv, Pid
  <2>2. PICK n \in 1 .. NTasks : \E q \in [1 .. n -> Pid] : IsReadyList(n, q)
    BY <2>1, TasksAssumption DEF IInv, ReadyListExact
  <2>3. PICK q \in [1 .. n -> Pid] : IsReadyList(n, q)
    BY <2>2
  <2>4. Live(0)
    BY <2>1, TasksAssumption DEF Live, IInv, TerminatedInv
  <2>5. PICK i \in 1 .. n : q[i] = 0
    BY <2>1, <2>3, <2>4 DEF IsReadyList
  <2>6. q[1] = esp /\ i # 1
    BY <2>1, <2>3, <2>5 DEF IsReadyList
  <2>7. 1 \in 1 .. n - 1 /\ 2 \in 1 .. n
    BY <2>6
  <2>8. next_task[esp] = q[2] /\ q[2] \in Pid
    BY <2>3, <2>6, <2>7 DEF IsReadyList
  <2>9. QED
    BY <2>1, <2>8, TasksAssumption
<1>2. QED
  BY <1>1, InductiveInvariant, PTL

\* Neither panic of terminate_task is reached.
THEOREM TerminateNeverPanics == Spec => []NoPanic
<1>1. IInv => NoPanic
  BY DEF IInv, SwitchInv, NoPanic
<1>2. QED
  BY <1>1, InductiveInvariant, PTL

\* The CPU runs on the current task's stack, and every other live task has its
\* own stack to come back to.
THEOREM StacksCorrect == Spec => []StacksMatchTasks
<1>1. IInv => StacksMatchTasks
  BY DEF IInv, SwitchInv, ResumeInv, StacksMatchTasks
<1>2. QED
  BY <1>1, InductiveInvariant, PTL

\* A terminated task is never revived and, once left, never executes again.
THEOREM TerminatedStaysTerminated == Spec => TerminatedForever
<1>1. IInv /\ [Next]_vars => [KeepsTerminated]_vars
  <2>. SUFFICES ASSUME IInv, Next, NEW p \in Pid, state[p] = "TERMINATED"
                PROVE  state'[p] = "TERMINATED" /\ (esp # p => esp' # p)
    BY DEF KeepsTerminated
  <2>1. CASE CreateTask
    BY <2>1 DEF CreateTask, IInv, CreationInv
  <2>2. CASE Schedule
    <3>1. pc[esp] = "body" /\ current_task = esp /\ ready_to_run.head = esp /\ NTasks > 0
      BY <2>2, TasksAssumption DEF Schedule, IInv, SwitchInv
    <3>2. esp # p
      BY <3>1, HeadIsLive DEF IInv, SwitchInv, Live
    <3>3. QED
      BY <2>2, <3>1, <3>2 DEF Schedule, IInv, TypeOK
  <2>3. CASE Terminate
    BY <2>3 DEF Terminate, lists, IInv, TypeOK
  <2>4. CASE SwitchStub
    <3>1. /\ previous_task = esp /\ current_task = other /\ other = ready_to_run.head
          /\ other # esp /\ next_available_pid > 0
      BY <2>4, TasksAssumption DEF SwitchStub, IInv, SwitchInv
    <3>2. other \in Pid /\ Live(other) /\ other # p
      BY <3>1, HeadIsLive DEF Live
    <3>3. kernel_stack_top[other] = other
      BY <3>1, <3>2 DEF IInv, ResumeInv
    <3>4. esp' = other /\ state' = state
      BY <2>4, <3>1, <3>2, <3>3 DEF SwitchStub, lists, IInv, TypeOK
    <3>5. QED
      BY <3>2, <3>4
  <2>5. CASE StartLoop \/ ScheduleAlone \/ ReadTimer \/ UpdateTime \/ SwitchToTask
    BY <2>5 DEF StartLoop, ScheduleAlone, ReadTimer, UpdateTime, SwitchToTask, lists, cpu
  <2>6. CASE TimerCallback
    BY <2>6 DEF TimerCallback, lists, cpu
  <2>7. QED
    BY <2>1, <2>2, <2>3, <2>4, <2>5, <2>6 DEF Next, Cpu
<1>2. QED
  BY <1>1, InductiveInvariant, PTL DEF Spec, TerminatedForever

-----------------------------------------------------------------------------
(***************************************************************************)
(* The refinement of RoundRobin.  Its queue is what the walk along the     *)
(* links finds, a recursive function; what this function is follows from   *)
(* the least index at which it would differ.                               *)
(***************************************************************************)

\* Every nonempty set of natural numbers has a least element.
LEMMA LeastElement ==
  ASSUME NEW T \in SUBSET Nat, T # {}
  PROVE  \E m \in T : \A k \in T : m <= k
<1>. DEFINE R == {ss \in Nat \X Nat : ss[1] < ss[2]}
<1>1. IsWellFoundedOn(R, Nat)
  BY NatLessThanWellFounded DEF OpToRel
<1>2. PICK m \in T : \A k \in T : ~ (<<k, m>> \in R)
  <2>. HIDE DEF R
  <2>1. QED
    BY <1>1, WFMin
<1>3. ASSUME NEW k \in T PROVE m <= k
  <2>1. m \in Nat /\ k \in Nat /\ ~ (<<k, m>> \in R)
    BY <1>2
  <2>2. ~ (k < m)
    BY <2>1
  <2>3. QED
    BY <2>1, <2>2
<1>4. QED
  BY <1>3

\* q[1], ..., q[n] are the tasks that follow one another from head along next.
Linked(head, next, n, q) ==
    /\ n \in 0 .. NTasks
    /\ q \in [1 .. n -> Pid]
    /\ n = 0 => head = NULL
    /\ n > 0 => head = q[1] /\ next[q[n]] = NULL
    /\ \A i \in 1 .. n - 1 : next[q[i]] = q[i + 1]

\* w is a walk from head along next.
IsWalk(w, head, next) ==
    w = [i \in 1 .. NTasks |->
            IF i = 1 THEN head ELSE IF w[i - 1] = NULL THEN NULL ELSE next[w[i - 1]]]

\* Two walks from the same head along the same links are the same.
LEMMA WalkUnique ==
  ASSUME NEW head, NEW next, NEW v, NEW w, IsWalk(v, head, next), IsWalk(w, head, next)
  PROVE  v = w
<1>. DEFINE T == {i \in 1 .. NTasks : v[i] # w[i]}
<1>1. /\ \A i \in 1 .. NTasks : v[i] = IF i = 1 THEN head
                                       ELSE IF v[i - 1] = NULL THEN NULL ELSE next[v[i - 1]]
      /\ \A i \in 1 .. NTasks : w[i] = IF i = 1 THEN head
                                       ELSE IF w[i - 1] = NULL THEN NULL ELSE next[w[i - 1]]
      /\ v = [i \in 1 .. NTasks |-> v[i]] /\ w = [i \in 1 .. NTasks |-> w[i]]
  BY DEF IsWalk
<1>2. T = {}
  <2>. SUFFICES ASSUME T # {} PROVE FALSE
    OBVIOUS
  <2>1. T \in SUBSET Nat
    OBVIOUS
  <2>2. PICK m \in T : \A k \in T : m <= k
    <3>. HIDE DEF T
    <3>1. QED
      BY <2>1, LeastElement
  <2>3. m \in 1 .. NTasks /\ v[m] # w[m]
    OBVIOUS
  <2>4. m # 1
    BY <1>1, <2>3
  <2>5. m - 1 \in 1 .. NTasks /\ ~ (m <= m - 1)
    BY <2>3, <2>4, TasksAssumption
  <2>6. v[m - 1] = w[m - 1]
    BY <2>2, <2>5
  <2>7. /\ v[m] = IF v[m - 1] = NULL THEN NULL ELSE next[v[m - 1]]
        /\ w[m] = IF w[m - 1] = NULL THEN NULL ELSE next[w[m - 1]]
    <3>. HIDE DEF T
    <3>1. QED
      BY <1>1, <2>3, <2>4
  <2>8. QED
    BY <2>3, <2>6, <2>7, Zenon
<1>3. \A i \in 1 .. NTasks : v[i] = w[i]
  BY <1>2
<1>4. QED
  BY <1>1, <1>3

\* Followed finds the tasks that are linked.
LEMMA FollowedIsLinked ==
  ASSUME NEW head, NEW next, NEW n, NEW q, Linked(head, next, n, q)
  PROVE  Followed(head, next) = q
<1>. DEFINE g == [i \in 1 .. NTasks |-> IF i <= n THEN q[i] ELSE NULL]
            walk == CHOOSE w : IsWalk(w, head, next)
            k == CHOOSE k \in 0 .. NTasks : \A i \in 1 .. NTasks : walk[i] # NULL <=> i <= k
<1>1. n \in 0 .. NTasks /\ NTasks \in Nat /\ \A i \in 1 .. n : q[i] \in Pid /\ q[i] # NULL
  BY TasksAssumption DEF Linked
<1>2. IsWalk(g, head, next)
  <2>. SUFFICES ASSUME NEW i \in 1 .. NTasks
                PROVE  g[i] = IF i = 1 THEN head
                              ELSE IF g[i - 1] = NULL THEN NULL ELSE next[g[i - 1]]
    BY DEF IsWalk
  <2>1. CASE i = 1
    BY <1>1, <2>1 DEF Linked
  <2>2. CASE i # 1 /\ i - 1 > n
    BY <1>1, <2>2
  <2>3. CASE i # 1 /\ i - 1 = n
    <3>1. n \in 1 .. n /\ g[i - 1] = q[n] /\ g[i] = NULL
      BY <1>1, <2>3
    <3>2. QED
      BY <1>1, <2>3, <3>1 DEF Linked
  <2>4. CASE i # 1 /\ i - 1 < n
    <3>1. i - 1 \in 1 .. n - 1 /\ i - 1 \in 1 .. n /\ g[i - 1] = q[i - 1] /\ g[i] = q[(i - 1) + 1]
      BY <1>1, <2>4
    <3>2. next[q[i - 1]] = q[(i - 1) + 1]
      BY <3>1 DEF Linked
    <3>3. q[i - 1] # NULL
      BY <1>1, <3>1
    <3>4. QED
      BY <2>4, <3>1, <3>2, <3>3
  <2>5. QED
    BY <1>1, <2>1, <2>2, <2>3, <2>4
<1>3. Followed(head, next) = [i \in 1 .. k |-> walk[i]]
  BY DEF Followed, IsWalk
<1>. HIDE DEF g
<1>4. IsWalk(walk, head, next)
  BY <1>2
<1>. HIDE DEF walk
<1>5. walk = g
  BY <1>2, <1>4, WalkUnique
<1>6. /\ \A i \in 1 .. NTasks : walk[i] # NULL <=> i <= n
      /\ \A i \in 1 .. n : walk[i] = q[i]
  BY <1>1, <1>5 DEF g
<1>7. k \in 0 .. NTasks /\ \A i \in 1 .. NTasks : walk[i] # NULL <=> i <= k
  BY <1>1, <1>6
<1>. HIDE DEF k
<1>8. k = n
  <2>1. \A i \in 1 .. NTasks : i <= k <=> i <= n
    BY <1>6, <1>7
  <2>2. CASE k < n
    BY <1>1, <1>7, <2>1, <2>2
  <2>3. CASE n < k
    BY <1>1, <1>7, <2>1, <2>3
  <2>4. QED
    BY <1>1, <1>7, <2>2, <2>3
<1>9. q = [i \in 1 .. n |-> q[i]]
  BY DEF Linked
<1>10. QED
  BY <1>3, <1>6, <1>8, <1>9

\* An exact ready list is what the walk finds.
LEMMA ReadyListIs ==
  ASSUME NEW n \in 1 .. NTasks, NEW q \in [1 .. n -> Pid], IsReadyList(n, q)
  PROVE  ReadyList = q
<1>1. Linked(ready_to_run.head, next_task, n, q)
  BY TasksAssumption DEF IsReadyList, Linked
<1>2. QED
  BY <1>1, FollowedIsLinked DEF ReadyList

LEMMA NextReadyListIs ==
  ASSUME NEW n \in 1 .. NTasks, NEW q \in [1 .. n -> Pid], IsReadyList(n, q)'
  PROVE  ReadyList' = q
<1>1. Linked(ready_to_run'.head, next_task', n, q)
  BY TasksAssumption DEF IsReadyList, Linked
<1>2. QED
  BY <1>1, FollowedIsLinked DEF ReadyList

\* Before the first task is created, it finds nothing.
LEMMA EmptyReadyList ==
  ASSUME ready_to_run.head = NULL
  PROVE  ReadyList = << >>
<1>1. << >> \in [1 .. 0 -> Pid]
  OBVIOUS
<1>2. Linked(ready_to_run.head, next_task, 0, << >>)
  BY <1>1, TasksAssumption DEF Linked
<1>3. QED
  BY <1>2, FollowedIsLinked DEF ReadyList

\* A rotation moves the head to the back, Rest drops it.
LEMMA RotatedIs ==
  ASSUME NEW n \in Nat, n > 1, NEW q \in [1 .. n -> Pid]
  PROVE  /\ Len(q) = n /\ Head(q) = q[1]
         /\ Rotated(n, q) = Append(Tail(q), Head(q))
         /\ Rest(n, q) = Tail(q)
<1>1. q \in Seq(Pid) /\ Len(q) = n /\ q # << >>
  OBVIOUS
<1>2. Head(q) = q[1] /\ q[1] \in Pid
  BY <1>1
<1>3. /\ Tail(q) \in Seq(Pid) /\ Len(Tail(q)) = n - 1
      /\ \A i \in 1 .. n - 1 : Tail(q)[i] = q[i + 1]
  BY <1>1
<1>4. Rest(n, q) = Tail(q)
  <2>1. /\ Rest(n, q) \in Seq(Pid) /\ Len(Rest(n, q)) = n - 1
        /\ \A i \in 1 .. n - 1 : Rest(n, q)[i] = q[i + 1]
    BY DEF Rest
  <2>2. QED
    BY <1>3, <2>1, SeqEqual
<1>5. /\ Append(Tail(q), Head(q)) \in Seq(Pid)
      /\ Len(Append(Tail(q), Head(q))) = n
      /\ \A i \in 1 .. n - 1 : Append(Tail(q), Head(q))[i] = q[i + 1]
      /\ Append(Tail(q), Head(q))[n] = q[1]
  BY <1>2, <1>3
<1>6. /\ Rotated(n, q) \in Seq(Pid) /\ Len(Rotated(n, q)) = n
      /\ \A i \in 1 .. n - 1 : Rotated(n, q)[i] = q[i + 1]
      /\ Rotated(n, q)[n] = q[1]
  BY <1>2 DEF Rotated
<1>7. \A i \in 1 .. n : Rotated(n, q)[i] = Append(Tail(q), Head(q))[i]
  BY <1>5, <1>6
<1>8. Rotated(n, q) = Append(Tail(q), Head(q))
  BY <1>5, <1>6, <1>7, SeqEqual
<1>9. QED
  BY <1>1, <1>2, <1>4, <1>8

\* A step of the scheduler is a step of the queue or leaves it alone.
LEMMA StepImplementsRoundRobin ==
  IInv /\ [Next]_vars => [RR!Next]_<<ReadyList, next_available_pid>>
<1>. SUFFICES ASSUME IInv, [Next]_vars PROVE [RR!Next]_<<ReadyList, next_available_pid>>
  OBVIOUS
<1>1. CASE CreateTask
  <2>. DEFINE p == next_available_pid
  <2>1. p \in Nat /\ p < NTasks /\ next_available_pid' = p + 1 /\ pc[esp] = "init"
    BY <1>1 DEF CreateTask, IInv, TypeOK
  <2>2. ReadyList = Counted(p)
    <3>1. CASE p = 0
      <4>1. ready_to_run.head = NULL
        BY <2>1, <3>1 DEF IInv, CreationInv
      <4>2. Counted(0) = << >>
        BY DEF Counted
      <4>3. QED
        BY <3>1, <4>1, <4>2, EmptyReadyList
    <3>2. CASE p > 0
      <4>1. /\ ready_to_run.head = 0 /\ ready_to_run.tail = p - 1
            /\ \A r \in Pid : r < p - 1 => next_task[r] = r + 1
        BY <2>1, <3>2 DEF IInv, CreationInv
      <4>2. PICK n \in 1 .. NTasks : \E q \in [1 .. n -> Pid] : IsReadyList(n, q)
        BY <2>1, <3>2 DEF IInv, ReadyListExact
      <4>3. PICK q \in [1 .. n -> Pid] : IsReadyList(n, q)
        BY <4>2
      <4>4. next_task[p - 1] = NULL
        BY <4>1, <4>3 DEF IsReadyList
      <4>5. Linked(ready_to_run.head, next_task, p, Counted(p))
        <5>1. Counted(p) \in [1 .. p -> Pid] /\ Counted(p)[1] = 0 /\ Counted(p)[p] = p - 1
          BY <2>1, <3>2, TasksAssumption DEF Counted, Pid
        <5>2. ASSUME NEW i \in 1 .. p - 1
              PROVE  next_task[Counted(p)[i]] = Counted(p)[i + 1]
          <6>1. /\ i - 1 \in Pid /\ i - 1 < p - 1
                /\ Counted(p)[i] = i - 1 /\ Counted(p)[i + 1] = (i - 1) + 1
            BY <2>1, TasksAssumption DEF Counted, Pid
          <6>2. QED
            BY <4>1, <6>1
        <5>3. p \in 0 .. NTasks /\ p # 0 /\ p > 0
          BY <2>1, <3>2, TasksAssumption
        <5>4. QED
          BY <4>1, <4>4, <5>1, <5>2, <5>3 DEF Linked
      <4>6. QED
        BY <4>5, FollowedIsLinked DEF ReadyList
    <3>3. QED
      BY <2>1, <3>1, <3>2
  <2>3. ReadyList' = Counted(p + 1)
    <3>1. PICK n \in 1 .. NTasks : /\ n = next_available_pid'
                                   /\ Counted(n) \in [1 .. n -> Pid]
                                   /\ IsReadyList(n, Counted(n))'
      BY <1>1, CreateTaskIInv DEF Appends
    <3>2. ReadyList' = Counted(n)
      BY <3>1, NextReadyListIs
    <3>3. QED
      BY <2>1, <3>1, <3>2
  <2>4. Counted(p + 1) = Append(Counted(p), p)
    <3>1. /\ Counted(p) \in Seq(Nat) /\ Len(Counted(p)) = p
          /\ \A i \in 1 .. p : Counted(p)[i] = i - 1
      BY <2>1 DEF Counted
    <3>2. /\ Counted(p + 1) \in Seq(Nat) /\ Len(Counted(p + 1)) = p + 1
          /\ \A i \in 1 .. p + 1 : Counted(p + 1)[i] = i - 1
      BY <2>1 DEF Counted
    <3>3. /\ Append(Counted(p), p) \in Seq(Nat) /\ Len(Append(Counted(p), p)) = p + 1
          /\ \A i \in 1 .. p : Append(Counted(p), p)[i] = i - 1
          /\ Append(Counted(p), p)[p + 1] = p
      BY <2>1, <3>1
    <3>4. \A i \in 1 .. p + 1 : Counted(p + 1)[i] = Append(Counted(p), p)[i]
      BY <2>1, <3>2, <3>3
    <3>5. QED
      BY <3>2, <3>3, <3>4, SeqEqual
  <2>5. RR!Create
    BY <2>1, <2>2, <2>3, <2>4 DEF RR!Create
  <2>6. QED
    BY <2>5 DEF RR!Next
<1>2. CASE Schedule
  <2>1. PICK n \in 1 .. NTasks : \E q \in [1 .. n -> Pid] :
          /\ n > 1 /\ IsReadyList(n, q)
          /\ Rotated(n, q) \in [1 .. n -> Pid] /\ IsReadyList(n, Rotated(n, q))'
    BY <1>2, ScheduleIInv DEF Rotates
  <2>2. PICK q \in [1 .. n -> Pid] :
          /\ n > 1 /\ IsReadyList(n, q)
          /\ Rotated(n, q) \in [1 .. n -> Pid] /\ IsReadyList(n, Rotated(n, q))'
    BY <2>1
  <2>3. ReadyList = q /\ ReadyList' = Rotated(n, q)
    BY <2>2, ReadyListIs, NextReadyListIs
  <2>4. Len(q) > 1 /\ Rotated(n, q) = Append(Tail(q), Head(q))
    <3>1. n \in Nat
      OBVIOUS
    <3>2. Len(q) = n /\ Rotated(n, q) = Append(Tail(q), Head(q))
      BY <2>2, <3>1, RotatedIs, Zenon
    <3>3. QED
      BY <2>2, <3>2
  <2>5. next_available_pid' = next_available_pid
    BY <1>2 DEF Schedule
  <2>6. RR!Yield
    BY <2>3, <2>4, <2>5 DEF RR!Yield
  <2>7. QED
    BY <2>6 DEF RR!Next
<1>3. CASE Terminate
  <2>1. PICK n \in 1 .. NTasks : \E q \in [1 .. n -> Pid] :
          /\ n > 1 /\ q[1] # 0 /\ IsReadyList(n, q)
          /\ Rest(n, q) \in [1 .. n - 1 -> Pid] /\ IsReadyList(n - 1, Rest(n, q))'
    BY <1>3, TerminateIInv DEF Drops
  <2>2. PICK q \in [1 .. n -> Pid] :
          /\ n > 1 /\ q[1] # 0 /\ IsReadyList(n, q)
          /\ Rest(n, q) \in [1 .. n - 1 -> Pid] /\ IsReadyList(n - 1, Rest(n, q))'
    BY <2>1
  <2>3. n - 1 \in 1 .. NTasks
    BY <2>2, TasksAssumption
  <2>4. ReadyList = q /\ ReadyList' = Rest(n, q)
    BY <2>2, <2>3, ReadyListIs, NextReadyListIs
  <2>5. Len(q) > 1 /\ Rest(n, q) = Tail(q) /\ Head(q) # 0
    BY <2>2, RotatedIs
  <2>6. next_available_pid' = next_available_pid
    BY <1>3 DEF Terminate, tasks
  <2>7. RR!Exit
    BY <2>4, <2>5, <2>6 DEF RR!Exit
  <2>8. QED
    BY <2>7 DEF RR!Next
<1>4. CASE UNCHANGED <<ready_to_run, next_task, next_available_pid>>
  BY <1>4 DEF ReadyList
<1>5. CASE \/ StartLoop \/ ScheduleAlone \/ ReadTimer \/ UpdateTime \/ SwitchToTask
           \/ SwitchStub \/ TimerCallback \/ UNCHANGED vars
  <2>1. UNCHANGED <<ready_to_run, next_task, next_available_pid>>
    BY <1>5 DEF StartLoop, ScheduleAlone, ReadTimer, UpdateTime, SwitchToTask, SwitchStub,
                TimerCallback, vars, lists, tasks
  <2>2. QED
    BY <1>4, <2>1
<1>6. QED
  BY <1>1, <1>2, <1>3, <1>5 DEF Next, Cpu

\* The linked lists implement the round-robin queue of RoundRobin, for any tasks.
THEOREM SchedulerImplementsRoundRobin == Spec => ImplementsRoundRobin
<1>1. Init => RR!Init
  <2>. SUFFICES ASSUME Init PROVE RR!Init
    OBVIOUS
  <2>1. ready_to_run.head = NULL /\ next_available_pid = 0
    BY DEF Init, EmptyList
  <2>2. QED
    BY <2>1, EmptyReadyList DEF RR!Init
<1>2. QED
  BY <1>1, StepImplementsRoundRobin, InductiveInvariant, PTL
  DEF Spec, ImplementsRoundRobin, RR!Spec

-----------------------------------------------------------------------------
(***************************************************************************)
(* Every tick is charged once.  SumFunction is a recursive function of     *)
(* sets; what holds of all sums follows from the smallest set for which it *)
(* would not hold.                                                         *)
(***************************************************************************)

Pick(s) == CHOOSE z \in s : TRUE

\* h is the sum of f over the subsets of S.
IsSum(h, f, S) ==
    h = [s \in SUBSET S |-> IF s = {} THEN 0 ELSE f[Pick(s)] + h[s \ {Pick(s)}]]

LEMMA SumIs ==
  ASSUME NEW f
  PROVE  SumFunction(f) = (CHOOSE h : IsSum(h, f, DOMAIN f))[DOMAIN f]
BY DEF SumFunction, SumFunctionOnSet, FoldFunctionOnSet, MapThenFoldSet, IsSum, Pick

LEMMA PickIn == ASSUME NEW s, s # {} PROVE Pick(s) \in s
BY DEF Pick

\* What Pick leaves is smaller.
LEMMA PickLess ==
  ASSUME NEW S, IsFiniteSet(S), NEW s \in SUBSET S, s # {}
  PROVE  /\ Pick(s) \in S /\ s \ {Pick(s)} \in SUBSET S
         /\ Cardinality(s) \in Nat \ {0}
         /\ Cardinality(s \ {Pick(s)}) = Cardinality(s) - 1
<1>1. IsFiniteSet(s) /\ Pick(s) \in s
  BY FS_Subset, PickIn
<1>2. Cardinality(s) \in Nat /\ Cardinality(s) # 0
  BY <1>1, FS_CardinalityType, FS_EmptySet
<1>3. Cardinality(s \ {Pick(s)}) = Cardinality(s) - 1
  BY <1>1, FS_RemoveElement
<1>4. QED
  BY <1>1, <1>2, <1>3

\* h is the sum of f over the sets in L.
SumsOver(h, f, L) ==
    /\ h \in [L -> Nat]
    /\ \A s \in L : h[s] = IF s = {} THEN 0 ELSE f[Pick(s)] + h[s \ {Pick(s)}]

\* Sums exist.
LEMMA SumExists ==
  ASSUME NEW S, IsFiniteSet(S), NEW f \in [S -> Nat]
  PROVE  \E h : SumsOver(h, f, SUBSET S)
<1>. DEFINE L(n) == {s \in SUBSET S : Cardinality(s) <= n}
            T == {n \in Nat : ~ \E h : SumsOver(h, f, L(n))}
<1>0. \A s \in SUBSET S : IsFiniteSet(s) /\ Cardinality(s) \in Nat
  BY FS_Subset, FS_CardinalityType
<1>1. T = {}
  <2>. SUFFICES ASSUME T # {} PROVE FALSE
    OBVIOUS
  <2>1. PICK m \in T : \A k \in T : m <= k
    <3>1. T \in SUBSET Nat
      OBVIOUS
    <3>. HIDE DEF T
    <3>2. QED
      BY <3>1, LeastElement
  <2>2. m \in Nat /\ ~ \E h : SumsOver(h, f, L(m))
    OBVIOUS
  <2>3. CASE m = 0
    <3>1. \A s \in L(m) : s = {}
      BY <1>0, <2>3, FS_EmptySet
    <3>2. SumsOver([s \in L(m) |-> 0], f, L(m))
      BY <3>1 DEF SumsOver
    <3>3. QED
      BY <2>2, <3>2
  <2>4. CASE m # 0
    <3>1. m - 1 \in Nat /\ ~ (m <= m - 1)
      BY <2>2, <2>4
    <3>2. m - 1 \notin T
      <4>. HIDE DEF T
      <4>1. QED
        BY <2>1, <3>1
    <3>3. PICK h : SumsOver(h, f, L(m - 1))
      BY <3>1, <3>2
    <3>. DEFINE g == [s \in L(m) |-> IF s = {} THEN 0 ELSE f[Pick(s)] + h[s \ {Pick(s)}]]
    <3>4. ASSUME NEW s \in L(m), s # {}
          PROVE  s \ {Pick(s)} \in L(m - 1) /\ Pick(s) \in S
      <4>1. /\ Pick(s) \in S /\ s \ {Pick(s)} \in SUBSET S /\ Cardinality(s) \in Nat
            /\ Cardinality(s \ {Pick(s)}) = Cardinality(s) - 1
        BY <3>4, PickLess
      <4>2. QED
        BY <2>2, <4>1
    <3>5. L(m - 1) \subseteq L(m)
      BY <1>0, <2>2
    <3>6. \A s \in L(m - 1) : h[s] \in Nat /\ g[s] = h[s]
      <4>1. \A s \in L(m - 1) :
              h[s] \in Nat /\ h[s] = IF s = {} THEN 0 ELSE f[Pick(s)] + h[s \ {Pick(s)}]
        BY <3>3 DEF SumsOver
      <4>2. QED
        BY <3>5, <4>1
    <3>7. g \in [L(m) -> Nat]
      <4>. SUFFICES ASSUME NEW s \in L(m)
                    PROVE  (IF s = {} THEN 0 ELSE f[Pick(s)] + h[s \ {Pick(s)}]) \in Nat
        OBVIOUS
      <4>1. CASE s = {}
        BY <4>1
      <4>2. CASE s # {}
        <5>1. f[Pick(s)] \in Nat /\ h[s \ {Pick(s)}] \in Nat
          <6>. HIDE DEF L, g
          <6>1. QED
            BY <3>4, <3>6, <4>2
        <5>2. QED
          BY <5>1, <4>2
      <4>3. QED
        BY <4>1, <4>2
    <3>8. ASSUME NEW s \in L(m)
          PROVE  g[s] = IF s = {} THEN 0 ELSE f[Pick(s)] + g[s \ {Pick(s)}]
      <4>1. CASE s = {}
        BY <4>1
      <4>2. CASE s # {}
        <5>1. g[s] = f[Pick(s)] + h[s \ {Pick(s)}]
          BY <4>2
        <5>2. g[s \ {Pick(s)}] = h[s \ {Pick(s)}]
          <6>. HIDE DEF L, g
          <6>1. QED
            BY <3>4, <3>6, <4>2
        <5>. HIDE DEF g
        <5>3. QED
          BY <4>2, <5>1, <5>2
      <4>3. QED
        BY <4>1, <4>2
    <3>9. SumsOver(g, f, L(m))
      <4>. HIDE DEF g, L
      <4>1. QED
        BY <3>7, <3>8 DEF SumsOver
    <3>10. QED
      BY <2>2, <3>9
  <2>5. QED
    BY <2>3, <2>4
<1>2. Cardinality(S) \in Nat /\ L(Cardinality(S)) = SUBSET S
  <2>1. Cardinality(S) \in Nat
    BY FS_CardinalityType
  <2>2. \A s \in SUBSET S : Cardinality(s) <= Cardinality(S)
    BY FS_Subset
  <2>3. QED
    BY <2>1, <2>2
<1>3. QED
  BY <1>1, <1>2

\* The sum of f that SumFunction computes.
SumOf(f) == CHOOSE h : IsSum(h, f, DOMAIN f)

LEMMA SumOfSums ==
  ASSUME NEW S, IsFiniteSet(S), NEW f \in [S -> Nat]
  PROVE  SumsOver(SumOf(f), f, SUBSET S) /\ SumFunction(f) = SumOf(f)[S]
<1>1. PICK g : SumsOver(g, f, SUBSET S)
  BY SumExists
<1>2. IsSum(g, f, DOMAIN f)
  BY <1>1 DEF SumsOver, IsSum
<1>3. IsSum(SumOf(f), f, DOMAIN f)
  BY <1>2 DEF SumOf
<1>4. DOMAIN f = S
  OBVIOUS
<1>. DEFINE h == SumOf(f)
            T == {n \in Nat : \E s \in SUBSET S : Cardinality(s) = n /\ h[s] # g[s]}
<1>5. \A s \in SUBSET S : h[s] = IF s = {} THEN 0 ELSE f[Pick(s)] + h[s \ {Pick(s)}]
  <2>. HIDE DEF h
  <2>1. h = [s \in SUBSET S |-> IF s = {} THEN 0 ELSE f[Pick(s)] + h[s \ {Pick(s)}]]
    BY <1>3, <1>4 DEF IsSum, h
  <2>2. QED
    BY <2>1
<1>6. \A s \in SUBSET S : g[s] = IF s = {} THEN 0 ELSE f[Pick(s)] + g[s \ {Pick(s)}]
  BY <1>1 DEF SumsOver
<1>7. h = [s \in SUBSET S |-> h[s]] /\ g = [s \in SUBSET S |-> g[s]]
  BY <1>1, <1>3, <1>4 DEF IsSum, SumsOver
<1>. HIDE DEF h
<1>8. T = {}
  <2>. SUFFICES ASSUME T # {} PROVE FALSE
    OBVIOUS
  <2>1. PICK m \in T : \A k \in T : m <= k
    <3>1. T \in SUBSET Nat
      OBVIOUS
    <3>. HIDE DEF T
    <3>2. QED
      BY <3>1, LeastElement
  <2>2. PICK s \in SUBSET S : Cardinality(s) = m /\ h[s] # g[s]
    OBVIOUS
  <2>3. s # {}
    BY <1>5, <1>6, <2>2
  <2>4. /\ s \ {Pick(s)} \in SUBSET S /\ m \in Nat
        /\ Cardinality(s \ {Pick(s)}) = m - 1 /\ m - 1 \in Nat /\ ~ (m <= m - 1)
    BY <2>2, <2>3, PickLess
  <2>5. m - 1 \notin T
    <3>. HIDE DEF T
    <3>1. QED
      BY <2>1, <2>4
  <2>6. h[s \ {Pick(s)}] = g[s \ {Pick(s)}]
    BY <2>4, <2>5
  <2>7. QED
    BY <1>5, <1>6, <2>2, <2>3, <2>6, Zenon
<1>9. \A s \in SUBSET S : h[s] = g[s]
  BY <1>8, FS_Subset, FS_CardinalityType
<1>10. h = g
  BY <1>7, <1>9
<1>11. SumFunction(f) = h[S]
  BY <1>4, SumIs DEF h, SumOf
<1>12. QED
  BY <1>1, <1>10, <1>11 DEF h

\* A sum changes by what one of its terms changes.
LEMMA SumUpdate ==
  ASSUME NEW S, IsFiniteSet(S), NEW f \in [S -> Nat], NEW g \in [S -> Nat], NEW p \in S,
         \A s \in S \ {p} : g[s] = f[s]
  PROVE  /\ SumFunction(f) \in Nat /\ SumFunction(g) \in Nat
         /\ SumFunction(g) = SumFunction(f) + (g[p] - f[p])
<1>1. /\ SumsOver(SumOf(f), f, SUBSET S) /\ SumFunction(f) = SumOf(f)[S]
      /\ SumsOver(SumOf(g), g, SUBSET S) /\ SumFunction(g) = SumOf(g)[S]
  BY SumOfSums
<1>. DEFINE h == SumOf(f)
            k == SumOf(g)
            d(s) == IF p \in s THEN g[p] - f[p] ELSE 0
            T == {n \in Nat : \E s \in SUBSET S : Cardinality(s) = n /\ k[s] # h[s] + d(s)}
<1>. HIDE DEF h, k
<1>2. /\ \A s \in SUBSET S : h[s] \in Nat /\ k[s] \in Nat
      /\ \A s \in SUBSET S : h[s] = IF s = {} THEN 0 ELSE f[Pick(s)] + h[s \ {Pick(s)}]
      /\ \A s \in SUBSET S : k[s] = IF s = {} THEN 0 ELSE g[Pick(s)] + k[s \ {Pick(s)}]
  BY <1>1 DEF SumsOver, h, k
<1>3. f[p] \in Nat /\ g[p] \in Nat
  OBVIOUS
<1>4. T = {}
  <2>. SUFFICES ASSUME T # {} PROVE FALSE
    OBVIOUS
  <2>1. PICK m \in T : \A n \in T : m <= n
    <3>1. T \in SUBSET Nat
      OBVIOUS
    <3>. HIDE DEF T
    <3>2. QED
      BY <3>1, LeastElement
  <2>2. PICK s \in SUBSET S : Cardinality(s) = m /\ k[s] # h[s] + d(s)
    OBVIOUS
  <2>3. s # {}
    <3>1. ASSUME s = {} PROVE FALSE
      <4>1. h[s] = 0 /\ k[s] = 0
        BY <1>2, <3>1, Zenon
      <4>2. d(s) = 0
        BY <3>1, Zenon
      <4>3. QED
        BY <2>2, <4>1, <4>2
    <3>2. QED
      BY <3>1
  <2>4. /\ s \ {Pick(s)} \in SUBSET S /\ m \in Nat /\ Pick(s) \in S
        /\ Cardinality(s \ {Pick(s)}) = m - 1 /\ m - 1 \in Nat /\ ~ (m <= m - 1)
    BY <2>2, <2>3, PickLess
  <2>5. m - 1 \notin T
    <3>. HIDE DEF T
    <3>1. QED
      BY <2>1, <2>4
  <2>. DEFINE c == Pick(s)
              r == s \ {c}
  <2>6. k[r] = h[r] + d(r)
    BY <2>4, <2>5
  <2>7. /\ h[s] = f[c] + h[r] /\ k[s] = g[c] + k[r]
        /\ h[r] \in Nat /\ k[r] \in Nat /\ f[c] \in Nat /\ g[c] \in Nat
    BY <1>2, <2>3, <2>4
  <2>8. CASE c = p
    <3>1. p \in s /\ p \notin r
      BY <2>3, <2>8, PickIn
    <3>2. QED
      BY <1>3, <2>2, <2>6, <2>7, <2>8, <3>1
  <2>9. CASE c # p
    <3>1. (p \in s <=> p \in r) /\ g[c] = f[c]
      BY <2>4, <2>9
    <3>2. d(s) = d(r) /\ d(r) \in Int
      BY <1>3, <3>1
    <3>3. QED
      BY <2>2, <2>6, <2>7, <3>1, <3>2
  <2>10. QED
    BY <2>8, <2>9
<1>5. Cardinality(S) \in Nat /\ S \in SUBSET S
  BY FS_CardinalityType
<1>6. k[S] = h[S] + (g[p] - f[p])
  BY <1>4, <1>5
<1>7. QED
  BY <1>1, <1>2, <1>5, <1>6 DEF h, k

\* Nothing adds up to nothing.
LEMMA SumZero ==
  ASSUME NEW S, IsFiniteSet(S)
  PROVE  SumFunction([s \in S |-> 0]) = 0
<1>. DEFINE f == [s \in S |-> 0]
<1>1. f \in [S -> Nat] /\ \A s \in S : f[s] = 0
  OBVIOUS
<1>. HIDE DEF f
<1>. DEFINE h == SumOf(f)
            T == {n \in Nat : \E s \in SUBSET S : Cardinality(s) = n /\ h[s] # 0}
<1>. HIDE DEF h
<1>2. SumsOver(h, f, SUBSET S) /\ SumFunction(f) = h[S]
  BY <1>1, SumOfSums DEF h
<1>3. \A s \in SUBSET S : h[s] = IF s = {} THEN 0 ELSE f[Pick(s)] + h[s \ {Pick(s)}]
  BY <1>2 DEF SumsOver
<1>4. T = {}
  <2>. SUFFICES ASSUME T # {} PROVE FALSE
    OBVIOUS
  <2>1. PICK m \in T : \A n \in T : m <= n
    <3>1. T \in SUBSET Nat
      OBVIOUS
    <3>. HIDE DEF T
    <3>2. QED
      BY <3>1, LeastElement
  <2>2. PICK s \in SUBSET S : Cardinality(s) = m /\ h[s] # 0
    OBVIOUS
  <2>3. s # {}
    BY <1>3, <2>2
  <2>4. /\ s \ {Pick(s)} \in SUBSET S /\ m \in Nat /\ Pick(s) \in S
        /\ Cardinality(s \ {Pick(s)}) = m - 1 /\ m - 1 \in Nat /\ ~ (m <= m - 1)
    BY <2>2, <2>3, PickLess
  <2>5. m - 1 \notin T
    <3>. HIDE DEF T
    <3>1. QED
      BY <2>1, <2>4
  <2>6. h[s \ {Pick(s)}] = 0 /\ f[Pick(s)] = 0
    BY <1>1, <2>4, <2>5
  <2>7. QED
    BY <1>3, <2>2, <2>3, <2>6
<1>5. Cardinality(S) \in Nat /\ S \in SUBSET S
  BY FS_CardinalityType
<1>6. QED
  BY <1>2, <1>4, <1>5 DEF f
-----------------------------------------------------------------------------
(***************************************************************************)
(* Until the tick counter wraps around, the clock only moves forward and   *)
(* every tick up to last_time is in somebody's time_used.                  *)
(***************************************************************************)
ClockInv ==
    /\ last_time <= ticks
    /\ ticks <= MaxTicks
    /\ pc[esp] = "account" => last_time <= current_time /\ current_time <= ticks
    /\ TimeConserved

LEMMA DivMod ==
  ASSUME NEW n \in Nat \ {0}, NEW v \in Nat
  PROVE  /\ v \div n \in Int /\ v % n \in 0 .. n - 1
         /\ v = (v \div n) * n + (v % n)
OBVIOUS

LEMMA MulMono ==
  ASSUME NEW n \in Nat, NEW a \in Int, NEW b \in Int, a <= b
  PROVE  a * n <= b * n
OBVIOUS

LEMMA MulStep ==
  ASSUME NEW n \in Nat, NEW a \in Int
  PROVE  (a + 1) * n = a * n + n /\ (a - 1) * n = a * n - n /\ a * n \in Int
OBVIOUS

\* The remainder is what is left of whole multiples.
LEMMA ModUnique ==
  ASSUME NEW n \in Nat \ {0}, NEW v \in Nat, NEW q \in Int, NEW r \in 0 .. n - 1, v = q * n + r
  PROVE  v % n = r
<1>1. /\ v \div n \in Int /\ v % n \in 0 .. n - 1
      /\ v = (v \div n) * n + (v % n)
  BY DivMod
<1>2. CASE v \div n < q
  <2>1. (v \div n + 1) * n <= q * n
    BY <1>1, <1>2, MulMono
  <2>2. QED
    BY <1>1, <2>1, MulStep
<1>3. CASE v \div n > q
  <2>1. (q + 1) * n <= (v \div n) * n
    BY <1>1, <1>3, MulMono
  <2>2. QED
    BY <1>1, <2>1, MulStep
<1>4. QED
  BY <1>1, <1>2, <1>3

\* A task with the time u was charged e ticks, and the total went up with it.
ChargedTo(n, total, u, e, after) ==
    /\ total \in Nat /\ after \in Nat /\ u \in 0 .. n - 1 /\ e \in Nat
    /\ after = total + (((u + e) % n) - u)
    /\ (total % n) + e < n

\* Charging e ticks to one task moves the total on by e, modulo 2^32.
LEMMA Charged ==
  ASSUME NEW n \in Nat \ {0}, NEW total, NEW u, NEW e, NEW after, ChargedTo(n, total, u, e, after)
  PROVE  after % n = (total % n) + e
<1>. /\ total \in Nat /\ after \in Nat /\ u \in 0 .. n - 1 /\ e \in Nat
     /\ after = total + (((u + e) % n) - u)
     /\ (total % n) + e < n
  BY DEF ChargedTo
<1>. DEFINE q == total \div n
            r == total % n
            m == (u + e) % n
<1>1. q \in Int /\ r \in 0 .. n - 1 /\ total = q * n + r /\ q * n \in Int
  BY DivMod
<1>2. r + e < n /\ after = total + (m - u)
  OBVIOUS
<1>3. u + e < n => m = u + e
  OBVIOUS
<1>4. u + e >= n => m = u + e - n
  <2>1. SUFFICES ASSUME u + e >= n PROVE m = u + e - n
    OBVIOUS
  <2>. HIDE DEF r
  <2>2. u + e = 1 * n + (u + e - n) /\ u + e - n \in 0 .. n - 1 /\ u + e \in Nat
    BY <1>1, <1>2, <2>1
  <2>3. QED
    BY <2>2, ModUnique
<1>. HIDE DEF q, r, m
<1>5. r + e \in 0 .. n - 1
  BY <1>1, <1>2
<1>6. CASE u + e < n
  <2>1. after = q * n + (r + e)
    BY <1>1, <1>2, <1>3, <1>6
  <2>2. after % n = r + e
    BY <1>1, <1>5, <2>1, ModUnique
  <2>3. QED
    BY <2>2 DEF r
<1>7. CASE u + e >= n
  <2>1. (q - 1) * n = q * n - n /\ q - 1 \in Int
    BY <1>1, MulStep
  <2>2. after = (q - 1) * n + (r + e)
    BY <1>1, <1>2, <1>4, <1>7, <2>1
  <2>3. after % n = r + e
    BY <1>5, <2>1, <2>2, ModUnique
  <2>4. QED
    BY <2>3 DEF r
<1>8. QED
  BY <1>6, <1>7

LEMMA PidFinite == IsFiniteSet(Pid)
BY FS_Interval, TasksAssumption DEF Pid

LEMMA InitClock == Init => ClockInv
<1>. SUFFICES ASSUME Init PROVE ClockInv
  OBVIOUS
<1>1. SumFunction(time_used) = 0
  BY PidFinite, SumZero DEF Init
<1>2. 0 % WordMod = 0
  BY WordAssumption
<1>3. pc[esp] # "account"
  BY TasksAssumption DEF Init, Pid
<1>4. QED
  BY <1>1, <1>2, <1>3, WordAssumption DEF Init, ClockInv, TimeConserved

\* update_time charges the ticks since the last accounting to the task it leaves.
LEMMA UpdateTimeClock ==
  ASSUME IInv, ClockInv, MaxTicks < WordMod, UpdateTime
  PROVE  ClockInv'
<1>. DEFINE e == current_time - last_time
            u == time_used[current_task]
<1>1. /\ current_task = esp /\ esp \in Pid
      /\ time_used \in [Pid -> Word] /\ last_time \in Word /\ current_time \in Word /\ ticks \in Word
  BY DEF IInv, TypeOK, SwitchInv, SwitchPending, UpdateTime
<1>2. /\ last_time <= current_time /\ current_time <= ticks /\ ticks <= MaxTicks
      /\ SumFunction(time_used) % WordMod = last_time
  BY DEF ClockInv, UpdateTime, TimeConserved
<1>3. elapsed_time(last_time, current_time) = e
  BY <1>1, <1>2 DEF elapsed_time, Word
<1>4. e \in Nat /\ u \in 0 .. WordMod - 1 /\ last_time + e = current_time /\ current_time < WordMod
  BY <1>1, <1>2, WordAssumption DEF Word
<1>5. /\ time_used' = [time_used EXCEPT ![current_task] = (u + e) % WordMod]
      /\ last_time' = current_time /\ ticks' = ticks
  BY <1>3 DEF UpdateTime
<1>6. pc'[esp'] = "switch"
  BY DEF UpdateTime, IInv, TypeOK
<1>. HIDE DEF e, u
<1>7. (u + e) % WordMod \in Word /\ WordMod \in Nat \ {0}
  BY <1>4, ModInWord, WordAssumption
<1>8. /\ time_used \in [Pid -> Nat] /\ time_used' \in [Pid -> Nat]
      /\ time_used'[current_task] = (u + e) % WordMod
      /\ \A p \in Pid \ {current_task} : time_used'[p] = time_used[p]
  BY <1>1, <1>5, <1>7 DEF Word
<1>9. /\ SumFunction(time_used) \in Nat /\ SumFunction(time_used') \in Nat
      /\ SumFunction(time_used') = SumFunction(time_used) + (((u + e) % WordMod) - u)
  BY <1>1, <1>8, PidFinite, SumUpdate DEF u
<1>10. SumFunction(time_used') % WordMod = current_time
  <2>. DEFINE before == SumFunction(time_used)
              after == SumFunction(time_used')
  <2>1. /\ before \in Nat /\ after \in Nat
        /\ after = before + (((u + e) % WordMod) - u)
        /\ (before % WordMod) + e < WordMod /\ (before % WordMod) + e = current_time
    BY <1>2, <1>4, <1>9
  <2>. HIDE DEF before, after
  <2>2. ChargedTo(WordMod, before, u, e, after)
    BY <1>4, <2>1 DEF ChargedTo
  <2>3. after % WordMod = (before % WordMod) + e
    BY <1>7, <2>2, Charged
  <2>4. QED
    BY <2>1, <2>3 DEF before, after
<1>11. QED
  BY <1>1, <1>2, <1>5, <1>6, <1>10 DEF ClockInv, TimeConserved

LEMMA ClockStep ==
  ASSUME IInv, ClockInv, MaxTicks < WordMod, [Next]_vars
  PROVE  ClockInv'
<1>1. /\ last_time \in Word /\ ticks \in Word /\ esp \in Pid /\ pc \in [Pid -> Control]
      /\ esp' \in Pid
  BY NextIInv DEF IInv, TypeOK
<1>2. ASSUME last_time' = last_time, ticks' = ticks, time_used' = time_used, pc'[esp'] # "account"
      PROVE  ClockInv'
  BY <1>2 DEF ClockInv, TimeConserved
<1>3. CASE CreateTask
  BY <1>1, <1>2, <1>3 DEF CreateTask, clock
<1>4. CASE StartLoop
  BY <1>1, <1>2, <1>4 DEF StartLoop, clock
<1>5. CASE ScheduleAlone
  BY <1>1, <1>2, <1>5 DEF ScheduleAlone, clock, cpu
<1>6. CASE Schedule
  BY <1>1, <1>2, <1>6 DEF Schedule, clock
<1>7. CASE Terminate
  <2>1. pc'[esp'] \in {"panic", "read"} /\ UNCHANGED clock
    BY <1>1, <1>7 DEF Terminate
  <2>2. QED
    BY <1>2, <2>1 DEF clock
<1>8. CASE ReadTimer
  BY <1>1, <1>8 DEF ReadTimer, ClockInv, TimeConserved, Word
<1>9. CASE UpdateTime
  BY <1>9, UpdateTimeClock
<1>10. CASE SwitchToTask
  BY <1>1, <1>2, <1>10 DEF SwitchToTask, clock
<1>11. CASE SwitchStub
  <2>1. pc'[esp'] \in {"body", "panic"}
    BY <1>1, <1>11 DEF SwitchStub, ResumeAt
  <2>2. QED
    BY <1>2, <1>11, <2>1 DEF SwitchStub, clock
<1>12. CASE TimerCallback
  <2>1. ticks' = ticks + 1 /\ ticks + 1 <= MaxTicks
    BY <1>1, <1>12, WordAssumption DEF TimerCallback, Word
  <2>2. UNCHANGED <<last_time, time_used, current_time, esp, pc>>
    BY <1>12 DEF TimerCallback, cpu
  <2>3. current_time \in Word
    BY DEF IInv, TypeOK
  <2>4. QED
    BY <1>1, <2>1, <2>2, <2>3 DEF ClockInv, TimeConserved, Word
<1>13. CASE UNCHANGED vars
  BY <1>13 DEF ClockInv, TimeConserved, vars, clock, cpu
<1>14. QED
  BY <1>3, <1>4, <1>5, <1>6, <1>7, <1>8, <1>9, <1>10, <1>11, <1>12, <1>13 DEF Next, Cpu

\* update_time charges every tick to exactly one task, whenever the timer
\* interrupts it, as long as the uint32_t counter has not wrapped around.
THEOREM TicksAccounted ==
  ASSUME MaxTicks < WordMod
  PROVE  Spec => []TimeConserved
<1>1. Init => ClockInv
  BY InitClock
<1>2. IInv /\ ClockInv /\ [Next]_vars => ClockInv'
  BY ClockStep
<1>3. ClockInv => TimeConserved
  BY DEF ClockInv
<1>4. QED
  BY InductiveInvariant, <1>1, <1>2, <1>3, PTL DEF Spec
=============================================================================
