---------------------------- MODULE WorkflowProofs ----------------------------
(***************************************************************************)
(* Proofs about WorkflowEngine for every set of calls and workflows, with  *)
(* and without other code that removes tasks from the queue.               *)
(***************************************************************************)
EXTENDS WorkflowEngine, SequenceTheorems, WellFoundedInduction, TLAPS

-----------------------------------------------------------------------------
(***************************************************************************)
(* The queue.                                                              *)
(***************************************************************************)
Elements(s) == {s[i] : i \in DOMAIN s}
Distinct(s) == \A i, j \in DOMAIN s : s[i] = s[j] => i = j

\* What enqueue makes of a list without the task.
LEMMA AppendKeeps ==
  ASSUME NEW S, NEW s \in Seq(S), NEW t \in S, t \notin Elements(s), Distinct(s)
  PROVE  /\ Append(s, t) \in Seq(S) /\ Distinct(Append(s, t))
         /\ Elements(Append(s, t)) = Elements(s) \cup {t}
  <1> DEFINE q == Append(s, t)
  <1>1. /\ q \in Seq(S) /\ Len(q) = Len(s) + 1 /\ q[Len(s) + 1] = t
        /\ \A i \in 1 .. Len(s) : q[i] = s[i]
    BY AppendProperties
  <1>2. /\ DOMAIN s = 1 .. Len(s) /\ DOMAIN q = 1 .. Len(s) + 1 /\ Len(s) \in Nat
    BY <1>1, LenProperties
  <1> HIDE DEF q
  <1>3. Elements(q) = Elements(s) \cup {t}
    BY <1>1, <1>2 DEF Elements
  <1>4. Distinct(q)
    BY <1>1, <1>2 DEF Distinct, Elements
  <1> QED BY <1>1, <1>3, <1>4 DEF q

\* What dequeue makes of a list that holds each task once.
LEMMA TailKeeps ==
  ASSUME NEW S, NEW s \in Seq(S), s # << >>, Distinct(s)
  PROVE  /\ Tail(s) \in Seq(S) /\ Distinct(Tail(s))
         /\ Head(s) \in Elements(s)
         /\ Elements(Tail(s)) = Elements(s) \ {Head(s)}
  <1> DEFINE q == Tail(s)
  <1>1. /\ q \in Seq(S) /\ Len(q) = Len(s) - 1
        /\ \A i \in 1 .. Len(q) : q[i] = s[i + 1]
    BY HeadTailProperties
  <1>2. /\ DOMAIN s = 1 .. Len(s) /\ DOMAIN q = 1 .. Len(s) - 1 /\ Len(s) \in Nat /\ Len(s) >= 1
    BY <1>1, LenProperties, EmptySeq
  <1>3. Head(s) = s[1]
    BY DEF Head
  <1> HIDE DEF q
  <1>4. Head(s) \in Elements(s)
    BY <1>2, <1>3 DEF Elements
  <1>5. Distinct(q)
    BY <1>1, <1>2 DEF Distinct
  <1>6. Elements(q) \subseteq Elements(s) \ {Head(s)}
    BY <1>1, <1>2, <1>3 DEF Elements, Distinct
  <1>7. ASSUME NEW e \in Elements(s), e # Head(s) PROVE e \in Elements(q)
    <2> PICK i \in 1 .. Len(s) : e = s[i]
      BY <1>2 DEF Elements
    <2>1. i - 1 \in 1 .. Len(q) /\ q[i - 1] = s[i]
      BY <1>1, <1>2, <1>3, <1>7
    <2> QED BY <1>1, <1>2, <2>1 DEF Elements
  <1> QED BY <1>1, <1>4, <1>5, <1>6, <1>7 DEF q

\* A non-empty set of naturals has a least member: an induction is the search for a
\* least counterexample.
LEMMA HasLeast ==
  ASSUME NEW S \in SUBSET Nat, S # {}
  PROVE  \E n \in S : \A m \in S : n <= m
  <1> DEFINE Below == {p \in Nat \X Nat : p[1] < p[2]}
  <1>1. IsWellFoundedOn(Below, Nat)
    BY NatLessThanWellFounded DEF OpToRel
  <1>2. PICK n \in S : \A m \in S : ~ (<<m, n>> \in Below)
    BY <1>1, WFMin
  <1>3. \A m \in S : ~ (m < n) /\ m \in Nat /\ n \in Nat
    BY <1>2
  <1> QED BY <1>3

\* One element of the list comprehension.
Filter(kept, e, t) == IF e = t THEN kept ELSE Append(kept, e)
IsKept(f, s, t, n) == f = [i \in 0..n |-> IF i = 0 THEN << >> ELSE Filter(f[i - 1], s[i], t)]

\* The function Kept stands for exists.
LEMMA KeptExists ==
  ASSUME NEW s, NEW t, NEW N \in Nat
  PROVE  \E f : IsKept(f, s, t, N)
  <1> USE DEF IsKept
  <1> DEFINE E(n) == \E f : IsKept(f, s, t, n)
             Bad == {n \in Nat : ~ E(n)}
  <1>1. SUFFICES ASSUME Bad # {} PROVE FALSE
    OBVIOUS
  <1>2. PICK n \in Bad : \A m \in Bad : n <= m
    <2> HIDE DEF Bad
    <2>1. Bad \in SUBSET Nat
      BY DEF Bad
    <2> QED BY <1>1, <2>1, HasLeast
  <1>3. n # 0
    <2> DEFINE f == [i \in 0..0 |-> << >>]
    <2>1. f = [i \in 0..0 |-> IF i = 0 THEN << >> ELSE Filter(f[i - 1], s[i], t)]
      OBVIOUS
    <2> QED BY <2>1
  <1>4. n - 1 \in Nat /\ E(n - 1)
    <2>1. n \in Nat /\ n - 1 \in Nat /\ ~ (n <= n - 1)
      BY <1>2, <1>3
    <2>2. n - 1 \notin Bad
      BY <2>1, <1>2
    <2> QED BY <2>1, <2>2
  <1>5. PICK f : f = [i \in 0..(n - 1) |-> IF i = 0 THEN << >> ELSE Filter(f[i - 1], s[i], t)]
    BY <1>4
  <1> DEFINE g == [i \in 0..n |-> IF i = n THEN Filter(f[n - 1], s[n], t) ELSE f[i]]
  <1>6. g = [i \in 0..n |-> IF i = 0 THEN << >> ELSE Filter(g[i - 1], s[i], t)]
    <2>1. ASSUME NEW i \in 0..n PROVE g[i] = IF i = 0 THEN << >> ELSE Filter(g[i - 1], s[i], t)
      <3>1. CASE i = 0
        BY <3>1, <1>2, <1>3, <1>5
      <3>2. CASE i = n
        <4>1. g[n - 1] = f[n - 1]
          BY <1>2, <1>4
        <4> QED BY <3>2, <1>3, <4>1
      <3>3. CASE i # 0 /\ i # n
        <4>1. g[i - 1] = f[i - 1] /\ g[i] = f[i] /\ i \in 0..(n - 1)
          BY <3>3, <1>2
        <4> QED BY <3>3, <1>5, <4>1
      <3> QED BY <3>1, <3>2, <3>3
    <2> QED BY <2>1
  <1>7. E(n)
    <2> HIDE DEF g
    <2> QED BY <1>6
  <1> QED BY <1>2, <1>7

\* What remove() makes of a list that holds each task once.
LEMMA KeptKeeps ==
  ASSUME NEW S, NEW s \in Seq(S), NEW t, Distinct(s)
  PROVE  /\ Kept(s, t)[Len(s)] \in Seq(S) /\ Distinct(Kept(s, t)[Len(s)])
         /\ Elements(Kept(s, t)[Len(s)]) = Elements(s) \ {t}
  <1> DEFINE K == Kept(s, t)
             Up(i) == {s[j] : j \in 1..i} \ {t}
             Good(i) == K[i] \in Seq(S) /\ Distinct(K[i]) /\ Elements(K[i]) = Up(i)
             Bad == {i \in 0..Len(s) : ~ Good(i)}
  <1>0. Len(s) \in Nat /\ DOMAIN s = 1..Len(s)
    BY LenProperties
  <1>1. K = [i \in 0..Len(s) |-> IF i = 0 THEN << >> ELSE Filter(K[i - 1], s[i], t)]
    <2>1. \E f : IsKept(f, s, t, Len(s))
      BY <1>0, KeptExists
    <2> QED BY <2>1 DEF Kept, Filter, IsKept
  <1> HIDE DEF K
  <1>2. K[0] = << >> /\ \A i \in 1..Len(s) : K[i] = Filter(K[i - 1], s[i], t)
    <2>1. ASSUME NEW i \in 1..Len(s) PROVE K[i] = Filter(K[i - 1], s[i], t)
      BY <1>0, <1>1
    <2> QED BY <1>0, <1>1, <2>1
  <1>3. Good(0)
    <2>1. K[0] \in Seq(S) /\ DOMAIN K[0] = {}
      BY <1>2, EmptySeq
    <2> QED BY <2>1 DEF Elements, Distinct
  <1>4. ASSUME NEW i \in 1..Len(s), Good(i - 1) PROVE Good(i)
    <2> DEFINE k == K[i - 1]
    <2>1. /\ k \in Seq(S) /\ Distinct(k) /\ Elements(k) = Up(i - 1) /\ s[i] \in S
          /\ K[i] = Filter(k, s[i], t)
      BY <1>0, <1>2, <1>4, ElementOfSeq
    <2>2. Up(i) = (Up(i - 1) \cup {s[i]}) \ {t}
      BY <1>0
    <2>3. s[i] \notin Up(i - 1)
      BY <1>0 DEF Distinct
    <2> HIDE DEF k, Up
    <2>4. CASE s[i] = t
      <3>1. K[i] = k
        BY <2>1, <2>4 DEF Filter
      <3>2. t \notin Up(i - 1)
        BY DEF Up
      <3> QED BY <2>1, <2>2, <2>4, <3>1, <3>2
    <2>5. CASE s[i] # t
      <3>1. K[i] = Append(k, s[i])
        BY <2>1, <2>5 DEF Filter
      <3>2. s[i] \notin Elements(k)
        BY <2>1, <2>3
      <3>3. K[i] \in Seq(S) /\ Distinct(K[i]) /\ Elements(K[i]) = Elements(k) \cup {s[i]}
        BY <2>1, <3>1, <3>2, AppendKeeps
      <3>4. t \notin Up(i - 1)
        BY DEF Up
      <3> QED BY <2>1, <2>2, <2>5, <3>3, <3>4
    <2> QED BY <2>4, <2>5
  <1>5. Good(Len(s))
    <2> SUFFICES ASSUME Bad # {} PROVE FALSE
      BY <1>0
    <2>1. PICK i \in Bad : \A m \in Bad : i <= m
      <3>1. Bad \in SUBSET Nat
        BY <1>0
      <3> HIDE DEF Bad
      <3> QED BY <3>1, HasLeast
    <2>2. i # 0 /\ i \in 1..Len(s) /\ i - 1 \in 0..Len(s) /\ ~ (i <= i - 1) /\ ~ Good(i)
      BY <1>0, <1>3, <2>1
    <2>3. i - 1 \notin Bad
      BY <2>1, <2>2
    <2>4. Good(i - 1)
      BY <2>2, <2>3
    <2> QED BY <1>4, <2>2, <2>4
  <1>6. Up(Len(s)) = Elements(s) \ {t}
    BY <1>0 DEF Elements
  <1> QED BY <1>5, <1>6 DEF K

-----------------------------------------------------------------------------
(***************************************************************************)
(* The invariant.                                                          *)
(***************************************************************************)
\* Every task that was enqueued is in the queue, removed by other code, or with the
\* one call that took it.
Placed ==
    /\ \A t \in removed : Enqueued(t) /\ ~ Queued(t)
    /\ \A t \in Tasks : Queued(t) => Enqueued(t)
    /\ \A t \in Tasks : Enqueued(t) => (Queued(t) \/ t \in removed \/ \E c \in Calls : running[c] = t)
    /\ \A c \in Calls : running[c] # None =>
          (Enqueued(running[c]) /\ ~ Queued(running[c]) /\ running[c] \notin removed)
    /\ \A c, d \in Calls : (running[c] # None /\ running[c] = running[d]) => c = d

\* What a call knows at each of its awaits.
Progress(c) ==
    /\ pc[c] = "idle" => workflow[c] = None
    /\ pc[c] \in {"idle", "queued", "announced"} => running[c] = None
    /\ pc[c] \in {"task_started", "dispatching", "task_completed", "completing"} => running[c] # None
    /\ pc[c] \in {"task_completed", "completing"} => outcome[running[c]] = "SUCCEEDED"
    /\ reply[c].status = "COMPLETED" =>
          (pc[c] = "returned" /\ running[c] # None /\ reply[c].from = running[c] /\ outcome[running[c]] = "SUCCEEDED")

WorkflowInv == TypeOK /\ QueueIndexed /\ Placed /\ \A c \in Calls : Progress(c)

LEMMA QueuedIsElement ==
  \A t : Queued(t) <=> t \in Elements(queue)
  BY DEF Queued, Elements

LEMMA WorkflowInvInit == Init => WorkflowInv
  <1> SUFFICES ASSUME Init PROVE WorkflowInv
    OBVIOUS
  <1> USE DEF Init
  <1>1. << >> \in Seq(Tasks) /\ DOMAIN << >> = {}
    BY EmptySeq
  <1>2. NoReply \in [status : {"COMPLETED", "FAILED", None}, from : Tasks \cup {None}]
    BY DEF NoReply
  <1>3. TypeOK
    BY <1>1, <1>2 DEF TypeOK, Waits, Tasks
  <1>4. QueueIndexed
    BY <1>1 DEF QueueIndexed, Queued
  <1>5. Placed
    BY <1>1 DEF Placed, Queued, Enqueued, Tasks
  <1>6. \A c \in Calls : Progress(c)
    BY WorkflowAssumption DEF Progress, NoReply, WorkflowStatus
  <1> QED BY <1>3, <1>4, <1>5, <1>6 DEF WorkflowInv

-----------------------------------------------------------------------------
(***************************************************************************)
(* The steps.                                                              *)
(***************************************************************************)
\* Most steps of a call leave the queue and the tasks where they are.
LEMMA PlacesKept ==
  ASSUME QueueIndexed, Placed, UNCHANGED <<queue, lookup, workflow, running, removed>>
  PROVE  QueueIndexed' /\ Placed'
  <1>1. QueueIndexed'
    BY DEF QueueIndexed, Queued
  <1>2. Placed'
    BY DEF Placed, Queued, Enqueued
  <1> QED BY <1>1, <1>2

\* A step of one call, written once: it moves from one await to another, and may
\* set a status and the reply of the call.
LEMMA CallMoves ==
  ASSUME WorkflowInv, NEW c \in Calls, NEW to \in Waits, Goto(c, to),
         statuses' \in [WorkflowIds -> WorkflowStatus \cup {None}],
         pc[c] # "returned",
         UNCHANGED <<started, queue, lookup, workflow, running, outcome, removed>>,
         \/ reply' = reply
         \/ to = "returned" /\ reply' = [reply EXCEPT ![c] = [status |-> "FAILED", from |-> None]]
         \/ /\ to = "returned" /\ pc[c] = "completing"
            /\ reply' = [reply EXCEPT ![c] = [status |-> "COMPLETED", from |-> running[c]]],
         to # "idle",
         to \in {"queued", "announced"} => running[c] = None,
         to \in {"task_started", "dispatching", "task_completed", "completing"} => running[c] # None,
         to \in {"task_completed", "completing"} => outcome[running[c]] = "SUCCEEDED"
  PROVE  WorkflowInv'
  <1> USE DEF WorkflowInv
  <1>1. pc' = [pc EXCEPT ![c] = to]
    BY DEF Goto
  <1>2. reply' \in [Calls -> [status : {"COMPLETED", "FAILED", None}, from : Tasks \cup {None}]]
    <2>1. /\ [status |-> "FAILED", from |-> None] \in [status : {"COMPLETED", "FAILED", None}, from : Tasks \cup {None}]
          /\ [status |-> "COMPLETED", from |-> running[c]] \in [status : {"COMPLETED", "FAILED", None}, from : Tasks \cup {None}]
      BY DEF TypeOK
    <2>2. reply \in [Calls -> [status : {"COMPLETED", "FAILED", None}, from : Tasks \cup {None}]]
      BY DEF TypeOK
    <2> QED BY <2>1, <2>2
  <1>3. TypeOK'
    BY <1>1, <1>2 DEF TypeOK
  <1>4. QueueIndexed' /\ Placed'
    BY PlacesKept
  <1>5. ASSUME NEW d \in Calls PROVE Progress(d)'
    <2>1. CASE d = c
      <3>1. /\ pc'[d] = to /\ running'[d] = running[c] /\ outcome' = outcome /\ workflow' = workflow
            /\ d = c
        BY <1>1, <2>1 DEF TypeOK
      <3>2. reply[c].status # "COMPLETED"
        BY DEF Progress
      <3>3. reply'[d].status = "COMPLETED" =>
               (to = "returned" /\ running[c] # None /\ reply'[d].from = running[c] /\ outcome[running[c]] = "SUCCEEDED")
        <4>1. CASE reply' = reply
          BY <2>1, <3>2, <4>1
        <4>2. CASE to = "returned" /\ reply' = [reply EXCEPT ![c] = [status |-> "FAILED", from |-> None]]
          BY <2>1, <4>2 DEF TypeOK
        <4>3. CASE /\ to = "returned" /\ pc[c] = "completing"
                   /\ reply' = [reply EXCEPT ![c] = [status |-> "COMPLETED", from |-> running[c]]]
          BY <2>1, <4>3 DEF TypeOK, Progress
        <4> QED BY <4>1, <4>2, <4>3
      <3> QED BY <3>1, <3>3 DEF Progress
    <2>2. CASE d # c
      <3>1. pc'[d] = pc[d] /\ reply'[d] = reply[d]
        BY <1>1, <2>2 DEF TypeOK
      <3> QED BY <3>1 DEF Progress
    <2> QED BY <2>1, <2>2
  <1> QED BY <1>3, <1>4, <1>5

LEMMA StatusIsTyped ==
  ASSUME TypeOK, NEW w, NEW s \in WorkflowStatus, SetStatus(w, s)
  PROVE  statuses' \in [WorkflowIds -> WorkflowStatus \cup {None}]
  BY DEF TypeOK, SetStatus

LEMMA SubmitKeeps ==
  ASSUME WorkflowInv, NEW c \in Calls, Submit(c)
  PROVE  WorkflowInv'
  <1> USE DEF WorkflowInv, Tasks
  <1> PICK w \in WorkflowIds :
         /\ workflow' = [workflow EXCEPT ![c] = w]
         /\ Enqueue(c)
         /\ SetStatus(w, "PENDING")
    BY DEF Submit
  <1>1. /\ pc[c] = "idle" /\ pc' = [pc EXCEPT ![c] = "queued"]
        /\ UNCHANGED <<started, running, reply, outcome, removed>>
        /\ queue' = Append(queue, c) /\ lookup' = lookup \cup {c}
    BY DEF Submit, Goto, Enqueue
  <1>2. workflow[c] = None /\ running[c] = None
    BY <1>1 DEF Progress
  <1>3. /\ c \notin Elements(queue) /\ Distinct(queue) /\ queue \in Seq(Calls)
        /\ lookup = {t \in Tasks : t \in Elements(queue)}
    BY <1>2, QueuedIsElement DEF Placed, Enqueued, QueueIndexed, Distinct, TypeOK
  <1>4. /\ queue' \in Seq(Calls) /\ Distinct(queue') /\ Elements(queue') = Elements(queue) \cup {c}
    BY <1>1, <1>3, AppendKeeps
  <1>5. TypeOK'
    <2>1. statuses' \in [WorkflowIds -> WorkflowStatus \cup {None}]
      BY StatusIsTyped DEF WorkflowStatus
    <2> QED BY <1>1, <1>4, <2>1 DEF TypeOK, Waits
  <1>6. \A t : Queued(t)' <=> (Queued(t) \/ t = c)
    BY <1>4 DEF Queued, Elements
  <1>7. QueueIndexed'
    <2>1. lookup' = {t \in Tasks : Queued(t)'}
      BY <1>1, <1>6 DEF QueueIndexed
    <2>2. \A i, j \in DOMAIN queue' : queue'[i] = queue'[j] => i = j
      BY <1>4 DEF Distinct
    <2> QED BY <2>1, <2>2 DEF QueueIndexed
  <1>8. Placed'
    <2>1. \A t \in Tasks : Enqueued(t)' <=> (Enqueued(t) \/ t = c)
      BY WorkflowAssumption DEF Enqueued, TypeOK
    <2>2. \A d \in Calls : running[d] # None => running[d] # c
      BY <1>2 DEF Placed, Enqueued
    <2>3. \A d \in Calls : running[d] # None => (Enqueued(running[d])' /\ ~ Queued(running[d])')
      <3> SUFFICES ASSUME NEW d \in Calls, running[d] # None
                   PROVE  Enqueued(running[d])' /\ ~ Queued(running[d])'
        OBVIOUS
      <3>1. /\ running[d] \in Tasks /\ running'[d] = running[d] /\ running[d] # c
            /\ Enqueued(running[d]) /\ ~ Queued(running[d])
        BY <1>1, <2>2 DEF Placed, TypeOK
      <3>2. Enqueued(running[d])'
        BY <3>1 DEF Enqueued, TypeOK
      <3>3. running[d] \notin Elements(queue')
        BY <1>4, <3>1, QueuedIsElement
      <3>4. ~ Queued(running[d])'
        BY <3>1, <3>3 DEF Queued, Elements
      <3> QED BY <3>2, <3>4
    <2>4. removed \subseteq Tasks /\ c \notin removed
      BY <1>2 DEF Placed, Enqueued, TypeOK
    <2>5. \A t \in removed : Enqueued(t)' /\ ~ Queued(t)'
      <3> SUFFICES ASSUME NEW t \in removed PROVE Enqueued(t)' /\ ~ Queued(t)'
        OBVIOUS
      <3>1. t \in Tasks /\ t # c /\ Enqueued(t) /\ ~ Queued(t)
        BY <2>4 DEF Placed
      <3> QED BY <1>6, <2>1, <3>1
    <2>6. \A t \in Tasks : Queued(t)' => Enqueued(t)'
      BY <1>6, <2>1 DEF Placed
    <2>7. \A t \in Tasks : Enqueued(t)' => (Queued(t)' \/ t \in removed \/ \E d \in Calls : running[d] = t)
      BY <1>6, <2>1 DEF Placed
    <2>8. \A d \in Calls : running[d] # None => running[d] \notin removed
      BY DEF Placed
    <2> QED BY <1>1, <2>3, <2>5, <2>6, <2>7, <2>8 DEF Placed
  <1>9. ASSUME NEW d \in Calls PROVE Progress(d)'
    <2>1. CASE d = c
      <3>1. /\ pc'[d] = "queued" /\ running' = running /\ reply' = reply
            /\ running[d] = None /\ reply[d].status # "COMPLETED"
        BY <1>1, <1>2, <2>1 DEF TypeOK, Progress
      <3> QED BY <3>1 DEF Progress
    <2>2. CASE d # c
      <3>1. pc'[d] = pc[d] /\ workflow'[d] = workflow[d]
        BY <1>1, <2>2 DEF TypeOK
      <3> QED BY <1>1, <3>1 DEF Progress
    <2> QED BY <2>1, <2>2
  <1> QED BY <1>5, <1>7, <1>8, <1>9

LEMMA TakeTaskKeeps ==
  ASSUME WorkflowInv, NEW c \in Calls, TakeTask(c)
  PROVE  WorkflowInv'
  <1> USE DEF WorkflowInv, Tasks
  <1> DEFINE task == Head(queue)
  <1>1. /\ pc[c] = "announced" /\ pc' = [pc EXCEPT ![c] = "task_started"]
        /\ queue # << >> /\ running' = [running EXCEPT ![c] = task]
        /\ queue' = Tail(queue) /\ lookup' = lookup \ {task}
        /\ UNCHANGED <<started, workflow, reply, outcome, removed>>
    BY DEF TakeTask, Goto, Dequeue
  <1>2. Distinct(queue) /\ queue \in Seq(Calls)
    BY DEF QueueIndexed, Distinct, TypeOK
  <1>3. /\ queue' \in Seq(Calls) /\ Distinct(queue') /\ task \in Elements(queue)
        /\ Elements(queue') = Elements(queue) \ {task}
    BY <1>1, <1>2, TailKeeps
  <1>4. task \in Calls /\ task # None /\ Queued(task)
    BY <1>1, <1>2, <1>3, HeadTailProperties, QueuedIsElement, WorkflowAssumption
  <1> HIDE DEF task
  <1>5. TypeOK'
    <2>1. statuses' \in [WorkflowIds -> WorkflowStatus \cup {None}]
      BY StatusIsTyped DEF WorkflowStatus, TakeTask
    <2> QED BY <1>1, <1>3, <1>4, <2>1 DEF TypeOK, Waits
  <1>6. \A t : Queued(t)' <=> (Queued(t) /\ t # task)
    BY <1>3 DEF Queued, Elements
  <1>7. QueueIndexed'
    <2>1. lookup' = {t \in Tasks : Queued(t)'}
      BY <1>1, <1>6 DEF QueueIndexed
    <2>2. \A i, j \in DOMAIN queue' : queue'[i] = queue'[j] => i = j
      BY <1>3 DEF Distinct
    <2> QED BY <2>1, <2>2 DEF QueueIndexed
  <1>8. running[c] = None /\ \A d \in Calls : running[d] # task
    BY <1>1, <1>4 DEF Placed, Progress
  <1>9. /\ running'[c] = task /\ \A d \in Calls \ {c} : running'[d] = running[d]
    BY <1>1 DEF TypeOK
  <1>10. Placed'
    <2>1. \A t \in Tasks : Enqueued(t)' <=> Enqueued(t)
      BY <1>1 DEF Enqueued
    <2>2. \A t \in Tasks : Enqueued(t)' => (Queued(t)' \/ t \in removed \/ \E d \in Calls : running'[d] = t)
      <3> SUFFICES ASSUME NEW t \in Tasks, Enqueued(t), ~ Queued(t)', t \notin removed
                   PROVE  \E d \in Calls : running'[d] = t
        BY <2>1
      <3>1. CASE t = task
        BY <1>9, <3>1
      <3>2. CASE t # task
        <4>1. PICK d \in Calls : running[d] = t
          BY <1>6, <3>2 DEF Placed
        <4>2. d # c
          BY <1>8, <4>1, WorkflowAssumption
        <4> QED BY <1>9, <4>1, <4>2
      <3> QED BY <3>1, <3>2
    <2>3. \A d \in Calls : running'[d] # None => (Enqueued(running'[d]) /\ ~ (Queued(running'[d]) /\ running'[d] # task))
      BY <1>4, <1>9 DEF Placed
    <2>4. \A d \in Calls : running'[d] # None => (Enqueued(running[d])' /\ ~ Queued(running[d])')
      <3> SUFFICES ASSUME NEW d \in Calls, running'[d] # None
                   PROVE  Enqueued(running[d])' /\ ~ Queued(running[d])'
        OBVIOUS
      <3>1. running'[d] \in Tasks
        BY <1>5 DEF TypeOK
      <3>2. Enqueued(running'[d]) /\ ~ (Queued(running'[d]) /\ running'[d] # task)
        BY <2>3
      <3>3. Enqueued(running[d])'
        BY <1>1, <3>2 DEF Enqueued
      <3>4. ~ Queued(running[d])'
        <4> DEFINE r == running'[d]
        <4>1. ~ (r \in Elements(queue) /\ r # task)
          BY <3>2, QueuedIsElement
        <4>2. r \notin Elements(queue')
          BY <1>3, <4>1
        <4> QED BY <4>2 DEF Queued, Elements
      <3> QED BY <3>3, <3>4
    <2>5. \A d, e \in Calls : (running'[d] # None /\ running'[d] = running'[e]) => d = e
      BY <1>8, <1>9 DEF Placed
    <2>6. \A t \in Tasks : Queued(t)' => Enqueued(t)'
      BY <1>6, <2>1 DEF Placed
    <2>7. task \notin removed /\ \A d \in Calls : running'[d] # None => running'[d] \notin removed
      BY <1>4, <1>9 DEF Placed
    <2>8. removed \subseteq Tasks /\ \A t \in removed : Enqueued(t)' /\ ~ Queued(t)'
      BY <1>6, <2>1 DEF Placed, TypeOK
    <2> QED BY <1>1, <2>2, <2>4, <2>5, <2>6, <2>7, <2>8 DEF Placed
  <1>11. ASSUME NEW d \in Calls PROVE Progress(d)'
    <2>1. CASE d = c
      <3>1. /\ pc'[d] = "task_started" /\ running'[d] # None /\ reply'[d].status # "COMPLETED"
        BY <1>1, <1>4, <1>9, <2>1 DEF TypeOK, Progress
      <3> QED BY <3>1 DEF Progress
    <2>2. CASE d # c
      <3>1. pc'[d] = pc[d] /\ running'[d] = running[d]
        BY <1>1, <1>9, <2>2 DEF TypeOK
      <3> QED BY <1>1, <3>1 DEF Progress
    <2> QED BY <2>1, <2>2
  <1> QED BY <1>5, <1>7, <1>10, <1>11

LEMMA DispatchKeeps ==
  ASSUME WorkflowInv, NEW c \in Calls, DispatchReturns(c)
  PROVE  WorkflowInv'
  <1> USE DEF WorkflowInv, Tasks
  <1> PICK o \in Outcomes :
         /\ outcome' = [outcome EXCEPT ![running[c]] = o]
         /\ IF o = "SUCCEEDED" THEN Goto(c, "task_completed") /\ UNCHANGED statuses ELSE Fail(c)
    BY DEF DispatchReturns
  <1>1. /\ pc[c] = "dispatching" /\ running[c] # None /\ running[c] \in Calls
        /\ UNCHANGED <<started, queue, lookup, workflow, running, reply, removed>>
    BY DEF DispatchReturns, Progress, TypeOK
  <1>2. PICK to \in {"task_completed", "failing"} :
          /\ pc' = [pc EXCEPT ![c] = to]
          /\ to = "task_completed" => o = "SUCCEEDED"
    BY DEF Goto, Fail
  <1>3. statuses' \in [WorkflowIds -> WorkflowStatus \cup {None}]
    <2>1. CASE o = "SUCCEEDED"
      BY <2>1 DEF TypeOK
    <2>2. CASE o # "SUCCEEDED"
      BY <2>2, StatusIsTyped DEF Fail, WorkflowStatus
    <2> QED BY <2>1, <2>2
  <1>4. outcome' \in [Tasks -> Outcomes \cup {None}] /\ pc' \in [Calls -> Waits]
    BY <1>1, <1>2 DEF TypeOK, Waits
  <1>5. TypeOK'
    BY <1>1, <1>3, <1>4 DEF TypeOK
  <1>6. QueueIndexed' /\ Placed'
    BY <1>1, PlacesKept
  <1>7. ASSUME NEW d \in Calls PROVE Progress(d)'
    <2>1. CASE d = c
      <3>1. /\ pc'[d] = to /\ running'[d] = running[c] /\ outcome'[running[c]] = o
            /\ reply'[d].status # "COMPLETED"
        BY <1>1, <1>2, <2>1 DEF TypeOK, Progress
      <3> QED BY <1>1, <1>2, <3>1 DEF Progress
    <2>2. CASE d # c
      <3>1. /\ pc'[d] = pc[d] /\ running'[d] = running[d] /\ reply'[d] = reply[d] /\ workflow'[d] = workflow[d]
        BY <1>1, <1>2, <2>2 DEF TypeOK
      <3>2. running[d] # None => outcome'[running[d]] = outcome[running[d]]
        BY <1>1, <2>2 DEF Placed, TypeOK
      <3> QED BY <3>1, <3>2 DEF Progress
    <2> QED BY <2>1, <2>2
  <1> QED BY <1>5, <1>6, <1>7

LEMMA RemoveKeeps ==
  ASSUME WorkflowInv, NEW t \in Tasks, Remove(t)
  PROVE  WorkflowInv'
  <1> USE DEF WorkflowInv, Tasks
  <1>1. /\ t \in lookup /\ queue' = Kept(queue, t)[Len(queue)] /\ lookup' = lookup \ {t}
        /\ removed' = removed \cup {t}
        /\ UNCHANGED <<started, statuses, pc, workflow, running, reply, outcome>>
    BY DEF Remove
  <1>2. Distinct(queue) /\ queue \in Seq(Calls) /\ Queued(t)
    BY <1>1 DEF QueueIndexed, Distinct, TypeOK
  <1>3. queue' \in Seq(Calls) /\ Distinct(queue') /\ Elements(queue') = Elements(queue) \ {t}
    BY <1>1, <1>2, KeptKeeps
  <1>4. \A u : Queued(u)' <=> (Queued(u) /\ u # t)
    BY <1>3 DEF Queued, Elements
  <1>5. TypeOK'
    BY <1>1, <1>3 DEF TypeOK
  <1>6. QueueIndexed'
    <2>1. lookup' = {u \in Tasks : Queued(u)'}
      BY <1>1, <1>4 DEF QueueIndexed
    <2>2. \A i, j \in DOMAIN queue' : queue'[i] = queue'[j] => i = j
      BY <1>3 DEF Distinct
    <2> QED BY <2>1, <2>2 DEF QueueIndexed
  <1>7. Placed'
    <2>1. \A u : Enqueued(u)' <=> Enqueued(u)
      BY <1>1 DEF Enqueued
    <2>2. \A u \in removed' : Enqueued(u)' /\ ~ Queued(u)'
      BY <1>1, <1>2, <1>4, <2>1 DEF Placed
    <2>3. \A u \in Tasks : Queued(u)' => Enqueued(u)'
      BY <1>4, <2>1 DEF Placed
    <2>4. \A u \in Tasks : Enqueued(u)' => (Queued(u)' \/ u \in removed' \/ \E c \in Calls : running'[c] = u)
      BY <1>1, <1>4, <2>1 DEF Placed
    <2>5. ASSUME NEW c \in Calls, running'[c] # None
          PROVE  Enqueued(running[c])' /\ ~ Queued(running[c])' /\ running'[c] \notin removed'
      <3>1. Enqueued(running[c]) /\ ~ Queued(running[c]) /\ running[c] \notin removed /\ running[c] # t
        BY <1>1, <1>2, <2>5 DEF Placed
      <3>2. running[c] \notin Elements(queue')
        BY <1>3, <3>1, QueuedIsElement
      <3>3. ~ Queued(running[c])'
        BY <1>1, <3>2 DEF Queued, Elements
      <3> QED BY <1>1, <3>1, <3>3 DEF Enqueued
    <2>6. \A c, d \in Calls : (running'[c] # None /\ running'[c] = running'[d]) => c = d
      BY <1>1 DEF Placed
    <2> QED BY <2>2, <2>3, <2>4, <2>5, <2>6 DEF Placed
  <1>8. \A c \in Calls : Progress(c)'
    BY <1>1 DEF Progress
  <1> QED BY <1>5, <1>6, <1>7, <1>8

\* The control calls write the status table and start and shutdown a flag.
LEMMA ControlKeeps ==
  ASSUME WorkflowInv, statuses' \in [WorkflowIds -> WorkflowStatus \cup {None}], started' \in BOOLEAN,
         UNCHANGED <<queue, lookup, pc, workflow, running, reply, outcome, removed>>
  PROVE  WorkflowInv'
  <1>1. TypeOK'
    BY DEF WorkflowInv, TypeOK
  <1>2. QueueIndexed' /\ Placed'
    BY PlacesKept DEF WorkflowInv
  <1>3. \A c \in Calls : Progress(c)'
    BY DEF WorkflowInv, Progress
  <1> QED BY <1>1, <1>2, <1>3 DEF WorkflowInv

LEMMA SubmitStepKeeps ==
  ASSUME WorkflowInv, NEW c \in Calls, SubmitStep(c)
  PROVE  WorkflowInv'
  <1>0. /\ statuses \in [WorkflowIds -> WorkflowStatus \cup {None}]
        /\ Progress(c) /\ TypeOK
    BY DEF WorkflowInv, TypeOK
  <1>1. CASE AnnounceStarted(c)
    <2>1. /\ Goto(c, "announced") /\ pc[c] = "queued" /\ running[c] = None /\ statuses' = statuses /\ reply' = reply
          /\ UNCHANGED <<started, queue, lookup, workflow, running, outcome, removed>>
      BY <1>0, <1>1 DEF AnnounceStarted, Progress
    <2> QED BY <1>0, <2>1, CallMoves DEF Waits
  <1>2. CASE TakeTask(c)
    BY <1>2, TakeTaskKeeps
  <1>3. CASE QueueEmpty(c)
    <2>1. /\ Goto(c, "failing") /\ pc[c] = "announced" /\ reply' = reply
          /\ statuses' \in [WorkflowIds -> WorkflowStatus \cup {None}]
          /\ UNCHANGED <<started, queue, lookup, workflow, running, outcome, removed>>
      BY <1>0, <1>3, StatusIsTyped DEF QueueEmpty, Fail, WorkflowStatus
    <2> QED BY <2>1, CallMoves DEF Waits
  <1>4. CASE DispatchTask(c)
    <2>1. /\ Goto(c, "dispatching") /\ pc[c] = "task_started" /\ running[c] # None /\ statuses' = statuses /\ reply' = reply
          /\ UNCHANGED <<started, queue, lookup, workflow, running, outcome, removed>>
      BY <1>0, <1>4 DEF DispatchTask, Progress
    <2> QED BY <1>0, <2>1, CallMoves DEF Waits
  <1>5. CASE DispatchReturns(c)
    BY <1>5, DispatchKeeps
  <1>6. CASE AnnounceCompleted(c)
    <2>1. /\ Goto(c, "completing") /\ pc[c] = "task_completed" /\ running[c] # None /\ statuses' = statuses /\ reply' = reply
          /\ outcome[running[c]] = "SUCCEEDED"
          /\ UNCHANGED <<started, queue, lookup, workflow, running, outcome, removed>>
      BY <1>0, <1>6 DEF AnnounceCompleted, Progress
    <2> QED BY <1>0, <2>1, CallMoves DEF Waits
  <1>7. CASE Complete(c)
    <2>1. /\ Goto(c, "returned") /\ pc[c] = "completing"
          /\ reply' = [reply EXCEPT ![c] = [status |-> "COMPLETED", from |-> running[c]]]
          /\ statuses' \in [WorkflowIds -> WorkflowStatus \cup {None}]
          /\ UNCHANGED <<started, queue, lookup, workflow, running, outcome, removed>>
      BY <1>0, <1>7, StatusIsTyped DEF Complete, WorkflowStatus
    <2> QED BY <2>1, CallMoves DEF Waits
  <1>8. CASE FailReturns(c)
    <2>1. /\ Goto(c, "returned") /\ pc[c] = "failing" /\ statuses' = statuses
          /\ reply' = [reply EXCEPT ![c] = [status |-> "FAILED", from |-> None]]
          /\ UNCHANGED <<started, queue, lookup, workflow, running, outcome, removed>>
      BY <1>8 DEF FailReturns
    <2> QED BY <1>0, <2>1, CallMoves DEF Waits
  <1>9. CASE PublishRaises(c)
    <2>1. /\ Goto(c, "failing") /\ pc[c] # "returned" /\ reply' = reply
          /\ statuses' \in [WorkflowIds -> WorkflowStatus \cup {None}]
          /\ UNCHANGED <<started, queue, lookup, workflow, running, outcome, removed>>
      BY <1>0, <1>9, StatusIsTyped DEF PublishRaises, Fail, WorkflowStatus
    <2> QED BY <2>1, CallMoves DEF Waits
  <1>10. CASE FailRaises(c)
    <2>1. /\ Goto(c, "raised") /\ pc[c] # "returned" /\ reply' = reply /\ statuses' = statuses
          /\ UNCHANGED <<started, queue, lookup, workflow, running, outcome, removed>>
      BY <1>10 DEF FailRaises
    <2> QED BY <1>0, <2>1, CallMoves DEF Waits
  <1> QED
    BY <1>1, <1>2, <1>3, <1>4, <1>5, <1>6, <1>7, <1>8, <1>9, <1>10 DEF SubmitStep, OwnStep

LEMMA WorkflowInvStep ==
  WorkflowInv /\ [Next]_vars => WorkflowInv'
  <1> SUFFICES ASSUME WorkflowInv, [Next]_vars PROVE WorkflowInv'
    OBVIOUS
  <1>0. TypeOK /\ statuses \in [WorkflowIds -> WorkflowStatus \cup {None}] /\ started \in BOOLEAN
    BY DEF WorkflowInv, TypeOK
  <1>1. ASSUME NEW c \in Calls, Submit(c) PROVE WorkflowInv'
    BY <1>1, SubmitKeeps
  <1>2. ASSUME NEW c \in Calls, SubmitInvalid(c) PROVE WorkflowInv'
    <2>1. /\ Goto(c, "raised") /\ pc[c] # "returned" /\ reply' = reply /\ statuses' = statuses
          /\ UNCHANGED <<started, queue, lookup, workflow, running, outcome, removed>>
      BY <1>2 DEF SubmitInvalid
    <2> QED BY <1>0, <2>1, CallMoves DEF Waits
  <1>3. ASSUME NEW c \in Calls, SubmitStep(c) PROVE WorkflowInv'
    BY <1>3, SubmitStepKeeps
  <1>4. ASSUME NEW t \in Tasks, Remove(t) PROVE WorkflowInv'
    BY <1>4, RemoveKeeps
  <1>5. ASSUME NEW w \in WorkflowIds, Cancel(w) \/ Pause(w) \/ Resume(w) PROVE WorkflowInv'
    <2>1. /\ UNCHANGED <<started, queue, lookup, pc, workflow, running, reply, outcome, removed>>
          /\ SetStatus(w, "CANCELLED") \/ SetStatus(w, "PAUSED") \/ SetStatus(w, "RUNNING")
      BY <1>5 DEF Cancel, Pause, Resume, Control
    <2>2. statuses' \in [WorkflowIds -> WorkflowStatus \cup {None}]
      BY <1>0, <2>1, StatusIsTyped DEF WorkflowStatus
    <2> QED BY <1>0, <2>1, <2>2, ControlKeeps
  <1>6. CASE StartOrShutdown
    BY <1>0, <1>6, ControlKeeps DEF StartOrShutdown
  <1>7. CASE UNCHANGED vars
    BY <1>0, <1>7, ControlKeeps DEF vars
  <1> QED BY <1>1, <1>2, <1>3, <1>4, <1>5, <1>6, <1>7 DEF Next

-----------------------------------------------------------------------------
(***************************************************************************)
(* The theorems.                                                           *)
(***************************************************************************)
LEMMA WorkflowInvHolds ==
  Spec => []WorkflowInv
  BY WorkflowInvInit, WorkflowInvStep, PTL DEF Spec

\* The engine's variables keep their types; the queue holds tasks only.
THEOREM WorkflowTypes ==
  Spec => []TypeOK
  <1>1. WorkflowInv => TypeOK
    BY DEF WorkflowInv
  <1> QED BY <1>1, WorkflowInvHolds, PTL

\* However many calls are in flight, the queue's list and its lookup table hold the
\* same tasks, each once (workflow/queue.py:17-27).
THEOREM QueueStaysIndexed ==
  Spec => []QueueIndexed
  <1>1. WorkflowInv => QueueIndexed
    BY DEF WorkflowInv
  <1> QED BY <1>1, WorkflowInvHolds, PTL

\* No interleaving of submits loses a task or gives it to two calls, although each
\* call takes the oldest task and not its own (workflow/manager.py:80-92).
THEOREM NoTaskIsLost ==
  Spec => []TaskConservation
  <1>1. WorkflowInv => TaskConservation
    <2> SUFFICES ASSUME WorkflowInv, NEW t \in Tasks
                 PROVE  /\ Enqueued(t) => (Queued(t) \/ t \in removed \/ Takers(t) # {})
                        /\ \A c, d \in Takers(t) : c = d
                        /\ Takers(t) # {} => (Enqueued(t) /\ ~ Queued(t) /\ t \notin removed)
      BY DEF TaskConservation
    <2>1. t # None
      BY WorkflowAssumption DEF Tasks
    <2> QED BY <2>1 DEF WorkflowInv, Placed, Takers
  <1> QED BY <1>1, WorkflowInvHolds, PTL

\* A COMPLETED reply carries the result of a task that the execution service
\* answered SUCCEEDED, whoever submitted it (workflow/executor.py, manager.py:101-110).
THEOREM RepliesAreHonest ==
  Spec => []HonestReply
  <1>1. WorkflowInv => HonestReply
    BY DEF WorkflowInv, HonestReply, Progress
  <1> QED BY <1>1, WorkflowInvHolds, PTL

-----------------------------------------------------------------------------
(***************************************************************************)
(* The exchange of tasks.                                                  *)
(***************************************************************************)
\* A task is executed by the call that has it and not before, and a call has a reply
\* when it has returned.
Executed ==
    /\ \A t \in Tasks : outcome[t] # None => \E c \in Calls : running[c] = t
    /\ \A c \in Calls :
          /\ pc[c] \notin {"idle", "raised"} => workflow[c] # None
          /\ pc[c] \in {"task_started", "dispatching"} => outcome[running[c]] = None
          /\ pc[c] # "returned" => reply[c] = NoReply

LEMMA ExecutedInit == Init => Executed
  BY DEF Init, Executed, Tasks

\* A step that leaves tasks where they are and executes none.
LEMMA ExecutedKept ==
  ASSUME WorkflowInv, Executed, NEW c \in Calls, NEW to \in Waits, Goto(c, to),
         UNCHANGED <<workflow, running, outcome>>,
         to # "idle",
         to # "raised" => workflow[c] # None,
         to = "dispatching" => pc[c] = "task_started",
         to # "task_started",
         \A d \in Calls : (d # c \/ to # "returned") => reply'[d] = reply[d],
         pc[c] # "returned"
  PROVE  Executed'
  <1>1. \A d \in Calls : pc'[d] = IF d = c THEN to ELSE pc[d]
    BY DEF WorkflowInv, TypeOK, Goto
  <1>2. \A t \in Tasks : outcome'[t] # None => \E d \in Calls : running'[d] = t
    BY DEF Executed
  <1>3. ASSUME NEW d \in Calls
        PROVE  /\ pc'[d] \notin {"idle", "raised"} => workflow'[d] # None
               /\ pc'[d] \in {"task_started", "dispatching"} => outcome'[running'[d]] = None
               /\ pc'[d] # "returned" => reply'[d] = NoReply
    <2>1. CASE d = c
      BY <1>1, <2>1 DEF Executed
    <2>2. CASE d # c
      BY <1>1, <2>2 DEF Executed
    <2> QED BY <2>1, <2>2
  <1> QED BY <1>2, <1>3 DEF Executed

LEMMA ExecutedStep ==
  ASSUME WorkflowInv, WorkflowInv', Executed, [Next]_vars
  PROVE  Executed'
  <1>0. TypeOK /\ \A c \in Calls : Progress(c)
    BY DEF WorkflowInv
  <1>1. ASSUME NEW c \in Calls, Submit(c) PROVE Executed'
    <2> PICK w \in WorkflowIds : workflow' = [workflow EXCEPT ![c] = w]
      BY <1>1 DEF Submit
    <2>1. /\ pc[c] = "idle" /\ pc' = [pc EXCEPT ![c] = "queued"] /\ UNCHANGED <<running, reply, outcome>>
      BY <1>1 DEF Submit, Goto
    <2>2. w # None
      BY WorkflowAssumption
    <2>3. \A d \in Calls : /\ pc'[d] = IF d = c THEN "queued" ELSE pc[d]
                           /\ workflow'[d] = IF d = c THEN w ELSE workflow[d]
      BY <1>0, <2>1 DEF TypeOK
    <2> QED BY <2>1, <2>2, <2>3 DEF Executed
  <1>2. ASSUME NEW c \in Calls, TakeTask(c) PROVE Executed'
    <2>1. /\ pc[c] = "announced" /\ pc' = [pc EXCEPT ![c] = "task_started"]
          /\ running' = [running EXCEPT ![c] = Head(queue)] /\ queue # << >>
          /\ UNCHANGED <<workflow, reply, outcome>>
      BY <1>2 DEF TakeTask, Goto
    <2>2. Distinct(queue) /\ queue \in Seq(Calls)
      BY DEF WorkflowInv, QueueIndexed, Distinct, TypeOK, Tasks
    <2>3. Head(queue) \in Elements(queue) /\ Head(queue) \in Calls
      BY <2>1, <2>2, TailKeeps, HeadTailProperties
    <2>4. Queued(Head(queue))
      BY <2>3, QueuedIsElement
    <2>5. outcome[Head(queue)] = None
      <3> SUFFICES ASSUME outcome[Head(queue)] # None PROVE FALSE
        OBVIOUS
      <3>1. PICK d \in Calls : running[d] = Head(queue)
        BY <2>3 DEF Executed, Tasks
      <3>2. running[d] # None
        BY <2>3, <3>1, WorkflowAssumption
      <3> QED BY <2>4, <3>1, <3>2 DEF WorkflowInv, Placed
    <2>6. \A d \in Calls : /\ pc'[d] = IF d = c THEN "task_started" ELSE pc[d]
                           /\ running'[d] = IF d = c THEN Head(queue) ELSE running[d]
      BY <1>0, <2>1 DEF TypeOK
    <2>7. running[c] = None
      BY <1>0, <2>1 DEF Progress
    <2>8. \A t \in Tasks : outcome'[t] # None => \E d \in Calls : running'[d] = t
      <3> SUFFICES ASSUME NEW t \in Tasks, outcome[t] # None PROVE \E d \in Calls : running'[d] = t
        BY <2>1
      <3>1. PICK d \in Calls : running[d] = t
        BY DEF Executed
      <3>2. d # c
        BY <2>7, <3>1, WorkflowAssumption DEF Tasks
      <3> QED BY <2>6, <3>1, <3>2
    <2> QED BY <2>1, <2>5, <2>6, <2>8 DEF Executed
  <1>3. ASSUME NEW c \in Calls, DispatchReturns(c) PROVE Executed'
    <2> PICK o \in Outcomes :
           /\ outcome' = [outcome EXCEPT ![running[c]] = o]
           /\ IF o = "SUCCEEDED" THEN Goto(c, "task_completed") /\ UNCHANGED statuses ELSE Fail(c)
      BY <1>3 DEF DispatchReturns
    <2>1. PICK to \in {"task_completed", "failing"} : pc' = [pc EXCEPT ![c] = to]
      BY DEF Goto, Fail
    <2>2. /\ pc[c] = "dispatching" /\ UNCHANGED <<workflow, running, reply>>
          /\ running[c] # None /\ running[c] \in Tasks
      BY <1>0, <1>3 DEF DispatchReturns, Progress, TypeOK
    <2>3. \A t \in Tasks : outcome'[t] # None => \E d \in Calls : running'[d] = t
      BY <1>0, <2>2 DEF Executed, TypeOK
    <2>4. ASSUME NEW d \in Calls
          PROVE  /\ pc'[d] \notin {"idle", "raised"} => workflow'[d] # None
                 /\ pc'[d] \in {"task_started", "dispatching"} => outcome'[running'[d]] = None
                 /\ pc'[d] # "returned" => reply'[d] = NoReply
      <3>1. CASE d = c
        <4>1. pc'[d] = to
          BY <1>0, <2>1, <3>1 DEF TypeOK
        <4> QED BY <2>2, <3>1, <4>1 DEF Executed
      <3>2. CASE d # c
        <4>1. pc'[d] = pc[d]
          BY <1>0, <2>1, <3>2 DEF TypeOK
        <4>2. pc[d] \in {"task_started", "dispatching"} => (running[d] # None /\ running[d] # running[c])
          BY <1>0, <2>2, <3>2 DEF Progress, WorkflowInv, Placed
        <4>3. pc[d] \in {"task_started", "dispatching"} => outcome'[running[d]] = outcome[running[d]]
          BY <1>0, <4>2 DEF TypeOK
        <4> QED BY <2>2, <4>1, <4>3 DEF Executed
      <3> QED BY <3>1, <3>2
    <2> QED BY <2>3, <2>4 DEF Executed
  <1>4. ASSUME NEW c \in Calls,
               \/ SubmitInvalid(c) \/ AnnounceStarted(c) \/ QueueEmpty(c) \/ DispatchTask(c)
               \/ AnnounceCompleted(c) \/ Complete(c) \/ FailReturns(c) \/ PublishRaises(c) \/ FailRaises(c)
        PROVE  Executed'
    <2>1. UNCHANGED <<workflow, running, outcome>> /\ pc[c] # "returned"
      BY <1>4 DEF SubmitInvalid, AnnounceStarted, QueueEmpty, DispatchTask, AnnounceCompleted, Complete,
                  FailReturns, PublishRaises, FailRaises
    <2>2. \E to \in {"announced", "failing", "dispatching", "completing", "returned", "raised"} :
             /\ Goto(c, to)
             /\ to # "raised" => pc[c] \notin {"idle", "raised"}
             /\ to = "dispatching" => pc[c] = "task_started"
             /\ \/ reply' = reply
                \/ to = "returned" /\ \E r : reply' = [reply EXCEPT ![c] = r]
      <3>1. CASE SubmitInvalid(c) \/ FailRaises(c)
        BY <3>1 DEF SubmitInvalid, FailRaises
      <3>2. CASE AnnounceStarted(c) \/ DispatchTask(c) \/ AnnounceCompleted(c)
        BY <3>2 DEF AnnounceStarted, DispatchTask, AnnounceCompleted
      <3>3. CASE QueueEmpty(c) \/ PublishRaises(c)
        BY <3>3 DEF QueueEmpty, PublishRaises, Fail
      <3>4. CASE Complete(c)
        BY <3>4 DEF Complete
      <3>5. CASE FailReturns(c)
        BY <3>5 DEF FailReturns
      <3> QED BY <1>4, <3>1, <3>2, <3>3, <3>4, <3>5
    <2>3. PICK to \in {"announced", "failing", "dispatching", "completing", "returned", "raised"} :
             /\ Goto(c, to)
             /\ to # "raised" => pc[c] \notin {"idle", "raised"}
             /\ to = "dispatching" => pc[c] = "task_started"
             /\ \/ reply' = reply
                \/ to = "returned" /\ \E r : reply' = [reply EXCEPT ![c] = r]
      BY <2>2
    <2>4. \A d \in Calls : (d # c \/ to # "returned") => reply'[d] = reply[d]
      BY <1>0, <2>3 DEF TypeOK
    <2>5. to # "raised" => workflow[c] # None
      BY <2>3 DEF Executed
    <2> QED BY <2>1, <2>3, <2>4, <2>5, ExecutedKept DEF Waits
  <1>5. CASE UNCHANGED <<pc, workflow, running, reply, outcome>>
    BY <1>5 DEF Executed
  <1>6. ASSUME NEW t \in Tasks, Remove(t) PROVE Executed'
    BY <1>5, <1>6 DEF Remove
  <1>7. ASSUME NEW w \in WorkflowIds, Cancel(w) \/ Pause(w) \/ Resume(w) PROVE Executed'
    BY <1>5, <1>7 DEF Cancel, Pause, Resume, Control
  <1>8. CASE StartOrShutdown
    BY <1>5, <1>8 DEF StartOrShutdown
  <1>9. CASE UNCHANGED vars
    BY <1>5, <1>9 DEF vars
  <1> QED BY <1>1, <1>2, <1>3, <1>4, <1>6, <1>7, <1>8, <1>9 DEF Next, SubmitStep, OwnStep

\* How the step of a call looks to those who submit: what becomes of a task, of what
\* a call was given and of its answer.
TaskOf(t) ==
    IF workflow[t] = None THEN "new"
    ELSE IF t \in lookup THEN "waiting"
    ELSE IF t \in removed THEN "dropped"
    ELSE IF outcome[t] = None THEN "given"
    ELSE IF outcome[t] = "SUCCEEDED" THEN "succeeded" ELSE "failed"
AnswerOf(c) == IF pc[c] = "raised" THEN [status |-> "RAISED", from |-> None] ELSE reply[c]

LEMMA BarsAre ==
  /\ taskBar = [t \in Calls |-> TaskOf(t)] /\ taskBar' = [t \in Calls |-> TaskOf(t)']
  /\ answerBar = [c \in Calls |-> AnswerOf(c)] /\ answerBar' = [c \in Calls |-> AnswerOf(c)']
  BY DEF taskBar, answerBar, TaskOf, AnswerOf

\* A call that has neither returned nor raised is open.
LEMMA OpenCalls ==
  ASSUME Executed, NEW c \in Calls, pc[c] \notin {"returned", "raised"}
  PROVE  Exchange!Open(c)
  <1>1. AnswerOf(c) = NoReply
    BY DEF AnswerOf, Executed
  <1> QED BY <1>1, BarsAre DEF Exchange!Open, Exchange!NoAnswer, NoReply

\* Where the invariant puts a task.
LEMMA WhereTasksAre ==
  ASSUME WorkflowInv, Executed
  PROVE  /\ \A t \in Calls : t \in lookup => TaskOf(t) = "waiting"
         /\ \A c \in Calls : running[c] # None =>
               /\ running[c] \in Calls /\ workflow[running[c]] # None
               /\ running[c] \notin lookup /\ running[c] \notin removed
         /\ \A c \in Calls : workflow[c] # None => TaskOf(c) # "new"
  <1>1. \A t \in Calls : t \in lookup => (Queued(t) /\ Enqueued(t))
    BY DEF WorkflowInv, QueueIndexed, Placed, Tasks
  <1>2. \A c \in Calls : running[c] # None => running[c] \in Calls
    BY DEF WorkflowInv, TypeOK, Tasks
  <1>3. \A c \in Calls : running[c] # None => (Enqueued(running[c]) /\ ~ Queued(running[c]) /\ running[c] \notin removed)
    BY DEF WorkflowInv, Placed
  <1>4. \A t \in Calls : t \in lookup => TaskOf(t) = "waiting"
    BY <1>1 DEF TaskOf, Enqueued
  <1>5. \A c \in Calls : workflow[c] # None => TaskOf(c) # "new"
    BY DEF TaskOf
  <1>6. \A c \in Calls : running[c] # None =>
               /\ running[c] \in Calls /\ workflow[running[c]] # None
               /\ running[c] \notin lookup /\ running[c] \notin removed
    <2> SUFFICES ASSUME NEW c \in Calls, running[c] # None
                 PROVE  /\ running[c] \in Calls /\ workflow[running[c]] # None
                        /\ running[c] \notin lookup /\ running[c] \notin removed
      OBVIOUS
    <2>1. PICK r \in Calls : r = running[c]
      BY <1>2
    <2>2. Enqueued(r) /\ ~ Queued(r) /\ r \notin removed
      BY <1>3, <2>1
    <2> QED BY <1>1, <2>1, <2>2 DEF Enqueued
  <1> QED BY <1>4, <1>5, <1>6

\* Steps that move tasks nowhere and answer nothing.
LEMMA StutterStep ==
  ASSUME UNCHANGED <<lookup, workflow, running, outcome, removed>>,
         \A c \in Calls : AnswerOf(c)' = AnswerOf(c)
  PROVE  UNCHANGED <<taskBar, running, answerBar>>
  <1>1. \A t \in Calls : TaskOf(t)' = TaskOf(t)
    BY DEF TaskOf
  <1> QED BY <1>1, BarsAre

LEMMA ExchangeStep ==
  ASSUME WorkflowInv, WorkflowInv', Executed, Executed', [Next]_vars
  PROVE  [Exchange!ExchangeNext]_<<taskBar, running, answerBar>>
  <1>0. /\ TypeOK /\ TypeOK' /\ \A c \in Calls : Progress(c)
        /\ pc \in [Calls -> Waits]
    BY DEF WorkflowInv, TypeOK
  <1> USE DEF Exchange!ExchangeNext
  <1>1. ASSUME NEW c \in Calls, Submit(c) PROVE Exchange!HandIn(c)
    <2> PICK w \in WorkflowIds : workflow' = [workflow EXCEPT ![c] = w] /\ Enqueue(c)
      BY <1>1 DEF Submit
    <2>1. /\ pc[c] = "idle" /\ pc' = [pc EXCEPT ![c] = "queued"] /\ lookup' = lookup \cup {c}
          /\ UNCHANGED <<running, reply, outcome, removed>>
      BY <1>1 DEF Submit, Goto, Enqueue
    <2>2. w # None /\ workflow[c] = None
      BY <1>0, <2>1, WorkflowAssumption DEF Progress
    <2>3. Exchange!Open(c) /\ TaskOf(c) = "new" /\ TaskOf(c)' = "waiting"
      BY <1>0, <2>1, <2>2, OpenCalls DEF TaskOf, TypeOK
    <2>4. \A t \in Calls : t # c => TaskOf(t)' = TaskOf(t)
      BY <1>0, <2>1 DEF TaskOf, TypeOK
    <2>5. \A d \in Calls : AnswerOf(d)' = AnswerOf(d)
      BY <1>0, <2>1 DEF AnswerOf
    <2> QED BY <2>1, <2>3, <2>4, <2>5, BarsAre DEF Exchange!HandIn
  <1>2. ASSUME NEW t \in Calls, Remove(t) PROVE Exchange!Drop(t)
    <2>1. /\ t \in lookup /\ lookup' = lookup \ {t} /\ removed' = removed \cup {t}
          /\ UNCHANGED <<pc, workflow, running, reply, outcome>>
      BY <1>2 DEF Remove
    <2>2. TaskOf(t) = "waiting" /\ TaskOf(t)' = "dropped"
      BY <2>1, WhereTasksAre DEF TaskOf
    <2>3. \A u \in Calls : u # t => TaskOf(u)' = TaskOf(u)
      BY <2>1 DEF TaskOf
    <2>4. \A d \in Calls : AnswerOf(d)' = AnswerOf(d)
      BY <2>1 DEF AnswerOf
    <2> QED BY <2>1, <2>2, <2>3, <2>4, BarsAre DEF Exchange!Drop
  <1>3. ASSUME NEW c \in Calls, TakeTask(c) PROVE \E t \in Calls : Exchange!Give(c, t)
    <2>1. /\ pc[c] = "announced" /\ pc' = [pc EXCEPT ![c] = "task_started"]
          /\ running' = [running EXCEPT ![c] = Head(queue)] /\ queue # << >> /\ lookup' = lookup \ {Head(queue)}
          /\ UNCHANGED <<workflow, reply, outcome, removed>>
      BY <1>3 DEF TakeTask, Goto, Dequeue
    <2>2. Distinct(queue) /\ queue \in Seq(Calls)
      BY DEF WorkflowInv, QueueIndexed, Distinct, TypeOK, Tasks
    <2>3. PICK t \in Calls : t = Head(queue) /\ t \in lookup
      BY <2>1, <2>2, TailKeeps, HeadTailProperties, QueuedIsElement DEF WorkflowInv, QueueIndexed, Tasks
    <2>4. running'[c] = t /\ t # None
      BY <1>0, <2>1, <2>3, WorkflowAssumption DEF TypeOK
    <2>5. /\ workflow'[t] # None /\ t \notin lookup' /\ t \notin removed' /\ pc'[c] = "task_started"
      BY <1>0, <2>1, <2>3, <2>4, WhereTasksAre DEF TaskOf, TypeOK, WorkflowInv, Placed, Enqueued
    <2>6. outcome'[t] = None
      BY <2>4, <2>5 DEF Executed
    <2>7. TaskOf(t) = "waiting" /\ TaskOf(t)' = "given"
      BY <2>3, <2>5, <2>6, WhereTasksAre DEF TaskOf
    <2>8. \A u \in Calls : u # t => TaskOf(u)' = TaskOf(u)
      BY <2>1, <2>3 DEF TaskOf
    <2>9. \A d \in Calls : AnswerOf(d)' = AnswerOf(d)
      BY <1>0, <2>1 DEF AnswerOf
    <2>10. Exchange!Open(c) /\ TaskOf(c) # "new" /\ running[c] = None
      BY <1>0, <2>1, OpenCalls, WhereTasksAre DEF Executed, Progress
    <2>11. Exchange!Give(c, t)
      BY <2>1, <2>3, <2>7, <2>8, <2>9, <2>10, BarsAre DEF Exchange!Give
    <2> QED BY <2>3, <2>11
  <1>4. ASSUME NEW c \in Calls, DispatchReturns(c) PROVE Exchange!Execute(c)
    <2> PICK o \in Outcomes :
           /\ outcome' = [outcome EXCEPT ![running[c]] = o]
           /\ IF o = "SUCCEEDED" THEN Goto(c, "task_completed") /\ UNCHANGED statuses ELSE Fail(c)
      BY <1>4 DEF DispatchReturns
    <2>1. PICK to \in {"task_completed", "failing"} : pc' = [pc EXCEPT ![c] = to]
      BY DEF Goto, Fail
    <2>2. /\ pc[c] = "dispatching" /\ UNCHANGED <<lookup, workflow, running, reply, removed>> /\ running[c] # None
      BY <1>0, <1>4 DEF DispatchReturns, Progress
    <2>3. PICK r \in Calls : r = running[c] /\ workflow[r] # None /\ r \notin lookup /\ r \notin removed
      BY <2>2, WhereTasksAre
    <2>4. TaskOf(r) = "given"
      BY <2>2, <2>3 DEF TaskOf, Executed
    <2>5. outcome'[r] = o /\ o # None /\ \A u \in Calls : u # r => outcome'[u] = outcome[u]
      BY <1>0, <2>3, WorkflowAssumption DEF TypeOK, Tasks
    <2>6. TaskOf(r)' = (IF o = "SUCCEEDED" THEN "succeeded" ELSE "failed")
      BY <2>2, <2>3, <2>5 DEF TaskOf
    <2>7. \A u \in Calls : u # r => TaskOf(u)' = TaskOf(u)
      BY <2>2, <2>5 DEF TaskOf
    <2>8. \A d \in Calls : AnswerOf(d)' = AnswerOf(d)
      BY <1>0, <2>1, <2>2 DEF AnswerOf
    <2>9. Exchange!Open(c)
      BY <2>2, OpenCalls
    <2>10. PICK end \in {"succeeded", "failed"} : TaskOf(r)' = end
      BY <2>6
    <2>11. taskBar' = [taskBar EXCEPT ![r] = end] /\ taskBar[r] = "given" /\ answerBar' = answerBar
      BY <2>4, <2>7, <2>8, <2>10, BarsAre
    <2> QED BY <2>2, <2>3, <2>9, <2>11 DEF Exchange!Execute
  <1>5. ASSUME NEW c \in Calls, Complete(c) \/ FailReturns(c) PROVE Exchange!Return(c)
    <2>1. /\ pc[c] \in {"completing", "failing"} /\ pc' = [pc EXCEPT ![c] = "returned"]
          /\ UNCHANGED <<lookup, workflow, running, outcome, removed>>
      BY <1>5 DEF Complete, FailReturns, Goto
    <2>2. Exchange!Open(c) /\ TaskOf(c) # "new"
      BY <2>1, OpenCalls, WhereTasksAre DEF Executed
    <2>3. taskBar' = taskBar
      BY <2>1, BarsAre DEF TaskOf
    <2>4. \A d \in Calls : pc'[d] = IF d = c THEN "returned" ELSE pc[d]
      BY <1>0, <2>1
    <2>5. CASE Complete(c)
      <3>1. /\ reply' = [reply EXCEPT ![c] = [status |-> "COMPLETED", from |-> running[c]]] /\ pc[c] = "completing"
        BY <2>5 DEF Complete
      <3>2. \A d \in Calls : AnswerOf(d)' = IF d = c THEN [status |-> "COMPLETED", from |-> running[c]] ELSE AnswerOf(d)
        BY <1>0, <2>4, <3>1 DEF AnswerOf, TypeOK
      <3>3. running[c] # None /\ outcome[running[c]] = "SUCCEEDED"
        BY <1>0, <3>1 DEF Progress
      <3>4. PICK r \in Calls : r = running[c] /\ workflow[r] # None /\ r \notin lookup /\ r \notin removed
        BY <3>3, WhereTasksAre
      <3>5. TaskOf(r) = "succeeded"
        BY <3>3, <3>4, WorkflowAssumption DEF TaskOf, Outcomes
      <3>6. answerBar' = [answerBar EXCEPT ![c] = [status |-> "COMPLETED", from |-> running[c]]]
        BY <3>2, BarsAre
      <3> QED BY <2>1, <2>2, <2>3, <3>3, <3>4, <3>5, <3>6, BarsAre DEF Exchange!Return
    <2>6. CASE FailReturns(c)
      <3>1. reply' = [reply EXCEPT ![c] = [status |-> "FAILED", from |-> None]]
        BY <2>6 DEF FailReturns
      <3>2. \A d \in Calls : AnswerOf(d)' = IF d = c THEN [status |-> "FAILED", from |-> None] ELSE AnswerOf(d)
        BY <1>0, <2>4, <3>1 DEF AnswerOf, TypeOK
      <3>3. answerBar' = [answerBar EXCEPT ![c] = [status |-> "FAILED", from |-> None]]
        BY <3>2, BarsAre
      <3> QED BY <2>1, <2>2, <2>3, <3>3, BarsAre DEF Exchange!Return
    <2> QED BY <1>5, <2>5, <2>6
  <1>6. ASSUME NEW c \in Calls, SubmitInvalid(c) \/ FailRaises(c) PROVE Exchange!Raise(c)
    <2>1. /\ pc[c] \in {"idle", "failing"} /\ pc' = [pc EXCEPT ![c] = "raised"]
          /\ UNCHANGED <<lookup, workflow, running, reply, outcome, removed>>
      BY <1>6 DEF SubmitInvalid, FailRaises, Goto
    <2>2. \A d \in Calls : AnswerOf(d)' = IF d = c THEN [status |-> "RAISED", from |-> None] ELSE AnswerOf(d)
      BY <1>0, <2>1 DEF AnswerOf
    <2>3. taskBar' = taskBar
      BY <2>1, BarsAre DEF TaskOf
    <2>4. answerBar' = [answerBar EXCEPT ![c] = [status |-> "RAISED", from |-> None]]
      BY <2>2, BarsAre
    <2>5. Exchange!Open(c)
      BY <2>1, OpenCalls
    <2> QED BY <2>1, <2>3, <2>4, <2>5 DEF Exchange!Raise
  <1>7. ASSUME NEW c \in Calls,
               AnnounceStarted(c) \/ QueueEmpty(c) \/ DispatchTask(c) \/ AnnounceCompleted(c) \/ PublishRaises(c)
        PROVE  UNCHANGED <<taskBar, running, answerBar>>
    <2>1. /\ pc[c] # "raised" /\ UNCHANGED <<lookup, workflow, running, reply, outcome, removed>>
          /\ \E to \in Waits \ {"raised"} : pc' = [pc EXCEPT ![c] = to]
      BY <1>7 DEF AnnounceStarted, QueueEmpty, DispatchTask, AnnounceCompleted, PublishRaises, Fail, Goto, Waits
    <2>2. \A d \in Calls : AnswerOf(d)' = AnswerOf(d)
      BY <1>0, <2>1 DEF AnswerOf
    <2> QED BY <2>1, <2>2, StutterStep
  <1>8. CASE UNCHANGED <<lookup, pc, workflow, running, reply, outcome, removed>>
    <2>1. \A d \in Calls : AnswerOf(d)' = AnswerOf(d)
      BY <1>8 DEF AnswerOf
    <2> QED BY <1>8, <2>1, StutterStep
  <1>9. ASSUME NEW w \in WorkflowIds, Cancel(w) \/ Pause(w) \/ Resume(w)
        PROVE  UNCHANGED <<lookup, pc, workflow, running, reply, outcome, removed>>
    BY <1>9 DEF Cancel, Pause, Resume, Control
  <1>10. StartOrShutdown \/ UNCHANGED vars => UNCHANGED <<lookup, pc, workflow, running, reply, outcome, removed>>
    BY DEF StartOrShutdown, vars
  <1> QED BY <1>1, <1>2, <1>3, <1>4, <1>5, <1>6, <1>7, <1>8, <1>9, <1>10 DEF Next, SubmitStep, OwnStep, Tasks

\* The workflow engine implements the exchange of tasks: each of its steps is a step of
\* the promise to those who submit or leaves what they see alone, for any number of
\* calls, with other code that removes tasks and publishes that raise
\* (workflow/manager.py:70-121, queue.py:17-38).
THEOREM EngineRefines == Spec => ImplementsExchange
  <1>1. Init => Exchange!ExchangeInit
    BY BarsAre DEF Init, Exchange!ExchangeInit, Exchange!NoAnswer, NoReply, TaskOf, AnswerOf
  <1>2. WorkflowInv /\ WorkflowInv' /\ Executed /\ [Next]_vars => Executed'
    BY ExecutedStep
  <1>3. WorkflowInv /\ WorkflowInv' /\ Executed /\ Executed' /\ [Next]_vars
           => [Exchange!ExchangeNext]_<<taskBar, running, answerBar>>
    BY ExchangeStep
  <1> QED BY <1>1, <1>2, <1>3, WorkflowInvHolds, ExecutedInit, PTL DEF Spec, ImplementsExchange, Exchange!ExchangeSpec

=============================================================================
