---------------------------- MODULE ContainerProofs ----------------------------
(***************************************************************************)
(* Proofs about DependencyContainer for every set of services, scopes and  *)
(* concurrent calls: a singleton is built once, calls deadlock only over   *)
(* registrations that depend on themselves, the validator foresees how a   *)
(* resolve ends, and the resolver implements SharedInstances.              *)
(***************************************************************************)
EXTENDS DependencyContainer, FiniteSetTheorems, WellFoundedInduction, TLAPS

-----------------------------------------------------------------------------
(***************************************************************************)
(* The invariant.                                                          *)
(***************************************************************************)
Stages == {"enter", "wait", "build", "awaiting", "made", "found"}
Errors == {"circular", "missing", "runtime", "failed"}
Locks == Services \X Nat
Dictionaries == Calls \X Nat
FrameRecords ==
    [service : Services, scope : Scopes \cup Dictionaries, chain : SUBSET Services,
     stage : Stages, at : Nat \ {0}, lock : Locks \cup {None}, desc : Descriptors \cup {None}]

FieldsOK ==
    /\ registry \in [Services -> Descriptors \cup {None}]
    /\ cached \subseteq (Owners \cup Dictionaries) \X Services
    /\ held \subseteq Locks
    /\ generation \in [Services -> Nat]
    /\ frames \in [Calls -> Seq(FrameRecords)]
    /\ error \in [Calls -> Errors \cup {None}]
    /\ ended \in [Calls -> Errors \cup {"returned", None}]
    /\ turn \in Calls \cup {None}
    /\ shut \in [Owners -> BOOLEAN]
    /\ DOMAIN disposing = Owners
    /\ built \in [Services -> Nat]
    /\ changed \subseteq Services

\* A frame inside the critical section of its service, if it has one.
Inside(f) == f.lock # None /\ f.stage \notin {"enter", "wait"}

FrameInv(f) ==
    /\ f.stage = "enter" => f.lock = None
    /\ f.stage # "enter" =>
          /\ f.desc # None
          /\ f.lock # None <=> f.desc.lifetime = "SINGLETON"
          /\ f.lock # None => f.lock[1] = f.service /\ f.lock[2] <= generation[f.service]
          /\ Quiet(f.service) => f.desc = registry[f.service]
    /\ f.stage \in {"wait", "found"} => f.lock # None
    /\ Quiet(f.service) /\ f.stage \in {"build", "awaiting", "made"} /\ f.lock # None =>
          built[f.service] = 0

\* The outer frames of a call wait for the ones they have asked for.
Asked(c) ==
    \A i \in 1..(Depth(c) - 1) :
        LET f == frames[c][i] IN
        /\ f.stage = "build" /\ f.at \in DOMAIN f.desc.params
        /\ f.desc.params[f.at].service = frames[c][i + 1].service

StackInv(c) ==
    /\ Asked(c)
    /\ \A i \in DOMAIN frames[c] : FrameInv(frames[c][i])
    /\ Active(c) => ended[c] = None
    /\ turn = c => Active(c) /\ Top(c).stage \notin {"wait", "awaiting"}

\* A lock is held by the one frame that is inside.
LockInv ==
    /\ \A c \in Calls : \A i \in DOMAIN frames[c] : Inside(frames[c][i]) => frames[c][i].lock \in held
    /\ \A b, c \in Calls : \A i \in DOMAIN frames[b], j \in DOMAIN frames[c] :
          Inside(frames[b][i]) /\ Inside(frames[c][j]) /\ frames[b][i].lock = frames[c][j].lock
              => b = c /\ i = j
    /\ \A l \in held : \E c \in Calls : \E i \in DOMAIN frames[c] :
          Inside(frames[c][i]) /\ frames[c][i].lock = l

QuietInv ==
    /\ ~ shut[Container] => disposing[Container] = None
    /\ \A s \in Services : Quiet(s) =>
          /\ generation[s] = 0
          /\ registry[s] # None /\ registry[s].lifetime = "SINGLETON" =>
                built[s] = 0 \/ (built[s] = 1 /\ <<Container, s>> \in cached)

ContainerInv ==
    /\ FieldsOK /\ LockInv /\ QuietInv
    /\ \A c \in Calls : StackInv(c)

-----------------------------------------------------------------------------
(***************************************************************************)
(* The stack of a call.                                                    *)
(***************************************************************************)
LEMMA StackOf ==
    ASSUME FieldsOK, NEW c \in Calls
    PROVE  /\ frames[c] \in Seq(FrameRecords) /\ Depth(c) \in Nat /\ DOMAIN frames[c] = 1..Depth(c)
           /\ \A i \in 1..Depth(c) : frames[c][i] \in FrameRecords
           /\ Active(c) <=> Depth(c) > 0
           /\ Active(c) => Depth(c) \in DOMAIN frames[c] /\ Top(c) \in FrameRecords /\ Top(c) = frames[c][Depth(c)]
  <1>1. frames[c] \in Seq(FrameRecords)
    BY DEF FieldsOK
  <1> QED BY <1>1 DEF Depth, Active, Top

\* What the locks and histories need of a stack: everything but where it stands.
Same(f, g) == f.service = g.service /\ f.stage = g.stage /\ f.lock = g.lock /\ f.desc = g.desc

\* The innermost resolve of a call is over; its caller may go on to its next parameter.
Pops(c, q) ==
    /\ frames' = [frames EXCEPT ![c] = q] /\ Len(q) = Depth(c) - 1
    /\ \A i \in 1..Len(q) : Same(q[i], frames[c][i]) /\ (i < Len(q) => q[i] = frames[c][i])

\* Two frames of one quiet singleton that are inside have the same lock.
LEMMA QuietLock ==
    ASSUME ContainerInv, NEW f \in FrameRecords, NEW g \in FrameRecords, FrameInv(f), FrameInv(g),
           f.service = g.service, Quiet(f.service), f.stage # "enter", g.stage # "enter", g.lock # None
    PROVE  f.lock = g.lock /\ f.lock # None
  <1>1. f.desc = g.desc /\ f.desc # None
    BY DEF FrameInv
  <1>2. f.lock # None
    BY <1>1 DEF FrameInv
  <1>3. f.lock \in Locks /\ g.lock \in Locks /\ f.service \in Services
    BY <1>2 DEF FrameRecords
  <1>4. generation[f.service] = 0
    BY <1>3 DEF ContainerInv, QuietInv
  <1>5. /\ f.lock[1] = f.service /\ f.lock[2] <= 0 /\ f.lock[2] \in Nat
        /\ g.lock[1] = f.service /\ g.lock[2] <= 0 /\ g.lock[2] \in Nat
    BY <1>2, <1>3, <1>4 DEF FrameInv, Locks
  <1>6. f.lock[2] = 0 /\ g.lock[2] = 0
    BY <1>5
  <1>7. f.lock = <<f.service, 0>> /\ g.lock = <<f.service, 0>>
    BY <1>3, <1>5, <1>6 DEF Locks
  <1> QED BY <1>2, <1>7

\* The innermost resolve of a call ends: its lock is released, and what it has built
\* is remembered.
LEMMA PopStep ==
    ASSUME ContainerInv, NEW c \in Calls, turn = c, NEW q \in Seq(FrameRecords),
           UNCHANGED <<registry, generation, shut, disposing, changed>>,
           held' = held \ {Top(c).lock},
           \A s \in Services : <<Container, s>> \in cached => <<Container, s>> \in cached',
           frames' = [frames EXCEPT ![c] = q], Len(q) = Depth(c) - 1,
           \A i \in 1..Len(q) : Same(q[i], frames[c][i]) /\ (i < Len(q) => q[i] = frames[c][i]),
           \/ built' = built
           \/ /\ Top(c).stage \in {"build", "made"}
              /\ built' = [built EXCEPT ![Top(c).service] = @ + 1]
              /\ Top(c).desc.lifetime = "SINGLETON" => <<Container, Top(c).service>> \in cached',
           IF q = << >> THEN turn' = None ELSE turn' = turn /\ ended'[c] = ended[c],
           \A b \in Calls \ {c} : ended'[b] = ended[b]
    PROVE  LockInv' /\ QuietInv' /\ \A b \in Calls : StackInv(b)'
  <1> DEFINE n == Depth(c)
             top == Top(c)
  <1>0. FieldsOK /\ LockInv /\ QuietInv /\ StackInv(c)
    BY DEF ContainerInv
  <1>1. /\ n \in Nat /\ n > 0 /\ n \in DOMAIN frames[c] /\ top \in FrameRecords /\ top = frames[c][n]
        /\ DOMAIN frames[c] = 1..n /\ top.stage \notin {"wait", "awaiting"}
    BY <1>0, StackOf DEF StackInv
  <1>2. FrameInv(top)
    BY <1>0, <1>1 DEF StackInv
  <1>3. /\ frames'[c] = q /\ DOMAIN q = 1..(n - 1) /\ Len(q) = n - 1
        /\ \A b \in Calls \ {c} : frames'[b] = frames[b]
    BY <1>0, <1>1 DEF FieldsOK
  <1> HIDE DEF n, top
  <1>4. ASSUME NEW b \in Calls, NEW i \in DOMAIN frames'[b]
        PROVE  /\ i \in DOMAIN frames[b] /\ Same(frames'[b][i], frames[b][i])
               /\ frames[b][i] \in FrameRecords /\ FrameInv(frames[b][i])
               /\ ~ (b = c /\ i = n)
    <2>1. CASE b = c
      <3>1. i \in 1..(n - 1) /\ i \in 1..n /\ i # n
        BY <2>1, <1>1, <1>3
      <3>2. Same(frames'[b][i], frames[b][i])
        BY <2>1, <3>1, <1>3
      <3> QED BY <2>1, <3>1, <3>2, <1>0, <1>1, StackOf DEF StackInv, n
    <2>2. CASE b # c
      <3>1. frames'[b] = frames[b]
        BY <2>2, <1>3
      <3> QED BY <2>2, <3>1, <1>0, StackOf DEF ContainerInv, StackInv, Same
    <2> QED BY <2>1, <2>2
  <1>5. \A s : Quiet(s)' <=> Quiet(s)
    BY DEF Quiet
  <1>6. ASSUME NEW s \in Services, Quiet(s), built'[s] # built[s]
        PROVE  /\ built' = [built EXCEPT ![s] = @ + 1]
               /\ top.service = s /\ top.stage \in {"build", "made"}
               /\ top.desc.lifetime = "SINGLETON" => <<Container, s>> \in cached'
    BY <1>0, <1>6 DEF FieldsOK, top
  <1>7. ASSUME NEW b \in Calls, NEW i \in DOMAIN frames'[b] PROVE FrameInv(frames[b][i])'
    <2> DEFINE f == frames'[b][i]
               g == frames[b][i]
    <2>1. /\ i \in DOMAIN frames[b] /\ Same(f, g) /\ g \in FrameRecords /\ FrameInv(g)
          /\ ~ (b = c /\ i = n)
      BY <1>4
    <2> HIDE DEF f, g
    <2>2. ASSUME Quiet(g.service), g.stage \in {"build", "awaiting", "made"}, g.lock # None
          PROVE  built'[g.service] = 0
      <3>1. g.service \in Services /\ built[g.service] = 0
        BY <2>1, <2>2 DEF FrameInv, FrameRecords
      <3>2. ASSUME built'[g.service] # built[g.service] PROVE FALSE
        <4>1. top.service = g.service /\ top.stage \in {"build", "made"}
          BY <3>1, <3>2, <2>2, <1>6
        <4>2. top.lock = g.lock /\ top.lock # None
          BY <4>1, <2>1, <2>2, <1>1, <1>2, QuietLock
        <4>3. Inside(top) /\ Inside(g)
          BY <4>1, <4>2, <2>2 DEF Inside
        <4> QED BY <4>2, <4>3, <2>1, <1>0, <1>1 DEF LockInv, g
      <3> QED BY <3>1, <3>2
    <2> QED BY <2>1, <2>2 DEF FrameInv, Same, Quiet, f
  <1>8. ASSUME NEW b \in Calls PROVE StackInv(b)'
    <2>1. CASE b # c
      <3>1. StackInv(b) /\ frames'[b] = frames[b] /\ ended'[b] = ended[b] /\ turn # b /\ turn' # b
        BY <2>1, <1>3, EventLoopAssumption DEF ContainerInv
      <3>2. Asked(b)'
        BY <3>1 DEF StackInv, Asked, Depth
      <3> QED BY <3>1, <3>2, <1>7 DEF StackInv, Active
    <2>2. CASE b = c
      <3>1. ASSUME NEW i \in 1..(Len(q) - 1)
            PROVE  /\ q[i].stage = "build" /\ q[i].at \in DOMAIN q[i].desc.params
                   /\ q[i].desc.params[q[i].at].service = q[i + 1].service
        <4>1. i \in 1..(n - 1) /\ q[i] = frames[c][i] /\ q[i + 1].service = frames[c][i + 1].service
          BY <1>1, <1>3 DEF Same
        <4> QED BY <4>1, <1>0 DEF StackInv, Asked, n
      <3>2. Asked(b)'
        BY <2>2, <3>1, <1>3 DEF Asked, Depth
      <3>3. Active(b)' => ended'[b] = None
        BY <2>2, <1>0, <1>1, <1>3 DEF StackInv, Active
      <3>4. ASSUME q # << >> PROVE q[n - 1].stage = "build"
        <4>1. n - 1 \in 1..(n - 1)
          BY <3>4, <1>1, <1>3
        <4> QED BY <4>1, <1>0, <1>3 DEF StackInv, Asked, Same, n
      <3>5. (turn = b => Active(b) /\ Top(b).stage \notin {"wait", "awaiting"})'
        BY <2>2, <3>4, <1>3, EventLoopAssumption DEF Active, Top, Depth
      <3> QED BY <2>2, <3>2, <3>3, <3>5, <1>7 DEF StackInv
    <2> QED BY <2>1, <2>2
  <1>9. LockInv'
    <2>1. ASSUME NEW b \in Calls, NEW i \in DOMAIN frames'[b], Inside(frames'[b][i])
          PROVE  frames'[b][i].lock \in held'
      <3>1. Inside(frames[b][i]) /\ frames'[b][i].lock = frames[b][i].lock
        BY <2>1, <1>4 DEF Inside, Same
      <3>2. frames[b][i].lock \in held
        BY <3>1, <1>0, <1>4 DEF LockInv
      <3>3. frames[b][i].lock # top.lock
        <4>1. SUFFICES ASSUME frames[b][i].lock = top.lock PROVE FALSE
          OBVIOUS
        <4>2. top.lock # None
          BY <3>1, <4>1 DEF Inside
        <4>3. Inside(top)
          BY <4>2, <1>1, <1>2 DEF Inside, FrameInv
        <4> QED BY <3>1, <4>1, <4>3, <1>0, <1>1, <1>4 DEF LockInv
      <3> QED BY <3>1, <3>2, <3>3 DEF top
    <2>2. ASSUME NEW b \in Calls, NEW d \in Calls, NEW i \in DOMAIN frames'[b], NEW j \in DOMAIN frames'[d],
                 Inside(frames'[b][i]), Inside(frames'[d][j]), frames'[b][i].lock = frames'[d][j].lock
          PROVE  b = d /\ i = j
      <3>1. Inside(frames[b][i]) /\ Inside(frames[d][j]) /\ frames[b][i].lock = frames[d][j].lock
        BY <2>2, <1>4 DEF Inside, Same
      <3> QED BY <3>1, <1>0, <1>4 DEF LockInv
    <2>3. ASSUME NEW l \in held'
          PROVE  \E b \in Calls : \E i \in DOMAIN frames'[b] : Inside(frames'[b][i]) /\ frames'[b][i].lock = l
      <3>1. l \in held /\ l # top.lock
        BY <2>3 DEF top
      <3>2. PICK b \in Calls : \E i \in DOMAIN frames[b] : Inside(frames[b][i]) /\ frames[b][i].lock = l
        BY <3>1, <1>0 DEF LockInv
      <3> PICK i \in DOMAIN frames[b] : Inside(frames[b][i]) /\ frames[b][i].lock = l
        BY <3>2
      <3>3. ~ (b = c /\ i = n)
        BY <3>1, <3>2, <1>1
      <3>4. i \in DOMAIN frames'[b]
        BY <3>2, <3>3, <1>1, <1>3
      <3> QED BY <3>2, <3>4, <1>4 DEF Inside, Same
    <2> QED BY <2>1, <2>2, <2>3 DEF LockInv, Inside
  <1>10. QuietInv'
    <2>1. ASSUME NEW s \in Services, Quiet(s), registry[s] # None, registry[s].lifetime = "SINGLETON"
          PROVE  built'[s] = 0 \/ (built'[s] = 1 /\ <<Container, s>> \in cached')
      <3>1. built[s] = 0 \/ (built[s] = 1 /\ <<Container, s>> \in cached)
        BY <2>1, <1>0 DEF QuietInv
      <3>2. CASE built'[s] = built[s]
        BY <3>1, <3>2
      <3>3. CASE built'[s] # built[s]
        <4>1. /\ built' = [built EXCEPT ![s] = @ + 1]
              /\ top.service = s /\ top.stage \in {"build", "made"}
              /\ top.desc.lifetime = "SINGLETON" => <<Container, s>> \in cached'
          BY <2>1, <3>3, <1>6
        <4>2. top.desc = registry[s]
          BY <4>1, <2>1, <1>2 DEF FrameInv
        <4>3. top.lock # None
          BY <4>1, <4>2, <2>1, <1>2 DEF FrameInv
        <4>4. built[s] = 0
          BY <4>1, <4>3, <2>1, <1>2 DEF FrameInv
        <4>5. built'[s] = 1
          BY <4>1, <4>4, <1>0 DEF FieldsOK
        <4> QED BY <4>1, <4>2, <4>5, <2>1
      <3> QED BY <3>2, <3>3
    <2> QED BY <2>1, <1>0, <1>5 DEF QuietInv
  <1> QED BY <1>8, <1>9, <1>10

\* The innermost resolve of a call goes on, or takes its lock.
LEMMA TopStep ==
    ASSUME ContainerInv, NEW c \in Calls, Active(c), NEW g \in FrameRecords,
           UNCHANGED <<registry, generation, shut, disposing, changed, built, cached, ended>>,
           SetTop(c, g), FrameInv(g), g.service = Top(c).service,
           \/ /\ held' = held /\ (Inside(g) <=> Inside(Top(c)))
              /\ Inside(g) => g.lock = Top(c).lock
           \/ held' = held \cup {g.lock} /\ g.lock \notin held /\ Inside(g) /\ ~ Inside(Top(c)),
           turn' \in {None, c}, turn' = c => g.stage \notin {"wait", "awaiting"}
    PROVE  LockInv' /\ QuietInv' /\ \A b \in Calls : StackInv(b)'
  <1> DEFINE n == Depth(c)
             top == Top(c)
  <1>0. FieldsOK /\ LockInv /\ QuietInv /\ StackInv(c)
    BY DEF ContainerInv
  <1>1. /\ n \in Nat /\ n > 0 /\ n \in DOMAIN frames[c] /\ top \in FrameRecords /\ top = frames[c][n]
        /\ DOMAIN frames[c] = 1..n
    BY <1>0, StackOf
  <1>2. /\ frames'[c] = [frames[c] EXCEPT ![n] = g]
        /\ \A b \in Calls \ {c} : frames'[b] = frames[b]
    BY <1>0 DEF FieldsOK, SetTop, Depth
  <1>3. /\ DOMAIN frames'[c] = 1..n /\ frames'[c][n] = g /\ Len(frames'[c]) = n
        /\ \A i \in 1..n : i # n => frames'[c][i] = frames[c][i]
    <2>1. frames[c] \in Seq(FrameRecords) /\ Len(frames[c]) = n
      BY <1>0 DEF FieldsOK, Depth
    <2> QED BY <1>1, <1>2, <2>1
  <1> HIDE DEF n, top
  <1>4. ASSUME NEW b \in Calls, NEW i \in DOMAIN frames'[b]
        PROVE  /\ i \in DOMAIN frames[b]
               /\ IF b = c /\ i = n THEN frames'[b][i] = g ELSE frames'[b][i] = frames[b][i]
               /\ frames[b][i].service = frames'[b][i].service
    BY <1>1, <1>2, <1>3 DEF top
  <1>5. ASSUME NEW b \in Calls, NEW i \in DOMAIN frames[b]
        PROVE  i \in DOMAIN frames'[b]
    BY <1>1, <1>2, <1>3
  <1>6. ASSUME NEW b \in Calls, NEW i \in DOMAIN frames'[b] PROVE FrameInv(frames[b][i])'
    <2>1. FrameInv(frames[b][i])
      BY <1>4 DEF ContainerInv, StackInv
    <2>2. CASE b = c /\ i = n
      BY <2>2, <1>4 DEF FrameInv, Quiet
    <2>3. CASE ~ (b = c /\ i = n)
      BY <2>1, <2>3, <1>4 DEF FrameInv, Quiet
    <2> QED BY <2>2, <2>3
  <1>7. ASSUME NEW b \in Calls PROVE StackInv(b)'
    <2>1. StackInv(b) /\ ended'[b] = ended[b]
      BY DEF ContainerInv
    <2>2. CASE b # c
      <3>1. frames'[b] = frames[b] /\ turn' # b
        BY <2>2, <1>2, EventLoopAssumption
      <3>2. Asked(b)'
        BY <2>1, <3>1 DEF StackInv, Asked, Depth
      <3> QED BY <2>1, <3>1, <3>2, <1>6 DEF StackInv, Active
    <2>3. CASE b = c
      <3>1. ASSUME NEW i \in 1..(n - 1)
            PROVE  LET f == frames'[c][i] IN
                   /\ f.stage = "build" /\ f.at \in DOMAIN f.desc.params
                   /\ f.desc.params[f.at].service = frames'[c][i + 1].service
        <4>1. i \in 1..n /\ i # n /\ i + 1 \in 1..n
          BY <1>1
        <4>2. frames'[c][i] = frames[c][i] /\ frames'[c][i + 1].service = frames[c][i + 1].service
          BY <4>1, <1>3, <1>4
        <4> QED BY <4>2, <1>0 DEF StackInv, Asked, n
      <3>2. Asked(b)'
        BY <2>3, <3>1, <1>3 DEF Asked, Depth
      <3>3. (turn = b => Active(b) /\ Top(b).stage \notin {"wait", "awaiting"})'
        BY <2>3, <1>1, <1>3 DEF Active, Top, Depth
      <3>4. ended'[b] = None
        BY <2>1, <2>3 DEF StackInv
      <3> QED BY <2>3, <3>2, <3>3, <3>4, <1>6 DEF StackInv
    <2> QED BY <2>2, <2>3
  <1>8. LockInv'
    <2>1. ASSUME NEW b \in Calls, NEW i \in DOMAIN frames'[b], Inside(frames'[b][i])
          PROVE  frames'[b][i].lock \in held'
      <3>1. CASE b = c /\ i = n
        BY <2>1, <3>1, <1>0, <1>1, <1>4 DEF LockInv, top
      <3>2. CASE ~ (b = c /\ i = n)
        BY <2>1, <3>2, <1>0, <1>4 DEF LockInv
      <3> QED BY <3>1, <3>2
    <2>2. ASSUME NEW b \in Calls, NEW d \in Calls, NEW i \in DOMAIN frames'[b], NEW j \in DOMAIN frames'[d],
                 Inside(frames'[b][i]), Inside(frames'[d][j]), frames'[b][i].lock = frames'[d][j].lock
          PROVE  b = d /\ i = j
      <3>1. CASE Inside(top) \/ ~ Inside(g)
        <4>1. Inside(frames[b][i]) /\ frames[b][i].lock = frames'[b][i].lock
          BY <2>2, <3>1, <1>1, <1>4 DEF top
        <4>2. Inside(frames[d][j]) /\ frames[d][j].lock = frames'[d][j].lock
          BY <2>2, <3>1, <1>1, <1>4 DEF top
        <4> QED BY <4>1, <4>2, <2>2, <1>0, <1>4 DEF LockInv
      <3>2. CASE ~ Inside(top) /\ Inside(g)
        <4>1. g.lock \notin held
          BY <3>2 DEF top
        <4>2. ASSUME NEW e \in Calls, NEW k \in DOMAIN frames'[e], Inside(frames'[e][k]), ~ (e = c /\ k = n)
              PROVE  /\ Inside(frames[e][k]) /\ frames[e][k].lock = frames'[e][k].lock
                     /\ frames'[e][k].lock # g.lock /\ k \in DOMAIN frames[e]
          BY <4>1, <4>2, <1>0, <1>4 DEF LockInv
        <4>3. CASE b = c /\ i = n
          BY <4>2, <4>3, <2>2, <1>4
        <4>4. CASE d = c /\ j = n
          BY <4>2, <4>4, <2>2, <1>4
        <4>5. CASE ~ (b = c /\ i = n) /\ ~ (d = c /\ j = n)
          BY <4>2, <4>5, <2>2, <1>0 DEF LockInv
        <4> QED BY <4>3, <4>4, <4>5
      <3> QED BY <3>1, <3>2
    <2>3. ASSUME NEW l \in held'
          PROVE  \E b \in Calls : \E i \in DOMAIN frames'[b] : Inside(frames'[b][i]) /\ frames'[b][i].lock = l
      <3>1. CASE l \in held
        <4>1. PICK b \in Calls : \E i \in DOMAIN frames[b] : Inside(frames[b][i]) /\ frames[b][i].lock = l
          BY <3>1, <1>0 DEF LockInv
        <4> PICK i \in DOMAIN frames[b] : Inside(frames[b][i]) /\ frames[b][i].lock = l
          BY <4>1
        <4>2. i \in DOMAIN frames'[b]
          BY <1>5
        <4>3. CASE b = c /\ i = n
          <5>1. Inside(top) /\ top.lock = l
            BY <4>3, <1>1
          <5>2. Inside(g) /\ g.lock = l
            BY <5>1 DEF top
          <5> QED BY <4>2, <4>3, <5>2, <1>4
        <4>4. CASE ~ (b = c /\ i = n)
          BY <4>2, <4>4, <1>4
        <4> QED BY <4>3, <4>4
      <3>2. CASE l \notin held
        <4>1. l = g.lock /\ Inside(g)
          BY <3>2, <2>3
        <4> QED BY <4>1, <1>1, <1>3
      <3> QED BY <3>1, <3>2
    <2> QED BY <2>1, <2>2, <2>3 DEF LockInv, Inside
  <1>9. QuietInv'
    BY <1>0 DEF QuietInv, Quiet
  <1> QED BY <1>7, <1>8, <1>9

\* A resolve begins, the first of its call or the next one inside.
LEMMA PushStep ==
    ASSUME ContainerInv, NEW c \in Calls, NEW g \in FrameRecords,
           UNCHANGED <<registry, generation, shut, disposing, changed, built, cached, held, ended>>,
           frames' = [frames EXCEPT ![c] = Append(frames[c], g)],
           g.stage = "enter", g.lock = None, turn \in {None, c}, turn' = c, ended[c] = None,
           Active(c) => /\ Top(c).stage = "build" /\ Top(c).at \in DOMAIN Top(c).desc.params
                        /\ Top(c).desc.params[Top(c).at].service = g.service
    PROVE  LockInv' /\ QuietInv' /\ \A b \in Calls : StackInv(b)'
  <1> DEFINE n == Depth(c)
  <1>0. FieldsOK /\ LockInv /\ QuietInv /\ StackInv(c)
    BY DEF ContainerInv
  <1>1. /\ n \in Nat /\ frames[c] \in Seq(FrameRecords) /\ DOMAIN frames[c] = 1..n /\ Len(frames[c]) = n
        /\ Active(c) <=> n > 0
        /\ n > 0 => Top(c) = frames[c][n]
    BY <1>0, StackOf DEF Depth
  <1> HIDE DEF n
  <1>2. /\ frames'[c] = Append(frames[c], g)
        /\ \A b \in Calls \ {c} : frames'[b] = frames[b]
    BY <1>0 DEF FieldsOK
  <1>3. /\ DOMAIN frames'[c] = 1..(n + 1) /\ frames'[c][n + 1] = g /\ Len(frames'[c]) = n + 1
        /\ \A i \in 1..n : frames'[c][i] = frames[c][i]
    BY <1>1, <1>2
  <1>4. ASSUME NEW b \in Calls, NEW i \in DOMAIN frames'[b]
        PROVE  \/ b = c /\ i = n + 1 /\ frames'[b][i] = g
               \/ i \in DOMAIN frames[b] /\ frames'[b][i] = frames[b][i]
    <2>1. CASE b = c
      <3>1. i = n + 1 \/ i \in 1..n
        BY <2>1, <1>1, <1>3
      <3> QED BY <2>1, <3>1, <1>1, <1>3
    <2> QED BY <2>1, <1>2
  <1>5. ASSUME NEW b \in Calls, NEW i \in DOMAIN frames[b]
        PROVE  i \in DOMAIN frames'[b] /\ frames'[b][i] = frames[b][i]
    <2>1. CASE b = c
      <3>1. i \in 1..n /\ i \in 1..(n + 1)
        BY <2>1, <1>1
      <3> QED BY <2>1, <3>1, <1>3
    <2> QED BY <2>1, <1>2
  <1>6. ASSUME NEW b \in Calls, NEW i \in DOMAIN frames'[b] PROVE FrameInv(frames[b][i])'
    <2>1. CASE b = c /\ i = n + 1 /\ frames'[b][i] = g
      BY <2>1 DEF FrameInv, Quiet
    <2>2. CASE i \in DOMAIN frames[b] /\ frames'[b][i] = frames[b][i]
      <3>1. FrameInv(frames[b][i])
        BY <2>2 DEF ContainerInv, StackInv
      <3> QED BY <2>2, <3>1 DEF FrameInv, Quiet
    <2> QED BY <2>1, <2>2, <1>4
  <1>7. ASSUME NEW b \in Calls PROVE StackInv(b)'
    <2>1. StackInv(b) /\ ended'[b] = ended[b]
      BY DEF ContainerInv
    <2>2. CASE b # c
      <3>1. frames'[b] = frames[b] /\ turn' # b
        BY <2>2, <1>2
      <3>2. Asked(b)'
        BY <2>1, <3>1 DEF StackInv, Asked, Depth
      <3> QED BY <2>1, <3>1, <3>2, <1>6 DEF StackInv, Active
    <2>3. CASE b = c
      <3>1. ASSUME NEW i \in 1..n
            PROVE  LET f == frames'[c][i] IN
                   /\ f.stage = "build" /\ f.at \in DOMAIN f.desc.params
                   /\ f.desc.params[f.at].service = frames'[c][i + 1].service
        <4>1. frames'[c][i] = frames[c][i]
          BY <1>3
        <4>2. CASE i = n
          BY <4>1, <4>2, <1>1, <1>3
        <4>3. CASE i # n
          <5>1. i \in 1..(n - 1) /\ i + 1 \in 1..n
            BY <4>3, <1>1
          <5> QED BY <4>1, <5>1, <1>0, <1>3 DEF StackInv, Asked, n
        <4> QED BY <4>2, <4>3
      <3>2. Asked(b)'
        BY <2>3, <3>1, <1>1, <1>3 DEF Asked, Depth
      <3>3. (turn = b => Active(b) /\ Top(b).stage \notin {"wait", "awaiting"})'
        <4>1. frames'[c] # << >>
          BY <1>1, <1>3
        <4> QED BY <2>3, <4>1, <1>3 DEF Active, Top, Depth
      <3> QED BY <2>1, <2>3, <3>2, <3>3, <1>6 DEF StackInv
    <2> QED BY <2>2, <2>3
  <1>8. LockInv'
    <2>1. ASSUME NEW b \in Calls, NEW i \in DOMAIN frames'[b], Inside(frames'[b][i])
          PROVE  i \in DOMAIN frames[b] /\ frames'[b][i] = frames[b][i]
      BY <2>1, <1>4 DEF Inside
    <2>2. \A b \in Calls : \A i \in DOMAIN frames'[b] : Inside(frames'[b][i]) => frames'[b][i].lock \in held'
      BY <2>1, <1>0 DEF LockInv
    <2>3. ASSUME NEW b \in Calls, NEW d \in Calls, NEW i \in DOMAIN frames'[b], NEW j \in DOMAIN frames'[d],
                 Inside(frames'[b][i]), Inside(frames'[d][j]), frames'[b][i].lock = frames'[d][j].lock
          PROVE  b = d /\ i = j
      <3>1. /\ i \in DOMAIN frames[b] /\ frames'[b][i] = frames[b][i]
            /\ j \in DOMAIN frames[d] /\ frames'[d][j] = frames[d][j]
        BY <2>1, <2>3
      <3> QED BY <2>3, <3>1, <1>0 DEF LockInv
    <2>4. ASSUME NEW l \in held'
          PROVE  \E b \in Calls : \E i \in DOMAIN frames'[b] : Inside(frames'[b][i]) /\ frames'[b][i].lock = l
      BY <1>0, <1>5 DEF LockInv
    <2> QED BY <2>2, <2>3, <2>4 DEF LockInv, Inside
  <1>9. QuietInv'
    BY <1>0 DEF QuietInv, Quiet
  <1> QED BY <1>7, <1>8, <1>9

\* The stack without its innermost frame, whose caller may go on to its next parameter.
LEMMA Popped ==
    ASSUME FieldsOK, NEW c \in Calls, Active(c)
    PROVE  LET rest == SubSeq(frames[c], 1, Depth(c) - 1) IN
           /\ rest \in Seq(FrameRecords) /\ Len(rest) = Depth(c) - 1
           /\ \A i \in 1..Len(rest) : Same(rest[i], frames[c][i]) /\ rest[i] = frames[c][i]
           /\ rest # << >> =>
                 LET q == [rest EXCEPT ![Len(rest)].at = @ + 1] IN
                 /\ q \in Seq(FrameRecords) /\ Len(q) = Depth(c) - 1 /\ q # << >>
                 /\ \A i \in 1..Len(q) : Same(q[i], frames[c][i]) /\ (i < Len(q) => q[i] = frames[c][i])
  <1> DEFINE rest == SubSeq(frames[c], 1, Depth(c) - 1)
             n == Depth(c)
             m == n - 1
             q == [rest EXCEPT ![m].at = @ + 1]
  <1>1. /\ frames[c] \in Seq(FrameRecords) /\ n \in Nat /\ n > 0 /\ Len(frames[c]) = n
        /\ \A i \in 1..n : frames[c][i] \in FrameRecords
    BY StackOf DEF Depth
  <1> HIDE DEF n
  <1>2. rest \in Seq(FrameRecords) /\ Len(rest) = m /\ \A i \in 1..m : rest[i] = frames[c][i]
    BY <1>1 DEF n
  <1> HIDE DEF rest
  <1>3. \A i \in 1..Len(rest) : Same(rest[i], frames[c][i]) /\ rest[i] = frames[c][i]
    BY <1>2 DEF Same
  <1>4. ASSUME rest # << >>
        PROVE  /\ q \in Seq(FrameRecords) /\ Len(q) = m /\ q # << >>
               /\ \A i \in 1..Len(q) : Same(q[i], frames[c][i]) /\ (i < Len(q) => q[i] = frames[c][i])
    <2>1. m \in 1..m /\ m \in Nat /\ DOMAIN rest = 1..m /\ rest[m] \in FrameRecords
      BY <1>1, <1>2, <1>4
    <2> DEFINE g == [rest[m] EXCEPT !.at = @ + 1]
    <2>2. g \in FrameRecords /\ Same(g, rest[m])
      BY <2>1 DEF FrameRecords, Same
    <2>3. q = [rest EXCEPT ![m] = g]
      OBVIOUS
    <2> HIDE DEF g, q, m
    <2>4. q \in Seq(FrameRecords) /\ Len(q) = m /\ q[m] = g /\ \A i \in 1..m : i # m => q[i] = rest[i]
      BY <2>1, <2>2, <2>3, <1>2
    <2> QED BY <2>1, <2>2, <2>4, <1>2, <1>3
  <1> QED BY <1>1, <1>2, <1>3, <1>4 DEF rest, n

\* Returning and unwinding both leave such a stack.
LEMMA ReturnPops ==
    ASSUME FieldsOK, NEW c \in Calls, Active(c), NEW records, Return(c, records)
    PROVE  \E q \in Seq(FrameRecords) :
           /\ Pops(c, q)
           /\ IF q = << >> THEN turn' = None /\ ended' = [ended EXCEPT ![c] = "returned"]
              ELSE turn' = turn /\ ended' = ended
  <1> DEFINE rest == SubSeq(frames[c], 1, Depth(c) - 1)
  <1>1. CASE rest = << >>
    BY <1>1, Popped DEF Return, Pops
  <1>2. CASE rest # << >>
    <2> DEFINE q == [rest EXCEPT ![Len(rest)].at = @ + 1]
    <2>1. /\ q \in Seq(FrameRecords) /\ Len(q) = Depth(c) - 1 /\ q # << >>
          /\ \A i \in 1..Len(q) : Same(q[i], frames[c][i]) /\ (i < Len(q) => q[i] = frames[c][i])
      BY <1>2, Popped
    <2>2. frames' = [frames EXCEPT ![c] = q] /\ turn' = turn /\ ended' = ended
      BY <1>2 DEF Return
    <2> HIDE DEF q
    <2> QED BY <2>1, <2>2 DEF Pops
  <1> QED BY <1>1, <1>2

\* An exception takes the innermost frame away too.
LEMMA UnwindPops ==
    ASSUME FieldsOK, NEW c \in Calls, Active(c), Unwind(c)
    PROVE  \E q \in Seq(FrameRecords) :
           /\ Pops(c, q)
           /\ IF q = << >> THEN turn' = None /\ ended' = [ended EXCEPT ![c] = error[c]]
              ELSE turn' = turn /\ ended' = ended
  <1> DEFINE rest == SubSeq(frames[c], 1, Depth(c) - 1)
  <1>1. CASE rest = << >>
    BY <1>1, Popped DEF Unwind, Pops
  <1>2. CASE rest # << >> /\ Recovers(rest[Len(rest)], error[c])
    <2> DEFINE q == [rest EXCEPT ![Len(rest)].at = @ + 1]
    <2>1. /\ q \in Seq(FrameRecords) /\ Len(q) = Depth(c) - 1 /\ q # << >>
          /\ \A i \in 1..Len(q) : Same(q[i], frames[c][i]) /\ (i < Len(q) => q[i] = frames[c][i])
      BY <1>2, Popped
    <2>2. frames' = [frames EXCEPT ![c] = q] /\ turn' = turn /\ ended' = ended
      BY <1>2 DEF Unwind
    <2> HIDE DEF q
    <2> QED BY <2>1, <2>2 DEF Pops
  <1>3. CASE rest # << >> /\ ~ Recovers(rest[Len(rest)], error[c])
    <2>1. frames' = [frames EXCEPT ![c] = rest] /\ turn' = turn /\ ended' = ended
      BY <1>3 DEF Unwind
    <2>2. /\ rest \in Seq(FrameRecords) /\ Len(rest) = Depth(c) - 1
          /\ \A i \in 1..Len(rest) : Same(rest[i], frames[c][i]) /\ rest[i] = frames[c][i]
      BY Popped
    <2> HIDE DEF rest
    <2> QED BY <1>3, <2>1, <2>2 DEF Pops
  <1> QED BY <1>1, <1>2, <1>3

\* A resolve returns.
LEMMA ReturnStep ==
    ASSUME ContainerInv, NEW c \in Calls, turn = c, NEW records,
           records \subseteq (Owners \cup Dictionaries) \X Services,
           \A s \in Services : <<Container, s>> \in cached => <<Container, s>> \in records,
           Return(c, records), UNCHANGED <<registry, generation, error, shut, disposing, changed>>,
           \/ built' = built
           \/ /\ Top(c).stage \in {"build", "made"}
              /\ built' = [built EXCEPT ![Top(c).service] = @ + 1]
              /\ Top(c).desc.lifetime = "SINGLETON" => <<Container, Top(c).service>> \in records
    PROVE  ContainerInv'
  <1>0. FieldsOK /\ StackInv(c)
    BY DEF ContainerInv
  <1>1. Active(c)
    BY <1>0 DEF StackInv
  <1>2. Top(c) \in FrameRecords /\ Depth(c) \in Nat
    BY <1>0, <1>1, StackOf
  <1>3. \A s \in Services : <<Container, s>> \in records => <<Container, s>> \in cached'
    <2>1. Container # <<c, Depth(c)>>
      BY <1>2, ContainerAssumption DEF Container
    <2> QED BY <2>1 DEF Return
  <1>4. cached' \subseteq (Owners \cup Dictionaries) \X Services /\ held' \subseteq Locks
    BY <1>0 DEF Return, FieldsOK
  <1>5. built' \in [Services -> Nat]
    <2>1. Top(c).service \in Services
      BY <1>2 DEF FrameRecords
    <2>2. built \in [Services -> Nat]
      BY <1>0 DEF FieldsOK
    <2> QED BY <2>1, <2>2
  <1>6. PICK q \in Seq(FrameRecords) :
           /\ Pops(c, q)
           /\ IF q = << >> THEN turn' = None /\ ended' = [ended EXCEPT ![c] = "returned"]
              ELSE turn' = turn /\ ended' = ended
    BY <1>0, <1>1, ReturnPops
  <1>7. /\ frames' \in [Calls -> Seq(FrameRecords)] /\ turn' \in Calls \cup {None}
        /\ ended' \in [Calls -> Errors \cup {"returned", None}]
        /\ \A b \in Calls \ {c} : ended'[b] = ended[b]
    BY <1>0, <1>6 DEF FieldsOK, Pops
  <1>8. FieldsOK'
    BY <1>0, <1>4, <1>5, <1>7 DEF FieldsOK
  <1>9. held' = held \ {Top(c).lock}
    BY DEF Return
  <1>10. LockInv' /\ QuietInv' /\ \A b \in Calls : StackInv(b)'
    BY <1>3, <1>6, <1>7, <1>9, PopStep DEF Pops
  <1> QED BY <1>8, <1>10 DEF ContainerInv

\* An exception leaves the innermost frame, or the call.
LEMMA UnwindStep == ASSUME ContainerInv, NEW c \in Calls, Unwind(c) PROVE ContainerInv'
  <1>0. FieldsOK /\ StackInv(c) /\ turn = c /\ error[c] # None
    BY DEF ContainerInv, Unwind
  <1>1. Active(c)
    BY <1>0 DEF StackInv
  <1>2. Top(c) \in FrameRecords /\ Depth(c) \in Nat
    BY <1>0, <1>1, StackOf
  <1>3. UNCHANGED <<registry, generation, asked, shut, disposing, built, changed>>
    BY DEF Unwind
  <1>4. \A s \in Services : <<Container, s>> \in cached => <<Container, s>> \in cached'
    <2>1. Container # <<c, Depth(c)>>
      BY <1>2, ContainerAssumption DEF Container
    <2> QED BY <2>1 DEF Unwind
  <1>5. held' = held \ {Top(c).lock}
    BY DEF Unwind, Unlocked
  <1>6. cached' \subseteq (Owners \cup Dictionaries) \X Services /\ held' \subseteq Locks
    BY <1>0, <1>5 DEF Unwind, FieldsOK
  <1>7. PICK q \in Seq(FrameRecords) :
           /\ Pops(c, q)
           /\ IF q = << >> THEN turn' = None /\ ended' = [ended EXCEPT ![c] = error[c]]
              ELSE turn' = turn /\ ended' = ended
    BY <1>0, <1>1, UnwindPops
  <1>8. error' = error \/ error' = [error EXCEPT ![c] = None]
    BY DEF Unwind, Raise
  <1>9. /\ frames' \in [Calls -> Seq(FrameRecords)] /\ turn' \in Calls \cup {None}
        /\ ended' \in [Calls -> Errors \cup {"returned", None}]
        /\ error' \in [Calls -> Errors \cup {None}]
        /\ \A b \in Calls \ {c} : ended'[b] = ended[b]
    BY <1>0, <1>7, <1>8 DEF FieldsOK, Pops
  <1>10. FieldsOK'
    BY <1>0, <1>3, <1>6, <1>9 DEF FieldsOK
  <1>11. LockInv' /\ QuietInv' /\ \A b \in Calls : StackInv(b)'
    BY <1>0, <1>3, <1>4, <1>5, <1>7, <1>9, PopStep DEF Pops
  <1> QED BY <1>10, <1>11 DEF ContainerInv

\* The registrations, the caches and the flags change while the stacks rest.
LEMMA StillStep ==
    ASSUME ContainerInv, UNCHANGED <<frames, held, built, turn, ended>>,
           generation \in [Services -> Nat],
           \A s \in Services : generation[s] <= generation'[s],
           \A s \in Services : Quiet(s)' =>
               /\ Quiet(s) /\ registry'[s] = registry[s] /\ generation'[s] = generation[s]
               /\ <<Container, s>> \in cached => <<Container, s>> \in cached',
           generation' \in [Services -> Nat],
           ~ shut'[Container] => disposing'[Container] = None
    PROVE  LockInv' /\ QuietInv' /\ \A b \in Calls : StackInv(b)'
  <1>0. FieldsOK /\ LockInv /\ QuietInv
    BY DEF ContainerInv
  <1>1. ASSUME NEW b \in Calls, NEW i \in DOMAIN frames[b] PROVE FrameInv(frames[b][i])'
    <2> DEFINE f == frames[b][i]
    <2>1. FrameInv(f) /\ f \in FrameRecords
      BY <1>0, StackOf DEF ContainerInv, StackInv
    <2>2. f.service \in Services /\ (f.lock # None => f.lock[2] \in Nat)
      BY <2>1 DEF FrameRecords, Locks
    <2>3. frames'[b][i] = f
      OBVIOUS
    <2>4. Quiet(f.service)' => Quiet(f.service) /\ registry'[f.service] = registry[f.service]
      BY <2>2, <2>3 DEF Quiet
    <2>5. f.lock # None /\ f.lock[2] <= generation[f.service] => f.lock[2] <= generation'[f.service]
      BY <2>2
    <2> QED BY <2>1, <2>3, <2>4, <2>5 DEF FrameInv
  <1>2. ASSUME NEW b \in Calls PROVE StackInv(b)'
    <2>1. StackInv(b)
      BY DEF ContainerInv
    <2> QED BY <2>1, <1>1 DEF StackInv, Asked, Depth, Active, Top
  <1>3. LockInv'
    BY <1>0 DEF LockInv
  <1>4. QuietInv'
    BY <1>0 DEF QuietInv, Quiet
  <1> QED BY <1>2, <1>3, <1>4

\* A call begins.
LEMMA ResolveKeeps ==
    ASSUME ContainerInv, NEW c \in Calls, NEW s \in Services, NEW o \in Owners, Resolve(c, s, o)
    PROVE  ContainerInv'
  <1>0. FieldsOK /\ turn = None /\ ended[c] = None /\ ~ Active(c)
    BY DEF ContainerInv, Resolve
  <1>1. UNCHANGED <<registry, cached, held, generation, error, shut, disposing, built, changed>>
    BY DEF Resolve
  <1>2. CASE shut[o]
    <2>1. ended' = [ended EXCEPT ![c] = "runtime"] /\ UNCHANGED <<frames, turn>>
      BY <1>2 DEF Resolve
    <2>2. FieldsOK'
      BY <1>0, <1>1, <2>1 DEF FieldsOK, Errors
    <2>3. ASSUME NEW b \in Calls PROVE StackInv(b)'
      <3>1. StackInv(b) /\ (b # c => ended'[b] = ended[b])
        BY <1>0, <2>1 DEF ContainerInv, FieldsOK
      <3>2. \A i \in DOMAIN frames[b] : FrameInv(frames[b][i])'
        BY <1>1, <2>1, <3>1 DEF StackInv, FrameInv, Quiet
      <3>3. Asked(b)' /\ Active(b)' = Active(b) /\ Top(b)' = Top(b)
        BY <2>1, <3>1 DEF StackInv, Asked, Depth, Active, Top
      <3> QED BY <1>0, <2>1, <3>1, <3>2, <3>3 DEF StackInv
    <2>4. LockInv' /\ QuietInv'
      BY <1>1, <2>1 DEF ContainerInv, LockInv, QuietInv, Quiet
    <2> QED BY <2>2, <2>3, <2>4 DEF ContainerInv
  <1>3. CASE ~ shut[o]
    <2> DEFINE g == Frame(s, IF o = Container THEN Fresh(c) ELSE o, {})
    <2>1. frames' = [frames EXCEPT ![c] = <<g>>] /\ turn' = c /\ ended' = ended
      BY <1>3 DEF Resolve
    <2>2. g \in FrameRecords /\ g.stage = "enter" /\ g.lock = None
      <3>1. Depth(c) \in Nat
        BY <1>0, StackOf
      <3>2. (IF o = Container THEN Fresh(c) ELSE o) \in Scopes \cup Dictionaries
        BY <3>1 DEF Fresh, Dictionaries, Owners
      <3> QED BY <3>2 DEF Frame, FrameRecords, Stages
    <2> HIDE DEF g
    <2>3. frames[c] = << >> /\ Append(<< >>, g) = <<g>>
      <3>1. Append(<< >>, g) = <<g>>
        OBVIOUS
      <3> QED BY <1>0, <3>1 DEF Active
    <2>4. frames' = [frames EXCEPT ![c] = Append(frames[c], g)]
      BY <2>1, <2>3
    <2>5. frames' \in [Calls -> Seq(FrameRecords)]
      <3>1. <<g>> \in Seq(FrameRecords)
        BY <2>2
      <3> QED BY <1>0, <2>1, <3>1 DEF FieldsOK
    <2>6. FieldsOK'
      BY <1>0, <1>1, <2>1, <2>5 DEF FieldsOK
    <2>7. LockInv' /\ QuietInv' /\ \A b \in Calls : StackInv(b)'
      BY <1>0, <1>1, <2>1, <2>2, <2>4, PushStep
    <2> QED BY <2>6, <2>7 DEF ContainerInv
  <1> QED BY <1>2, <1>3

\* Raising only marks the call.
LEMMA RaiseKeeps ==
    ASSUME ContainerInv, NEW c \in Calls, NEW e \in Errors, Raise(c, e),
           UNCHANGED <<registry, cached, held, generation, frames, ended, turn, shut, disposing, built, changed>>
    PROVE  ContainerInv'
  <1>1. FieldsOK'
    BY DEF ContainerInv, FieldsOK, Raise
  <1>2. LockInv' /\ QuietInv' /\ \A b \in Calls : StackInv(b)'
    <2>1. generation \in [Services -> Nat] /\ QuietInv
      BY DEF ContainerInv, FieldsOK
    <2>2. \A s \in Services : generation[s] <= generation'[s] /\ (Quiet(s)' <=> Quiet(s))
      BY <2>1 DEF Quiet
    <2> QED BY <2>1, <2>2, StillStep DEF QuietInv
  <1> QED BY <1>1, <1>2 DEF ContainerInv

\* The frame at the top is replaced.
LEMMA SetTopTypes ==
    ASSUME FieldsOK, NEW c \in Calls, Active(c), NEW g \in FrameRecords, SetTop(c, g)
    PROVE  frames' \in [Calls -> Seq(FrameRecords)]
  <1>1. frames[c] \in Seq(FrameRecords) /\ Len(frames[c]) \in 1..Len(frames[c])
    BY StackOf DEF Depth
  <1>2. [frames[c] EXCEPT ![Len(frames[c])] = g] \in Seq(FrameRecords)
    BY <1>1
  <1> QED BY <1>2 DEF SetTop, FieldsOK

\* The first look at the chain, the registry, the caches and the lock.
LEMMA EnterStep == ASSUME ContainerInv, NEW c \in Calls, Enter(c) PROVE ContainerInv'
  <1> DEFINE f == Top(c)
             s == f.service
             d == registry[s]
             lock == <<s, generation[s]>>
  <1>0. FieldsOK /\ LockInv /\ QuietInv /\ StackInv(c) /\ turn = c /\ error[c] = None /\ f.stage = "enter"
    BY DEF ContainerInv, Enter
  <1>1. Active(c)
    BY <1>0 DEF StackInv
  <1>2. f \in FrameRecords /\ f.service \in Services
    BY <1>0, <1>1, StackOf DEF FrameRecords
  <1>3. f.lock = None /\ FrameInv(f)
    BY <1>0, <1>1, StackOf DEF StackInv, FrameInv
  <1>4. UNCHANGED <<registry, generation, asked, shut, disposing, built, changed>>
    BY DEF Enter
  <1>5. ASSUME NEW e \in {"circular", "missing"}, Raise(c, e), UNCHANGED <<cached, held, frames, ended, turn>>
        PROVE  ContainerInv'
    BY <1>4, <1>5, RaiseKeeps DEF Errors
  <1>6. ASSUME Return(c, cached), UNCHANGED error PROVE ContainerInv'
    <2>1. cached \subseteq (Owners \cup Dictionaries) \X Services
      BY <1>0 DEF FieldsOK
    <2> QED BY <1>0, <1>4, <1>6, <2>1, ReturnStep
  <1>7. ASSUME s \notin f.chain, d # None, d.kind # "instance",
               d.lifetime = "TRANSIENT" \/ s \notin Cached(OwnerOf(d, f)),
               IF d.lifetime # "SINGLETON"
               THEN SetTop(c, [f EXCEPT !.stage = "build", !.desc = d]) /\ UNCHANGED <<held, turn>>
               ELSE IF lock \in held
                    THEN SetTop(c, [f EXCEPT !.stage = "wait", !.lock = lock, !.desc = d]) /\ turn' = None /\ UNCHANGED held
                    ELSE SetTop(c, [f EXCEPT !.stage = "build", !.lock = lock, !.desc = d]) /\ held' = held \cup {lock}
                         /\ UNCHANGED turn,
               UNCHANGED <<cached, error, ended>>
        PROVE  ContainerInv'
    <2>1. d \in Descriptors /\ lock \in Locks /\ generation[s] \in Nat /\ lock # None
      BY <1>0, <1>2, <1>7, ContainerAssumption DEF FieldsOK, Locks
    <2>2. CASE d.lifetime # "SINGLETON"
      <3> DEFINE g == [f EXCEPT !.stage = "build", !.desc = d]
      <3>1. g \in FrameRecords /\ g.service = s /\ g.stage = "build" /\ g.lock = None /\ g.desc = d
        BY <1>2, <1>3, <2>1 DEF FrameRecords, Stages
      <3>2. SetTop(c, g) /\ UNCHANGED <<held, turn>>
        BY <1>7, <2>2
      <3> HIDE DEF g
      <3>3. FrameInv(g)
        BY <1>7, <2>2, <3>1 DEF FrameInv
      <3>4. ~ Inside(g) /\ ~ Inside(f)
        BY <1>3, <3>1 DEF Inside
      <3>5. LockInv' /\ QuietInv' /\ \A b \in Calls : StackInv(b)'
        BY <1>0, <1>1, <1>4, <1>7, <3>1, <3>2, <3>3, <3>4, TopStep
      <3>6. frames' \in [Calls -> Seq(FrameRecords)]
        BY <1>0, <1>1, <3>1, <3>2, SetTopTypes
      <3>7. FieldsOK'
        BY <1>0, <1>4, <1>7, <3>2, <3>6 DEF FieldsOK
      <3> QED BY <3>5, <3>7 DEF ContainerInv
    <2>3. CASE d.lifetime = "SINGLETON" /\ lock \in held
      <3> DEFINE g == [f EXCEPT !.stage = "wait", !.lock = lock, !.desc = d]
      <3>1. g \in FrameRecords /\ g.service = s /\ g.stage = "wait" /\ g.lock = lock /\ g.desc = d
        BY <1>2, <2>1 DEF FrameRecords, Stages
      <3>2. SetTop(c, g) /\ turn' = None /\ held' = held
        BY <1>7, <2>3
      <3> HIDE DEF g
      <3>3. FrameInv(g)
        BY <1>7, <2>1, <2>3, <3>1 DEF FrameInv
      <3>4. ~ Inside(g) /\ ~ Inside(f)
        BY <1>3, <3>1 DEF Inside
      <3>5. LockInv' /\ QuietInv' /\ \A b \in Calls : StackInv(b)'
        BY <1>1, <1>4, <1>7, <3>1, <3>2, <3>3, <3>4, EventLoopAssumption, TopStep
      <3>6. frames' \in [Calls -> Seq(FrameRecords)]
        BY <1>0, <1>1, <3>1, <3>2, SetTopTypes
      <3>7. FieldsOK'
        BY <1>0, <1>4, <1>7, <3>2, <3>6 DEF FieldsOK
      <3> QED BY <3>5, <3>7 DEF ContainerInv
    <2>4. CASE d.lifetime = "SINGLETON" /\ lock \notin held
      <3> DEFINE g == [f EXCEPT !.stage = "build", !.lock = lock, !.desc = d]
      <3>1. g \in FrameRecords /\ g.service = s /\ g.stage = "build" /\ g.lock = lock /\ g.desc = d
        BY <1>2, <2>1 DEF FrameRecords, Stages
      <3>2. SetTop(c, g) /\ turn' = turn /\ held' = held \cup {lock}
        BY <1>7, <2>4
      <3> HIDE DEF g
      <3>3. Quiet(s) => built[s] = 0
        <4>1. <<Container, s>> \notin cached
          BY <1>2, <1>7, <2>4 DEF Cached, OwnerOf
        <4> QED BY <4>1, <1>0, <1>2, <1>7, <2>4 DEF QuietInv
      <3>4. FrameInv(g)
        BY <1>7, <2>1, <2>4, <3>1, <3>3 DEF FrameInv
      <3>5. Inside(g) /\ ~ Inside(f)
        BY <1>3, <2>1, <3>1 DEF Inside
      <3>6. LockInv' /\ QuietInv' /\ \A b \in Calls : StackInv(b)'
        BY <1>0, <1>1, <1>4, <1>7, <2>4, <3>1, <3>2, <3>4, <3>5, TopStep
      <3>7. frames' \in [Calls -> Seq(FrameRecords)]
        BY <1>0, <1>1, <3>1, <3>2, SetTopTypes
      <3>8. held' \subseteq Locks
        BY <1>0, <2>1, <3>2 DEF FieldsOK
      <3>9. FieldsOK'
        BY <1>0, <1>4, <1>7, <3>2, <3>7, <3>8 DEF FieldsOK
      <3> QED BY <3>6, <3>9 DEF ContainerInv
    <2> QED BY <2>2, <2>3, <2>4
  <1> QED BY <1>5, <1>6, <1>7 DEF Enter

\* The call goes on with another stage of its innermost frame; what it is inside of
\* stays the same.
LEMMA StageStep ==
    ASSUME ContainerInv, NEW c \in Calls, Active(c), NEW stage \in {"awaiting", "made"},
           Top(c).stage \in {"build", "awaiting"},
           SetTop(c, [Top(c) EXCEPT !.stage = stage]),
           UNCHANGED <<registry, cached, held, generation, error, ended, shut, disposing, built, changed>>,
           turn' \in {None, c}, turn' = c => stage # "awaiting"
    PROVE  ContainerInv'
  <1> DEFINE f == Top(c)
             g == [f EXCEPT !.stage = stage]
  <1>0. FieldsOK /\ StackInv(c)
    BY DEF ContainerInv
  <1>1. f \in FrameRecords /\ FrameInv(f)
    BY <1>0, StackOf DEF StackInv
  <1>2. /\ g \in FrameRecords /\ g.service = f.service /\ g.stage = stage /\ g.lock = f.lock
        /\ g.desc = f.desc
    BY <1>1 DEF FrameRecords, Stages
  <1>3. SetTop(c, g) /\ f.stage \in {"build", "awaiting"}
    OBVIOUS
  <1> HIDE DEF f, g
  <1>4. FrameInv(g) /\ (Inside(g) <=> Inside(f))
    BY <1>1, <1>2, <1>3 DEF FrameInv, Inside
  <1>5. LockInv' /\ QuietInv' /\ \A b \in Calls : StackInv(b)'
    BY <1>2, <1>3, <1>4, TopStep DEF f
  <1>6. frames' \in [Calls -> Seq(FrameRecords)]
    BY <1>0, <1>2, <1>3, SetTopTypes
  <1>7. FieldsOK'
    BY <1>0, <1>6 DEF FieldsOK
  <1> QED BY <1>5, <1>7 DEF ContainerInv

\* A waiting call gets the lock and looks again.
LEMMA AcquireStep == ASSUME ContainerInv, NEW c \in Calls, Acquire(c) PROVE ContainerInv'
  <1> DEFINE f == Top(c)
             stage == IF f.service \in Cached(Container) THEN "found" ELSE "build"
             g == [f EXCEPT !.stage = stage]
  <1>0. /\ FieldsOK /\ QuietInv /\ StackInv(c) /\ Active(c) /\ f.stage = "wait" /\ f.lock \notin held
        /\ turn' = c /\ held' = held \cup {f.lock} /\ SetTop(c, g)
        /\ UNCHANGED <<registry, cached, generation, error, ended, asked, shut, disposing, built, changed>>
    BY DEF ContainerInv, Acquire
  <1>1. f \in FrameRecords /\ FrameInv(f)
    BY <1>0, StackOf DEF StackInv
  <1>2. f.lock \in Locks /\ f.lock # None /\ f.service \in Services
    BY <1>0, <1>1 DEF FrameInv, FrameRecords
  <1>3. /\ g \in FrameRecords /\ g.service = f.service /\ g.stage = stage /\ g.lock = f.lock
        /\ g.desc = f.desc
    BY <1>1 DEF FrameRecords, Stages
  <1> HIDE DEF f, g
  <1>4. Quiet(f.service) /\ stage = "build" => built[f.service] = 0
    <2>1. SUFFICES ASSUME Quiet(f.service), stage = "build" PROVE built[f.service] = 0
      OBVIOUS
    <2>2. <<Container, f.service>> \notin cached
      BY <2>1, <1>2 DEF Cached
    <2>3. registry[f.service] = f.desc /\ f.desc # None /\ f.desc.lifetime = "SINGLETON"
      BY <2>1, <1>0, <1>1, <1>2 DEF FrameInv
    <2> QED BY <2>1, <2>2, <2>3, <1>0, <1>2 DEF QuietInv
  <1>5. stage \in {"found", "build"}
    OBVIOUS
  <1> HIDE DEF stage
  <1>6. FrameInv(g) /\ Inside(g) /\ ~ Inside(f)
    BY <1>0, <1>1, <1>2, <1>3, <1>4, <1>5 DEF FrameInv, Inside
  <1>7. LockInv' /\ QuietInv' /\ \A b \in Calls : StackInv(b)'
    BY <1>0, <1>3, <1>5, <1>6, TopStep DEF f
  <1>8. frames' \in [Calls -> Seq(FrameRecords)]
    BY <1>0, <1>3, SetTopTypes
  <1>9. held' \subseteq Locks
    BY <1>0, <1>2 DEF FieldsOK
  <1>10. FieldsOK'
    BY <1>0, <1>8, <1>9 DEF FieldsOK
  <1> QED BY <1>7, <1>10 DEF ContainerInv

\* What a frame that builds asks for next is a service.
LEMMA AskedService ==
    ASSUME NEW f \in FrameRecords, FrameInv(f), f.stage = "build", f.at <= Len(f.desc.params)
    PROVE  f.at \in DOMAIN f.desc.params /\ f.desc.params[f.at].service \in Services
  <1> DEFINE ps == f.desc.params
             k == f.at
             P == [service : Services, default : BOOLEAN]
  <1>1. f.desc \in Descriptors
    BY DEF FrameInv, FrameRecords
  <1>2. ps \in Seq(P) /\ k \in Nat /\ k > 0 /\ k <= Len(ps)
    BY <1>1 DEF Descriptors, FrameRecords
  <1> HIDE DEF ps, k, P
  <1>3. k \in DOMAIN ps /\ ps[k] \in P
    BY <1>2
  <1>4. ps[k].service \in Services
    BY <1>3 DEF P
  <1> QED BY <1>3, <1>4 DEF ps, k

\* The next parameter is resolved, or the container is found shut.
LEMMA AskStep == ASSUME ContainerInv, NEW c \in Calls, Ask(c) PROVE ContainerInv'
  <1> DEFINE f == Top(c)
             p == f.desc.params[f.at]
             g == IF f.desc.kind = "factory" THEN Frame(p.service, Fresh(c), {})
                  ELSE Frame(p.service, f.scope, f.chain \cup {f.service})
  <1>0. /\ FieldsOK /\ StackInv(c) /\ turn = c /\ f.stage = "build" /\ f.at <= Len(f.desc.params)
        /\ UNCHANGED <<registry, cached, held, generation, ended, asked, turn, shut, disposing, built, changed>>
    BY DEF ContainerInv, Ask
  <1>1. Active(c)
    BY <1>0 DEF StackInv
  <1>2. f \in FrameRecords /\ FrameInv(f) /\ Depth(c) \in Nat
    BY <1>0, <1>1, StackOf DEF StackInv
  <1>3. CASE f.desc.kind = "factory" /\ shut[Container]
    <2>1. Raise(c, "runtime") /\ UNCHANGED frames
      BY <1>3 DEF Ask
    <2> QED BY <1>0, <2>1, RaiseKeeps DEF Errors
  <1>4. CASE ~ (f.desc.kind = "factory" /\ shut[Container])
    <2>1. frames' = [frames EXCEPT ![c] = Append(frames[c], g)] /\ UNCHANGED error
      <3>1. frames' = [frames EXCEPT ![c] = Append(@, g)] /\ UNCHANGED error
        BY <1>4 DEF Ask
      <3> QED BY <3>1
    <2>4. f.at \in DOMAIN f.desc.params /\ p.service \in Services
      BY <1>0, <1>2, AskedService
    <2>5. g \in FrameRecords /\ g.stage = "enter" /\ g.lock = None /\ g.service = p.service
      <3>1. Fresh(c) \in Scopes \cup Dictionaries
        BY <1>2 DEF Fresh, Dictionaries
      <3>2. f.scope \in Scopes \cup Dictionaries /\ f.chain \cup {f.service} \in SUBSET Services
        BY <1>2 DEF FrameRecords
      <3> QED BY <2>4, <3>1, <3>2 DEF Frame, FrameRecords, Stages
    <2> HIDE DEF g
    <2>6. frames' \in [Calls -> Seq(FrameRecords)]
      <3>1. Append(frames[c], g) \in Seq(FrameRecords)
        BY <1>0, <2>5 DEF FieldsOK
      <3> QED BY <1>0, <2>1, <3>1 DEF FieldsOK
    <2>7. FieldsOK'
      BY <1>0, <2>1, <2>6 DEF FieldsOK
    <2>8. ended[c] = None
      BY <1>0, <1>1 DEF StackInv
    <2>9. LockInv' /\ QuietInv' /\ \A b \in Calls : StackInv(b)'
      BY <1>0, <2>1, <2>4, <2>5, <2>8, PushStep
    <2> QED BY <2>7, <2>9 DEF ContainerInv
  <1> QED BY <1>3, <1>4

\* An instance is built and remembered.
LEMMA MadeStep == ASSUME ContainerInv, NEW c \in Calls, Made(c) PROVE ContainerInv'
  <1> DEFINE f == Top(c)
             records == IF f.desc.lifetime = "TRANSIENT" THEN cached
                        ELSE cached \cup {<<OwnerOf(f.desc, f), f.service>>}
  <1>0. /\ FieldsOK /\ StackInv(c) /\ turn = c /\ f.stage \in {"build", "made"}
        /\ built' = [built EXCEPT ![f.service] = @ + 1] /\ Return(c, records)
        /\ UNCHANGED <<registry, generation, error, asked, shut, disposing, changed>>
    BY DEF ContainerInv, Made, Complete
  <1>1. Active(c)
    BY <1>0 DEF StackInv
  <1>2. f \in FrameRecords
    BY <1>0, <1>1, StackOf
  <1>3. <<OwnerOf(f.desc, f), f.service>> \in (Owners \cup Dictionaries) \X Services
    BY <1>2 DEF OwnerOf, FrameRecords, Owners
  <1>4. records \subseteq (Owners \cup Dictionaries) \X Services
    BY <1>0, <1>3 DEF FieldsOK
  <1>5. f.desc.lifetime = "SINGLETON" => <<Container, f.service>> \in records
    BY DEF OwnerOf
  <1>6. cached \subseteq records
    OBVIOUS
  <1> HIDE DEF records
  <1> QED BY <1>0, <1>4, <1>5, <1>6, ReturnStep

\* Every step of a resolve keeps the invariant.
LEMMA ResolveStepKeeps == ASSUME ContainerInv, NEW c \in Calls, ResolveStep(c) PROVE ContainerInv'
  <1>0. FieldsOK /\ StackInv(c)
    BY DEF ContainerInv
  <1>1. CASE Enter(c)
    BY <1>1, EnterStep
  <1>2. CASE Acquire(c)
    BY <1>2, AcquireStep
  <1>3. CASE Found(c)
    <2>1. cached \subseteq (Owners \cup Dictionaries) \X Services
      BY <1>0 DEF FieldsOK
    <2> QED BY <1>3, <2>1, ReturnStep DEF Found
  <1>4. CASE Ask(c)
    BY <1>4, AskStep
  <1>5. CASE Suspend(c)
    <2>1. turn = c
      BY <1>5 DEF Suspend
    <2>2. Active(c)
      BY <1>0, <2>1 DEF StackInv
    <2>3. turn' = None /\ turn' # c
      BY <1>5, EventLoopAssumption DEF Suspend
    <2> QED BY <1>5, <2>2, <2>3, StageStep DEF Suspend
  <1>6. CASE Wake(c)
    BY <1>6, StageStep DEF Wake
  <1>7. CASE Made(c)
    BY <1>7, MadeStep
  <1>8. CASE MakingRaises(c)
    BY <1>8, RaiseKeeps DEF MakingRaises, Errors
  <1>9. CASE Unwind(c)
    BY <1>9, UnwindStep
  <1> QED BY <1>1, <1>2, <1>3, <1>4, <1>5, <1>6, <1>7, <1>8, <1>9 DEF ResolveStep

\* remove() takes the registration, the instance and the lock.
LEMMA RemoveStep == ASSUME ContainerInv, NEW s \in Services, Remove(s) PROVE ContainerInv'
  <1>0. /\ FieldsOK /\ QuietInv
        /\ registry' = [registry EXCEPT ![s] = None]
        /\ cached' = cached \ {<<Container, s>>}
        /\ generation' = [generation EXCEPT ![s] = @ + 1]
        /\ changed' = changed \cup {s}
        /\ UNCHANGED <<held, frames, error, ended, asked, turn, shut, disposing, built>>
    BY DEF ContainerInv, Remove
  <1>1. /\ generation \in [Services -> Nat] /\ generation' \in [Services -> Nat]
        /\ \A t \in Services : generation[t] <= generation'[t]
    BY <1>0 DEF FieldsOK
  <1>2. FieldsOK'
    BY <1>0, <1>1 DEF FieldsOK
  <1>3. ASSUME NEW t \in Services, Quiet(t)'
        PROVE  /\ Quiet(t) /\ registry'[t] = registry[t] /\ generation'[t] = generation[t]
               /\ <<Container, t>> \in cached => <<Container, t>> \in cached'
    BY <1>0, <1>3 DEF FieldsOK, Quiet
  <1>4. LockInv' /\ QuietInv' /\ \A b \in Calls : StackInv(b)'
    BY <1>0, <1>1, <1>3, StillStep DEF QuietInv
  <1> QED BY <1>2, <1>4 DEF ContainerInv

\* replace() and the register methods change a registration.
LEMMA RegisterStep ==
    ASSUME ContainerInv, NEW s \in Services, NEW d \in Replacements, Register(s, d) PROVE ContainerInv'
  <1>0. /\ FieldsOK /\ QuietInv
        /\ registry' = [registry EXCEPT ![s] = d]
        /\ changed' = changed \cup {s}
        /\ UNCHANGED <<cached, held, generation, frames, error, ended, asked, turn, shut, disposing, built>>
    BY DEF ContainerInv, Register
  <1>1. generation \in [Services -> Nat] /\ \A t \in Services : generation[t] <= generation'[t]
    BY <1>0 DEF FieldsOK
  <1>2. FieldsOK'
    BY <1>0, ContainerAssumption DEF FieldsOK
  <1>3. ASSUME NEW t \in Services, Quiet(t)'
        PROVE  Quiet(t) /\ registry'[t] = registry[t]
    BY <1>0, <1>3 DEF FieldsOK, Quiet
  <1>4. LockInv' /\ QuietInv' /\ \A b \in Calls : StackInv(b)'
    BY <1>0, <1>1, <1>3, StillStep DEF QuietInv
  <1> QED BY <1>2, <1>4 DEF ContainerInv

\* The steps of a dispose loop.
LEMMA DisposeStep ==
    ASSUME ContainerInv, NEW o \in Owners,
           BeginDispose(o) \/ DisposeNext(o) \/ DisposeEnds(o) \/ DisposeRaises(o)
    PROVE  ContainerInv'
  <1>0. FieldsOK /\ QuietInv /\ Container \in Owners
    BY DEF ContainerInv, Owners
  <1>1. UNCHANGED <<held, frames, error, ended, asked, turn, built, changed>>
    BY DEF BeginDispose, DisposeNext, DisposeEnds, DisposeRaises
  <1>2. /\ DOMAIN disposing' = Owners /\ shut' \in [Owners -> BOOLEAN]
        /\ shut[Container] => shut'[Container]
    BY <1>0 DEF FieldsOK, BeginDispose, DisposeNext, DisposeEnds, DisposeRaises
  <1>3. ASSUME ~ shut'[Container]
        PROVE  /\ ~ shut[Container] /\ disposing'[Container] = None
               /\ UNCHANGED <<registry, generation>>
               /\ \A s \in Services : <<Container, s>> \in cached => <<Container, s>> \in cached'
    <2>1. ~ shut[Container] /\ disposing[Container] = None
      BY <1>0, <1>2, <1>3 DEF QuietInv
    <2>2. o # Container
      BY <1>0, <1>3, <2>1 DEF BeginDispose, DisposeNext, DisposeEnds, DisposeRaises, FieldsOK
    <2>3. disposing'[Container] = disposing[Container]
      BY <1>0, <2>2 DEF BeginDispose, DisposeNext, DisposeEnds, DisposeRaises, FieldsOK
    <2>4. UNCHANGED <<registry, generation>>
      BY <2>2 DEF BeginDispose, DisposeNext, DisposeEnds, DisposeRaises
    <2>5. \A s \in Services : <<Container, s>> \in cached => <<Container, s>> \in cached'
      BY <2>2 DEF BeginDispose, DisposeNext, DisposeEnds, DisposeRaises
    <2> QED BY <2>1, <2>3, <2>4, <2>5
  <1>4. /\ generation \in [Services -> Nat] /\ generation' \in [Services -> Nat]
        /\ \A s \in Services : generation[s] <= generation'[s]
    BY <1>0 DEF FieldsOK, BeginDispose, DisposeNext, DisposeEnds, DisposeRaises
  <1>5. registry' \in [Services -> Descriptors \cup {None}]
    BY <1>0 DEF FieldsOK, BeginDispose, DisposeNext, DisposeEnds, DisposeRaises
  <1>6. cached' \subseteq (Owners \cup Dictionaries) \X Services
    BY <1>0 DEF FieldsOK, BeginDispose, DisposeNext, DisposeEnds, DisposeRaises
  <1>7. FieldsOK'
    BY <1>0, <1>1, <1>2, <1>4, <1>5, <1>6 DEF FieldsOK
  <1>8. LockInv' /\ QuietInv' /\ \A b \in Calls : StackInv(b)'
    BY <1>1, <1>3, <1>4, StillStep DEF Quiet
  <1> QED BY <1>7, <1>8 DEF ContainerInv

\* The invariant holds of a new container.
LEMMA ContainerInvInit == ContainerInit => ContainerInv
  <1> SUFFICES ASSUME ContainerInit PROVE ContainerInv
    OBVIOUS
  <1>1. FieldsOK
    <2>1. << >> \in Seq(FrameRecords) /\ Container \in Owners
      BY DEF Owners
    <2> QED BY <2>1, ContainerAssumption DEF ContainerInit, FieldsOK
  <1>2. LockInv
    BY DEF ContainerInit, LockInv
  <1>3. QuietInv
    BY DEF ContainerInit, QuietInv, Owners, Container
  <1>4. \A c \in Calls : StackInv(c)
    BY EventLoopAssumption DEF ContainerInit, StackInv, Asked, Active, Depth
  <1> QED BY <1>1, <1>2, <1>3, <1>4 DEF ContainerInv

\* Every step keeps the invariant.
LEMMA ContainerInvStep == ContainerInv /\ [ContainerNext]_containerVars => ContainerInv'
  <1> SUFFICES ASSUME ContainerInv, [ContainerNext]_containerVars PROVE ContainerInv'
    OBVIOUS
  <1>1. CASE UNCHANGED containerVars
    <2>1. UNCHANGED <<registry, cached, held, generation, frames, error, ended, turn, shut, disposing, built, changed>>
      BY <1>1 DEF containerVars
    <2>2. FieldsOK'
      BY <2>1 DEF ContainerInv, FieldsOK
    <2>3. generation \in [Services -> Nat] /\ QuietInv
      BY DEF ContainerInv, FieldsOK
    <2>4. \A s \in Services : generation[s] <= generation'[s] /\ (Quiet(s)' <=> Quiet(s))
      BY <2>1, <2>3 DEF Quiet
    <2>5. LockInv' /\ QuietInv' /\ \A b \in Calls : StackInv(b)'
      BY <2>1, <2>3, <2>4, StillStep DEF QuietInv
    <2> QED BY <2>2, <2>5 DEF ContainerInv
  <1>2. ASSUME NEW c \in Calls, NEW s \in Services, NEW o \in Owners, Resolve(c, s, o) PROVE ContainerInv'
    BY <1>2, ResolveKeeps
  <1>3. ASSUME NEW c \in Calls, ResolveStep(c) PROVE ContainerInv'
    BY <1>3, ResolveStepKeeps
  <1>4. ASSUME NEW s \in Services, Remove(s) \/ \E d \in Replacements : Register(s, d) PROVE ContainerInv'
    BY <1>4, RemoveStep, RegisterStep
  <1>5. ASSUME NEW o \in Owners, BeginDispose(o) \/ DisposeNext(o) \/ DisposeEnds(o) \/ DisposeRaises(o)
        PROVE  ContainerInv'
    BY <1>5, DisposeStep
  <1> QED BY <1>1, <1>2, <1>3, <1>4, <1>5 DEF ContainerNext

-----------------------------------------------------------------------------
(***************************************************************************)
(* Deadlock.                                                               *)
(***************************************************************************)
\* A non-empty set of naturals has a least member.
LEMMA LeastOf ==
    ASSUME NEW S \in SUBSET Nat, S # {}
    PROVE  \E n \in S : \A m \in S : n <= m
  <1> DEFINE Less == {p \in Nat \X Nat : p[1] < p[2]}
  <1>1. IsWellFoundedOn(Less, Nat)
    BY NatLessThanWellFounded DEF OpToRel
  <1>2. PICK n \in S : \A m \in S : ~ (<<m, n>> \in Less)
    BY <1>1, WFMin
  <1>3. \A m \in S : ~ (m < n) /\ m \in Nat /\ n \in Nat
    BY <1>2
  <1> QED BY <1>3

\* What descends from each position to the next is lower at the end.
LEMMA Descends ==
    ASSUME NEW n \in Nat, NEW v \in [1..n -> Nat], \A i \in 1..(n - 1) : v[i + 1] < v[i],
           NEW k \in 1..n, k < n
    PROVE  v[n] < v[k]
  <1> DEFINE Bad == {j \in 1..n : k < j /\ ~ (v[j] < v[k])}
  <1>1. SUFFICES ASSUME Bad # {} PROVE FALSE
    <2>1. n \in 1..n
      OBVIOUS
    <2> QED BY <2>1
  <1>2. PICK j \in Bad : \A m \in Bad : j <= m
    <2>1. Bad \in SUBSET Nat
      OBVIOUS
    <2> HIDE DEF Bad
    <2> QED BY <1>1, <2>1, LeastOf
  <1>3. j \in 1..n /\ k < j /\ ~ (v[j] < v[k]) /\ j - 1 \in 1..(n - 1) /\ j - 1 \in 1..n
    BY <1>2
  <1>4. j - 1 \notin Bad
    BY <1>2, <1>3
  <1>5. v[j] < v[j - 1] /\ v[j - 1] \in Nat /\ v[j] \in Nat /\ v[k] \in Nat
    BY <1>3
  <1>6. CASE j - 1 = k
    BY <1>3, <1>5, <1>6
  <1>7. CASE j - 1 # k
    <2>1. v[j - 1] < v[k]
      BY <1>3, <1>4, <1>7
    <2> QED BY <2>1, <1>3, <1>5
  <1> QED BY <1>6, <1>7

\* Where nothing depends on itself, of the calls that wait the one that waits for the
\* lowest service waits for a call that waits for a lower one still.
LEMMA SomeoneRuns == ASSUME ContainerInv PROVE NoDeadlock
  <1> SUFFICES ASSUME turn = None, NEW c0 \in Calls, Active(c0),
                      \A c \in Calls : Active(c) => Stuck(c),
                      changed = {}, ~ shut[Container], Acyclic(registry)
               PROVE  FALSE
    BY DEF NoDeadlock
  <1>0. FieldsOK /\ LockInv /\ \A c \in Calls : StackInv(c)
    BY DEF ContainerInv
  <1>1. PICK rank \in [Services -> 1..Cardinality(Services)] :
           \A s \in Services : registry[s] # None =>
               \A i \in DOMAIN registry[s].params : rank[registry[s].params[i].service] < rank[s]
    BY DEF Acyclic
  <1>2. \A s \in Services : rank[s] \in Nat
    BY <1>1
  <1> DEFINE R(c) == rank[Top(c).service]
             Ranks == {R(c) : c \in {b \in Calls : Active(b)}}
  <1>3. ASSUME NEW c \in Calls, Active(c) PROVE R(c) \in Nat /\ Top(c).service \in Services
    <2>1. Top(c).service \in Services
      BY <1>0, <1>3, StackOf DEF FrameRecords
    <2> QED BY <2>1, <1>2
  <1>4. PICK c \in Calls : Active(c) /\ \A b \in Calls : Active(b) => R(c) <= R(b)
    <2>1. Ranks \in SUBSET Nat /\ Ranks # {}
      BY <1>3
    <2>2. PICK r \in Ranks : \A m \in Ranks : r <= m
      <3> HIDE DEF Ranks
      <3> QED BY <2>1, LeastOf
    <2> QED BY <2>2
  <1>5. Top(c).stage = "wait" /\ Top(c).lock \in held
    BY <1>4 DEF Stuck
  <1>6. PICK d \in Calls : \E i \in DOMAIN frames[d] : Inside(frames[d][i]) /\ frames[d][i].lock = Top(c).lock
    BY <1>0, <1>5 DEF LockInv
  <1>7. PICK k \in DOMAIN frames[d] : Inside(frames[d][k]) /\ frames[d][k].lock = Top(c).lock
    BY <1>6
  <1> DEFINE n == Depth(d)
  <1>8. /\ n \in Nat /\ DOMAIN frames[d] = 1..n /\ k \in 1..n /\ Active(d) /\ Top(d) = frames[d][n]
        /\ \A i \in 1..n : frames[d][i] \in FrameRecords
    <2>1. n \in Nat /\ DOMAIN frames[d] = 1..n /\ \A i \in 1..n : frames[d][i] \in FrameRecords
      BY <1>0, StackOf
    <2>2. k \in 1..n /\ n > 0
      BY <2>1
    <2> QED BY <2>1, <2>2, <1>0, StackOf
  <1>9. Stuck(d) /\ ~ Inside(Top(d))
    BY <1>8 DEF Stuck, Inside
  <1> HIDE DEF n
  <1>10. k < n
    BY <1>7, <1>8, <1>9
  <1> DEFINE v == [i \in 1..n |-> rank[frames[d][i].service]]
  <1>11. v \in [1..n -> Nat]
    <2>1. \A i \in 1..n : frames[d][i].service \in Services
      BY <1>8 DEF FrameRecords
    <2> QED BY <2>1, <1>2
  <1>12. ASSUME NEW i \in 1..(n - 1) PROVE v[i + 1] < v[i]
    <2> DEFINE f == frames[d][i]
    <2>1. i \in 1..n /\ i + 1 \in 1..n
      BY <1>8
    <2>2. /\ f.stage = "build" /\ f.at \in DOMAIN f.desc.params
          /\ f.desc.params[f.at].service = frames[d][i + 1].service
      BY <1>0 DEF StackInv, Asked, n
    <2>3. FrameInv(f) /\ f.service \in Services
      BY <1>0, <1>8, <2>1 DEF StackInv, FrameRecords
    <2>4. f.desc = registry[f.service] /\ f.desc # None
      BY <2>2, <2>3 DEF FrameInv, Quiet
    <2>5. rank[frames[d][i + 1].service] < rank[f.service]
      BY <1>1, <2>2, <2>3, <2>4
    <2> QED BY <2>1, <2>5
  <1>13. v[n] < v[k]
    <2> HIDE DEF v
    <2> QED BY <1>8, <1>10, <1>11, <1>12, Descends
  <1>14. frames[d][k].service = Top(c).service
    <2>1. FrameInv(frames[d][k]) /\ FrameInv(Top(c))
      BY <1>0, <1>4, <1>8, StackOf DEF StackInv
    <2>2. frames[d][k].lock[1] = frames[d][k].service
      BY <2>1, <1>7 DEF FrameInv, Inside
    <2>3. Top(c).lock[1] = Top(c).service
      BY <2>1, <1>5, <1>7 DEF FrameInv, Inside
    <2> QED BY <2>2, <2>3, <1>7
  <1>15. R(d) < R(c)
    <2>1. n \in 1..n
      BY <1>8, <1>10
    <2> QED BY <1>8, <1>13, <1>14, <2>1
  <1> QED BY <1>3, <1>4, <1>8, <1>15

-----------------------------------------------------------------------------
(***************************************************************************)
(* The validator: what the graph says of a service.                        *)
(***************************************************************************)
Registries == [Services -> Descriptors \cup {None}]
Diagnoses == {"valid", "missing", "circular"}
Asks == [service : Services, default : BOOLEAN]

LEMMA VisibleAsks ==
    ASSUME NEW reg \in Registries, NEW s \in Services, reg[s] # None
    PROVE  /\ Visible(reg[s]) \in Seq(Asks)
           /\ \A i \in DOMAIN Visible(reg[s]) : i \in Nat /\ Visible(reg[s])[i].service \in Services
  <1> DEFINE d == reg[s]
             ps == Visible(d)
  <1>1. d \in Descriptors
    BY DEF Registries
  <1>2. d.params \in Seq(Asks)
    BY <1>1 DEF Descriptors, Asks
  <1>3. ps \in Seq(Asks)
    <2>1. << >> \in Seq(Asks)
      OBVIOUS
    <2> QED BY <1>2, <2>1 DEF Visible
  <1> HIDE DEF d, ps
  <1>4. \A i \in DOMAIN ps : i \in Nat /\ ps[i] \in Asks
    BY <1>3
  <1>5. \A i \in DOMAIN ps : i \in Nat /\ ps[i].service \in Services
    BY <1>4 DEF Asks
  <1> QED BY <1>3, <1>5 DEF ps, d

\* The first parameter that fails decides.
LEMMA Judged ==
    ASSUME NEW reg \in Registries, NEW s \in Services, reg[s] # None, NEW v
    PROVE  LET ps == Visible(reg[s])
               First(i) == ~Passes(ps[i], v) /\ \A j \in DOMAIN ps : j < i => Passes(ps[j], v)
           IN /\ (\A i \in DOMAIN ps : Passes(ps[i], v)) => Judgement(reg, s, v) = "valid"
              /\ \A i \in DOMAIN ps : First(i) => Judgement(reg, s, v) = v[ps[i].service]
              /\ (\A i \in DOMAIN ps : Passes(ps[i], v)) \/ \E i \in DOMAIN ps : First(i)
  <1> DEFINE ps == Visible(reg[s])
             First(i) == ~Passes(ps[i], v) /\ \A j \in DOMAIN ps : j < i => Passes(ps[j], v)
             bad == {i \in DOMAIN ps : ~Passes(ps[i], v)}
             least == CHOOSE i \in bad : \A j \in bad : i <= j
  <1>1. Judgement(reg, s, v) = IF bad = {} THEN "valid" ELSE v[ps[least].service]
    BY DEF Judgement
  <1>2. \A i \in DOMAIN ps : i \in Nat
    BY VisibleAsks
  <1> HIDE DEF ps
  <1>3. (\A i \in DOMAIN ps : Passes(ps[i], v)) => bad = {}
    OBVIOUS
  <1>4. ASSUME NEW i \in DOMAIN ps, First(i) PROVE bad # {} /\ least = i
    <2>1. i \in bad /\ \A j \in bad : i <= j
      BY <1>2, <1>4
    <2>2. least \in bad /\ \A j \in bad : least <= j
      <3> HIDE DEF bad
      <3> QED BY <2>1
    <2>3. least \in Nat /\ i \in Nat
      BY <1>2, <2>1, <2>2
    <2> HIDE DEF bad, least
    <2> QED BY <2>1, <2>2, <2>3
  <1>5. ASSUME bad # {} PROVE \E i \in DOMAIN ps : First(i)
    <2>1. bad \in SUBSET Nat
      BY <1>2
    <2>2. PICK i \in bad : \A j \in bad : i <= j
      <3> HIDE DEF bad
      <3> QED BY <1>5, <2>1, LeastOf
    <2>3. i \in DOMAIN ps /\ First(i)
      BY <1>2, <2>2
    <2> QED BY <2>3
  <1> HIDE DEF least
  <1>6. /\ (\A i \in DOMAIN ps : Passes(ps[i], v)) => Judgement(reg, s, v) = "valid"
        /\ \A i \in DOMAIN ps : First(i) => Judgement(reg, s, v) = v[ps[i].service]
    BY <1>1, <1>3, <1>4
  <1>7. (\A i \in DOMAIN ps : Passes(ps[i], v)) \/ \E i \in DOMAIN ps : First(i)
    BY <1>5
  <1> QED BY <1>6, <1>7 DEF ps

LEMMA JudgementType ==
    ASSUME NEW reg \in Registries, NEW s \in Services, NEW v \in [Services -> Diagnoses]
    PROVE  Judgement(reg, s, v) \in Diagnoses
  <1>1. CASE reg[s] = None
    BY <1>1 DEF Judgement, Diagnoses
  <1>2. CASE reg[s] # None
    <2>1. \A i \in DOMAIN Visible(reg[s]) : v[Visible(reg[s])[i].service] \in Diagnoses
      BY <1>2, VisibleAsks
    <2>2. Judgement(reg, s, v) = "valid" \/ \E i \in DOMAIN Visible(reg[s]) : Judgement(reg, s, v) = v[Visible(reg[s])[i].service]
      BY <1>2, Judged
    <2> QED BY <2>1, <2>2 DEF Diagnoses
  <1> QED BY <1>1, <1>2

\* A judgement that is not "circular" stands when verdicts that were "circular" change.
LEMMA JudgementStands ==
    ASSUME NEW reg \in Registries, NEW s \in Services, NEW w, NEW v,
           \A t \in Services : w[t] # "circular" => v[t] = w[t],
           Judgement(reg, s, w) # "circular"
    PROVE  Judgement(reg, s, v) = Judgement(reg, s, w)
  <1>1. CASE reg[s] = None
    BY <1>1 DEF Judgement
  <1>2. CASE reg[s] # None
    <2> DEFINE ps == Visible(reg[s])
    <2>1. \A i \in DOMAIN ps : i \in Nat /\ ps[i].service \in Services
      BY <1>2, VisibleAsks
    <2>2. \A i \in DOMAIN ps : Passes(ps[i], w) => Passes(ps[i], v)
      BY <2>1 DEF Passes
    <2>3. CASE \A i \in DOMAIN ps : Passes(ps[i], w)
      <3>1. Judgement(reg, s, w) = "valid"
        BY <1>2, <2>3, Judged
      <3>2. Judgement(reg, s, v) = "valid"
        BY <1>2, <2>2, <2>3, Judged
      <3> QED BY <3>1, <3>2
    <2>4. ASSUME NEW i \in DOMAIN ps, ~Passes(ps[i], w), \A j \in DOMAIN ps : j < i => Passes(ps[j], w)
          PROVE  Judgement(reg, s, v) = Judgement(reg, s, w)
      <3>1. Judgement(reg, s, w) = w[ps[i].service]
        BY <1>2, <2>4, Judged
      <3>2. v[ps[i].service] = w[ps[i].service]
        BY <2>1, <3>1
      <3>3. ~Passes(ps[i], v) /\ \A j \in DOMAIN ps : j < i => Passes(ps[j], v)
        BY <2>2, <2>4, <3>2 DEF Passes
      <3>4. Judgement(reg, s, v) = v[ps[i].service]
        BY <1>2, <3>3, Judged
      <3> QED BY <3>1, <3>2, <3>4
    <2> QED BY <1>2, <2>3, <2>4, Judged
  <1> QED BY <1>1, <1>2

-----------------------------------------------------------------------------
\* The search of the validator ends, because the chain grows: its verdicts exist.
Look(reg, f, chain) ==
    [s \in Services |-> IF s \in chain THEN "circular" ELSE Judgement(reg, s, f[chain \cup {s}])]

LEMMA ChainGrows ==
    ASSUME NEW chain \in SUBSET Services, NEW s \in Services \ chain
    PROVE  /\ chain \cup {s} \in SUBSET Services
           /\ Cardinality(Services \ chain) \in Nat
           /\ Cardinality(Services \ (chain \cup {s})) = Cardinality(Services \ chain) - 1
  <1>1. IsFiniteSet(Services \ chain)
    BY ContainerAssumption, FS_Difference
  <1>2. Services \ (chain \cup {s}) = (Services \ chain) \ {s} /\ s \in Services \ chain
    OBVIOUS
  <1>3. Cardinality((Services \ chain) \ {s}) = Cardinality(Services \ chain) - 1
    BY <1>1, <1>2, FS_RemoveElement
  <1> QED BY <1>1, <1>2, <1>3, FS_CardinalityType

LEMMA DiagnosisExists ==
    ASSUME NEW reg \in Registries
    PROVE  \E f : f = [chain \in SUBSET Services |-> Look(reg, f, chain)]
  <1> DEFINE F == [SUBSET Services -> [Services -> Diagnoses]]
             Good(f, n) == \A chain \in SUBSET Services :
                 Cardinality(Services \ chain) <= n => f[chain] = Look(reg, f, chain)
             E(n) == \E f \in F : Good(f, n)
             Bad == {n \in Nat : ~ E(n)}
  <1>0. ASSUME NEW f \in F, NEW chain \in SUBSET Services PROVE Look(reg, f, chain) \in [Services -> Diagnoses]
    <2>1. ASSUME NEW s \in Services PROVE Judgement(reg, s, f[chain \cup {s}]) \in Diagnoses
      <3>1. f[chain \cup {s}] \in [Services -> Diagnoses]
        OBVIOUS
      <3> QED BY <3>1, JudgementType
    <2> QED BY <2>1 DEF Look, Diagnoses
  <1>1. Bad = {}
    <2>1. SUFFICES ASSUME Bad # {} PROVE FALSE
      OBVIOUS
    <2>2. PICK n \in Bad : \A m \in Bad : n <= m
      <3> HIDE DEF Bad
      <3>1. Bad \in SUBSET Nat
        BY DEF Bad
      <3> QED BY <2>1, <3>1, LeastOf
    <2>3. n \in Nat /\ ~ E(n)
      BY <2>2
    <2>4. CASE n = 0
      <3> DEFINE f == [chain \in SUBSET Services |-> [s \in Services |-> "circular"]]
      <3>1. ASSUME NEW chain \in SUBSET Services, Cardinality(Services \ chain) <= 0
            PROVE  f[chain] = Look(reg, f, chain)
        <4>1. IsFiniteSet(Services \ chain)
          BY ContainerAssumption, FS_Difference
        <4>2. Cardinality(Services \ chain) = 0
          BY <3>1, <4>1, FS_CardinalityType
        <4>3. Services \ chain = {}
          BY <4>1, <4>2, FS_EmptySet
        <4> QED BY <4>3 DEF Look
      <3>2. f \in F
        BY DEF Diagnoses
      <3> HIDE DEF f
      <3> QED BY <2>3, <2>4, <3>1, <3>2
    <2>5. CASE n > 0
      <3>1. n - 1 \in Nat /\ n - 1 \notin Bad
        <4> HIDE DEF Bad, E
        <4> QED BY <2>2, <2>3, <2>5
      <3>2. PICK f \in F : Good(f, n - 1)
        BY <3>1
      <3> DEFINE g == [chain \in SUBSET Services |-> Look(reg, f, chain)]
      <3>3. g \in F
        BY <1>0
      <3>4. ASSUME NEW chain \in SUBSET Services, Cardinality(Services \ chain) <= n
            PROVE  g[chain] = Look(reg, g, chain)
        <4>1. ASSUME NEW s \in Services \ chain PROVE f[chain \cup {s}] = g[chain \cup {s}]
          <5>1. chain \cup {s} \in SUBSET Services /\ Cardinality(Services \ (chain \cup {s})) <= n - 1
            BY <2>3, <3>4, ChainGrows
          <5>2. f[chain \cup {s}] = Look(reg, f, chain \cup {s})
            BY <3>2, <5>1
          <5> QED BY <5>1, <5>2
        <4>2. g[chain] = Look(reg, f, chain)
          OBVIOUS
        <4> HIDE DEF g
        <4> QED BY <4>1, <4>2 DEF Look
      <3> HIDE DEF g, F
      <3> QED BY <2>3, <3>3, <3>4
    <2> QED BY <2>3, <2>4, <2>5
  <1>2. Cardinality(Services) \in Nat
    BY ContainerAssumption, FS_CardinalityType
  <1>3. PICK f \in F : Good(f, Cardinality(Services))
    BY <1>1, <1>2
  <1>4. ASSUME NEW chain \in SUBSET Services PROVE f[chain] = Look(reg, f, chain)
    <2>1. Cardinality(Services \ chain) <= Cardinality(Services)
      BY ContainerAssumption, FS_Subset
    <2> QED BY <1>3, <2>1
  <1>5. f = [chain \in SUBSET Services |-> f[chain]]
    OBVIOUS
  <1> HIDE DEF F
  <1> QED BY <1>4, <1>5

LEMMA DiagnosisDef ==
    ASSUME NEW reg \in Registries
    PROVE  /\ Diagnosis(reg) = [chain \in SUBSET Services |-> Look(reg, Diagnosis(reg), chain)]
           /\ \A chain \in SUBSET Services, s \in Services :
                 Diagnosis(reg)[chain][s] =
                     IF s \in chain THEN "circular" ELSE Judgement(reg, s, Diagnosis(reg)[chain \cup {s}])
  <1> DEFINE P(f) == f = [chain \in SUBSET Services |-> Look(reg, f, chain)]
  <1>1. Diagnosis(reg) = CHOOSE f : P(f)
    BY DEF Diagnosis, Look
  <1>2. \E f : P(f)
    BY DiagnosisExists
  <1>3. P(Diagnosis(reg))
    <2> HIDE DEF P
    <2> QED BY <1>1, <1>2
  <1>4. \A chain \in SUBSET Services : Diagnosis(reg)[chain] = Look(reg, Diagnosis(reg), chain)
    BY <1>3
  <1> DEFINE D == Diagnosis(reg)
  <1>5. ASSUME NEW chain \in SUBSET Services, NEW s \in Services
        PROVE  D[chain][s] = IF s \in chain THEN "circular" ELSE Judgement(reg, s, D[chain \cup {s}])
    <2>1. D[chain] = Look(reg, D, chain)
      BY <1>4
    <2> HIDE DEF D
    <2> QED BY <2>1 DEF Look
  <1> QED BY <1>3, <1>5

-----------------------------------------------------------------------------
\* Diagnoses that can be reached in some order: those that are not "circular" follow
\* from the ones of lower rank.
Before(v, rank, n) == [t \in Services |-> IF rank[t] < n THEN v[t] ELSE "circular"]
Ranked(reg, v, rank) ==
    /\ v \in [Services -> Diagnoses] /\ rank \in [Services -> Nat]
    /\ \A s \in Services : v[s] # "circular" => v[s] = Judgement(reg, s, Before(v, rank, rank[s]))
Final(reg, v) == \A s \in Services : v[s] = Judgement(reg, s, v)

\* Of the verdicts that can be reached, those with the fewest circles are final.
LEMMA FinalVerdicts ==
    ASSUME NEW reg \in Registries
    PROVE  \E v, rank : Ranked(reg, v, rank) /\ Final(reg, v)
  <1> DEFINE Circles(v) == {s \in Services : v[s] = "circular"}
             R(v, rank, b) == Ranked(reg, v, rank) /\ \A s \in Services : rank[s] < b
             E(n) == \E v, rank : \E b \in Nat : R(v, rank, b) /\ Cardinality(Circles(v)) = n
             Left == {n \in Nat : E(n)}
  <1>0. \A v : IsFiniteSet(Circles(v)) /\ Cardinality(Circles(v)) \in Nat
    <2> SUFFICES ASSUME NEW v PROVE IsFiniteSet(Circles(v))
      BY FS_CardinalityType
    <2> QED BY ContainerAssumption, FS_Subset
  <1>1. Left # {}
    <2> DEFINE v == [s \in Services |-> "circular"]
               rank == [s \in Services |-> 0]
    <2>1. R(v, rank, 1)
      BY DEF Ranked, Diagnoses
    <2>2. Cardinality(Circles(v)) \in Nat
      BY <1>0
    <2> HIDE DEF R, Circles, v, rank
    <2> QED BY <2>1, <2>2
  <1>2. PICK n \in Left : \A m \in Left : n <= m
    <2>1. Left \in SUBSET Nat
      OBVIOUS
    <2> HIDE DEF Left
    <2> QED BY <1>1, <2>1, LeastOf
  <1>3. n \in Nat /\ E(n)
    BY <1>2
  <1>4. PICK v, rank : \E b \in Nat : R(v, rank, b) /\ Cardinality(Circles(v)) = n
    BY <1>3
  <1>5. PICK b \in Nat : R(v, rank, b) /\ Cardinality(Circles(v)) = n
    BY <1>4
  <1>6. v \in [Services -> Diagnoses] /\ rank \in [Services -> Nat] /\ Ranked(reg, v, rank)
    BY <1>5 DEF Ranked
  <1>7. ASSUME NEW s \in Services, v[s] # "circular" PROVE v[s] = Judgement(reg, s, v)
    <2>1. v[s] = Judgement(reg, s, Before(v, rank, rank[s]))
      BY <1>6, <1>7 DEF Ranked
    <2>2. \A t \in Services : Before(v, rank, rank[s])[t] # "circular" => v[t] = Before(v, rank, rank[s])[t]
      BY DEF Before
    <2> QED BY <1>7, <2>1, <2>2, JudgementStands
  <1>8. ASSUME NEW s \in Services, v[s] = "circular", Judgement(reg, s, v) # "circular" PROVE FALSE
    <2> DEFINE w == [v EXCEPT ![s] = Judgement(reg, s, v)]
               r == [rank EXCEPT ![s] = b]
    <2>1. w \in [Services -> Diagnoses] /\ r \in [Services -> Nat]
      BY <1>6, JudgementType
    <2>2. \A t \in Services : r[t] < b + 1
      <3>1. \A t \in Services : rank[t] < b /\ rank[t] \in Nat
        BY <1>5, <1>6
      <3> QED BY <1>6, <3>1
    <2>3. ASSUME NEW t \in Services, w[t] # "circular" PROVE w[t] = Judgement(reg, t, Before(w, r, r[t]))
      <3>1. CASE t = s
        <4>1. \A u \in Services : Before(w, r, b)[u] = v[u]
          BY <1>5, <1>6, <1>8 DEF Before
        <4>2. Before(w, r, b) = v
          BY <1>6, <4>1 DEF Before
        <4> QED BY <1>6, <3>1, <4>2
      <3>2. CASE t # s
        <4>1. w[t] = v[t] /\ r[t] = rank[t] /\ rank[t] < b /\ rank[t] \in Nat
          BY <1>5, <1>6, <3>2
        <4>2. \A u \in Services : Before(w, r, rank[t])[u] = Before(v, rank, rank[t])[u]
          BY <1>6, <1>8, <4>1 DEF Before
        <4>3. Before(w, r, rank[t]) = Before(v, rank, rank[t])
          BY <4>2 DEF Before
        <4> QED BY <1>6, <2>3, <4>1, <4>3 DEF Ranked
      <3> QED BY <3>1, <3>2
    <2>4. R(w, r, b + 1) /\ b + 1 \in Nat
      <3> HIDE DEF w, r
      <3> QED BY <2>1, <2>2, <2>3 DEF Ranked
    <2>5. Circles(w) = Circles(v) \ {s} /\ s \in Circles(v)
      BY <1>6, <1>8
    <2>6. Cardinality(Circles(w)) = n - 1
      <3> HIDE DEF Circles
      <3> QED BY <1>0, <1>5, <2>5, FS_RemoveElement
    <2>7. n - 1 \in Nat
      BY <1>0, <2>6
    <2>8. E(n - 1)
      <3> HIDE DEF R, Circles, w, r
      <3> QED BY <2>4, <2>6
    <2>9. n - 1 \in Left
      BY <2>7, <2>8
    <2> HIDE DEF Left
    <2> QED BY <1>2, <1>3, <2>9
  <1>9. Final(reg, v)
    BY <1>7, <1>8 DEF Final
  <1> QED BY <1>6, <1>9

\* Along a chain that does not come before it, the search finds the final verdict of a
\* service that is on no circle ...
LEMMA SearchFindsVerdict ==
    ASSUME NEW reg \in Registries, NEW v, NEW rank, Ranked(reg, v, rank),
           NEW s \in Services, v[s] # "circular", NEW chain \in SUBSET Services,
           \A x \in chain : v[x] = "circular" \/ rank[x] > rank[s]
    PROVE  Diagnosis(reg)[chain][s] = v[s]
  <1> DEFINE D == Diagnosis(reg)
             Behind(t, ch) == \A x \in ch : v[x] = "circular" \/ rank[x] > rank[t]
             Wrong == {n \in Nat : \E t \in Services, ch \in SUBSET Services :
                          rank[t] = n /\ v[t] # "circular" /\ Behind(t, ch) /\ D[ch][t] # v[t]}
  <1>0. v \in [Services -> Diagnoses] /\ rank \in [Services -> Nat]
    BY DEF Ranked
  <1>1. SUFFICES ASSUME Wrong # {} PROVE FALSE
    <2>1. rank[s] \in Nat /\ Behind(s, chain)
      BY <1>0
    <2> HIDE DEF Behind, D
    <2>2. D[chain][s] # v[s] => rank[s] \in Wrong
      BY <2>1
    <2> QED BY <2>2 DEF D
  <1>2. PICK n \in Wrong : \A m \in Wrong : n <= m
    <2>1. Wrong \in SUBSET Nat
      OBVIOUS
    <2> HIDE DEF Wrong
    <2> QED BY <1>1, <2>1, LeastOf
  <1> HIDE DEF D
  <1>3. PICK t \in Services, ch \in SUBSET Services :
           rank[t] = n /\ v[t] # "circular" /\ Behind(t, ch) /\ D[ch][t] # v[t]
    <2> HIDE DEF Behind
    <2> QED BY <1>2
  <1>4. t \notin ch /\ ch \cup {t} \in SUBSET Services
    <2>1. ~ (rank[t] > rank[t])
      BY <1>0
    <2> QED BY <1>3, <2>1
  <1>5. D[ch][t] = Judgement(reg, t, D[ch \cup {t}])
    BY <1>4, DiagnosisDef DEF D
  <1> DEFINE w == Before(v, rank, rank[t])
  <1>6. v[t] = Judgement(reg, t, w)
    BY <1>3 DEF Ranked
  <1>7. ASSUME NEW u \in Services, w[u] # "circular" PROVE D[ch \cup {t}][u] = w[u]
    <2>1. rank[u] < rank[t] /\ v[u] = w[u] /\ v[u] # "circular"
      BY <1>7 DEF Before
    <2>2. rank[u] \in Nat /\ rank[t] \in Nat /\ \A x \in ch : rank[x] \in Nat
      BY <1>0
    <2>3. Behind(u, ch \cup {t})
      BY <1>3, <2>1, <2>2
    <2>4. rank[u] \notin Wrong
      <3> HIDE DEF Wrong
      <3> QED BY <1>2, <1>3, <2>1, <2>2
    <2> HIDE DEF Behind
    <2> QED BY <1>4, <2>1, <2>2, <2>3, <2>4
  <1> HIDE DEF w
  <1>8. Judgement(reg, t, D[ch \cup {t}]) = Judgement(reg, t, w)
    <2> DEFINE x == D[ch \cup {t}]
    <2>1. \A u \in Services : w[u] # "circular" => x[u] = w[u]
      BY <1>7
    <2>2. Judgement(reg, t, w) # "circular"
      BY <1>3, <1>6
    <2> HIDE DEF x
    <2>3. Judgement(reg, t, x) = Judgement(reg, t, w)
      BY <2>1, <2>2, JudgementStands
    <2> QED BY <2>3 DEF x
  <1> QED BY <1>3, <1>5, <1>6, <1>8

\* ... and, along a chain of circles, of every service.
LEMMA SearchFindsAll ==
    ASSUME NEW reg \in Registries, NEW v, NEW rank, Ranked(reg, v, rank), Final(reg, v)
    PROVE  Diagnosis(reg)[{}] = v
  <1> DEFINE D == Diagnosis(reg)
             Size(ch) == Cardinality(Services \ ch)
             Round(ch) == \A x \in ch : v[x] = "circular"
             Wrong == {n \in Nat : \E t \in Services, ch \in SUBSET Services :
                          Size(ch) = n /\ Round(ch) /\ D[ch][t] # v[t]}
  <1>0. v \in [Services -> Diagnoses] /\ rank \in [Services -> Nat]
    BY DEF Ranked
  <1>1. ASSUME NEW ch \in SUBSET Services PROVE Size(ch) \in Nat
    <2>1. IsFiniteSet(Services \ ch)
      BY ContainerAssumption, FS_Difference
    <2> QED BY <2>1, FS_CardinalityType
  <1>2. Wrong = {}
    <2>1. SUFFICES ASSUME Wrong # {} PROVE FALSE
      OBVIOUS
    <2>2. PICK n \in Wrong : \A m \in Wrong : n <= m
      <3>1. Wrong \in SUBSET Nat
        OBVIOUS
      <3> HIDE DEF Wrong
      <3> QED BY <2>1, <3>1, LeastOf
    <2> HIDE DEF D, Size
    <2>3. PICK t \in Services, ch \in SUBSET Services : Size(ch) = n /\ Round(ch) /\ D[ch][t] # v[t]
      <3> HIDE DEF Round
      <3> QED BY <2>2
    <2>4. v[t] = "circular"
      BY <2>3, SearchFindsVerdict DEF D
    <2>5. t \notin ch /\ D[ch][t] = Judgement(reg, t, D[ch \cup {t}])
      BY <2>3, <2>4, DiagnosisDef DEF D
    <2>6. ch \cup {t} \in SUBSET Services /\ Size(ch \cup {t}) = Size(ch) - 1 /\ Size(ch) \in Nat
      BY <1>1, <2>5, ChainGrows DEF Size
    <2>7. Round(ch \cup {t}) /\ Size(ch \cup {t}) \in Nat
      BY <1>1, <2>3, <2>4, <2>6
    <2>8. \A u \in Services : D[ch \cup {t}][u] = v[u]
      <3>1. Size(ch \cup {t}) \notin Wrong
        <4> HIDE DEF Wrong
        <4> QED BY <2>2, <2>3, <2>6, <2>7
      <3> HIDE DEF Round
      <3> QED BY <2>6, <2>7, <3>1
    <2>9. Judgement(reg, t, v) = "circular"
      BY <2>4 DEF Final
    <2>10. Judgement(reg, t, D[ch \cup {t}]) = "circular"
      <3> DEFINE x == D[ch \cup {t}]
      <3>1. \A u \in Services : x[u] # "circular" => v[u] = x[u]
        BY <2>8
      <3> HIDE DEF x
      <3>2. Judgement(reg, t, x) # "circular" => Judgement(reg, t, v) = Judgement(reg, t, x)
        BY <3>1, JudgementStands
      <3> QED BY <2>9, <3>2 DEF x
    <2> QED BY <2>3, <2>4, <2>5, <2>10
  <1>3. ASSUME NEW t \in Services PROVE D[{}][t] = v[t]
    <2>1. Size({}) \in Nat /\ Size({}) \notin Wrong /\ {} \in SUBSET Services
      BY <1>1, <1>2
    <2> HIDE DEF D, Size
    <2> QED BY <2>1
  <1>4. D[{}] = [t \in Services |-> D[{}][t]]
    <2>1. D[{}] = Look(reg, D, {})
      <3>1. D = [chain \in SUBSET Services |-> Look(reg, D, chain)]
        BY DiagnosisDef
      <3> HIDE DEF D
      <3> QED BY <3>1
    <2> HIDE DEF D
    <2> QED BY <2>1 DEF Look
  <1> HIDE DEF D
  <1>5. D[{}] = v
    BY <1>0, <1>3, <1>4
  <1> QED BY <1>5 DEF D

\* What the validator says of a service is final and can be reached.
LEMMA DiagnosisIsFinal ==
    ASSUME NEW reg \in Registries
    PROVE  Final(reg, Diagnosis(reg)[{}]) /\ \E rank : Ranked(reg, Diagnosis(reg)[{}], rank)
  <1>1. PICK v, rank : Ranked(reg, v, rank) /\ Final(reg, v)
    BY FinalVerdicts
  <1>2. Diagnosis(reg)[{}] = v
    BY <1>1, SearchFindsAll
  <1> QED BY <1>1, <1>2

\* Of a service on no circle, the parameters up to the first that fails have lower rank.
LEMMA LowerRank ==
    ASSUME NEW reg \in Registries, NEW v, NEW rank, Ranked(reg, v, rank),
           NEW s \in Services, reg[s] # None, v[s] # "circular",
           NEW k \in DOMAIN Visible(reg[s]),
           \A j \in DOMAIN Visible(reg[s]) : j < k => Passes(Visible(reg[s])[j], v)
    PROVE  LET t == Visible(reg[s])[k].service IN v[t] # "circular" /\ rank[t] < rank[s]
  <1> DEFINE ps == Visible(reg[s])
             t == ps[k].service
             w == Before(v, rank, rank[s])
  <1>1. \A i \in DOMAIN ps : i \in Nat /\ ps[i].service \in Services
    BY VisibleAsks
  <1>2. v[s] = Judgement(reg, s, w)
    BY DEF Ranked
  <1>3. \A u \in Services : w[u] # "circular" => w[u] = v[u] /\ rank[u] < rank[s]
    BY DEF Before
  <1> HIDE DEF w
  <1>4. w[t] # "circular"
    <2>1. CASE \A i \in DOMAIN ps : Passes(ps[i], w)
      BY <2>1 DEF Passes
    <2>2. ASSUME NEW i \in DOMAIN ps, ~Passes(ps[i], w), \A j \in DOMAIN ps : j < i => Passes(ps[j], w)
          PROVE  w[t] # "circular"
      <3>1. w[ps[i].service] = v[s]
        BY <1>2, <2>2, Judged
      <3>2. w[ps[i].service] = v[ps[i].service]
        BY <1>1, <1>3, <3>1
      <3>3. ~ (i < k)
        BY <2>2, <3>2 DEF Passes
      <3>4. CASE i = k
        BY <3>1, <3>4
      <3>5. CASE k < i
        BY <2>2, <3>5 DEF Passes
      <3>6. i \in Nat /\ k \in Nat
        BY <1>1
      <3> HIDE DEF t
      <3> QED BY <3>3, <3>4, <3>5, <3>6
    <2> QED BY <2>1, <2>2, Judged
  <1> QED BY <1>1, <1>3, <1>4

-----------------------------------------------------------------------------
(***************************************************************************)
(* The resolver: it finds what the validator says.                         *)
(***************************************************************************)
\* Nothing has been changed or shut, and no factory hides what it asks for.
Calm ==
    /\ changed = {} /\ \A o \in Owners : ~shut[o]
    /\ \A s \in Services : registry[s] # None => registry[s].kind # "factory"

\* A frame has come along the frames below it, and every parameter it is done with passes.
FrameSees(q, i, v) ==
    LET f == q[i] IN
    /\ f.chain \subseteq {q[j].service : j \in 1..(i - 1)}
    /\ f.stage \in {"enter", "wait", "build", "found"}
    /\ f.stage = "enter" => f.at = 1
    /\ f.stage # "enter" =>
          /\ f.desc.kind = "class"
          /\ \A k \in DOMAIN f.desc.params : k < f.at => Passes(f.desc.params[k], v)
    /\ f.stage = "found" => v[f.service] = "valid"
StackSees(q, v) == \A i \in DOMAIN q : FrameSees(q, i, v)

CallSees(c, v) ==
    /\ StackSees(frames[c], v)
    /\ Active(c) => frames[c][1].service = asked[c]
    /\ error[c] # None => turn = c /\ Top(c).stage \in {"enter", "build"}
    /\ error[c] \notin {None, "failed"} => error[c] = v[Top(c).service] /\ error[c] # "valid"
    /\ ended[c] \notin {None, "failed"} =>
          asked[c] \in Services /\ v[asked[c]] = IF ended[c] = "returned" THEN "valid" ELSE ended[c]

\* What is cached is valid, and every call finds the verdicts "v" or a constructor raises.
Foresight(v) ==
    /\ \A r \in cached : v[r[2]] = "valid"
    /\ \A c \in Calls : CallSees(c, v)

-----------------------------------------------------------------------------
\* What the frames of a stack see depends on the frames below them only.
LEMMA SeesSame ==
    ASSUME NEW q, NEW p, NEW v, NEW i \in Nat, FrameSees(q, i, v),
           \A j \in 1..i : p[j] = q[j] \/ (j < i /\ p[j].service = q[j].service),
           p[i] = q[i]
    PROVE  FrameSees(p, i, v)
  <1>1. \A j \in 1..(i - 1) : p[j].service = q[j].service
    BY SMT
  <1>2. {q[j].service : j \in 1..(i - 1)} = {p[j].service : j \in 1..(i - 1)}
    BY <1>1
  <1> QED BY <1>2 DEF FrameSees

LEMMA SeesPush ==
    ASSUME NEW q \in Seq(FrameRecords), NEW v, StackSees(q, v), NEW g \in FrameRecords,
           g.stage = "enter", g.at = 1, g.chain \subseteq {q[j].service : j \in 1..Len(q)}
    PROVE  StackSees(Append(q, g), v)
  <1> DEFINE p == Append(q, g)
             n == Len(q)
  <1>1. /\ n \in Nat /\ DOMAIN q = 1..n /\ DOMAIN p = 1..(n + 1) /\ p[n + 1] = g
        /\ \A j \in 1..n : p[j] = q[j]
    OBVIOUS
  <1> HIDE DEF p, n
  <1>2. ASSUME NEW i \in 1..n PROVE FrameSees(p, i, v)
    <2>1. FrameSees(q, i, v) /\ i \in Nat
      BY <1>1 DEF StackSees
    <2>2. \A j \in 1..i : p[j] = q[j]
      BY <1>1
    <2>3. p[i] = q[i]
      BY <1>1
    <2> QED BY <2>1, <2>2, <2>3, SeesSame
  <1>3. FrameSees(p, n + 1, v)
    <2>1. {q[j].service : j \in 1..n} = {p[j].service : j \in 1..((n + 1) - 1)}
      BY <1>1
    <2> QED BY <1>1, <2>1 DEF FrameSees, n
  <1>4. \A i \in 1..(n + 1) : i \in 1..n \/ i = n + 1
    BY <1>1
  <1>5. StackSees(p, v)
    BY <1>1, <1>2, <1>3, <1>4 DEF StackSees
  <1> QED BY <1>5 DEF p

LEMMA SeesTop ==
    ASSUME NEW q \in Seq(FrameRecords), NEW v, StackSees(q, v), q # << >>, NEW g \in FrameRecords,
           g.chain = q[Len(q)].chain,
           g.stage \in {"wait", "build", "found"}, g.desc.kind = "class",
           \A k \in DOMAIN g.desc.params : k < g.at => Passes(g.desc.params[k], v),
           g.stage = "found" => v[g.service] = "valid"
    PROVE  StackSees([q EXCEPT ![Len(q)] = g], v)
  <1> DEFINE n == Len(q)
             p == [q EXCEPT ![n] = g]
  <1>1. /\ n \in Nat /\ n > 0 /\ DOMAIN q = 1..n /\ DOMAIN p = 1..n /\ p[n] = g
        /\ \A j \in 1..(n - 1) : p[j] = q[j]
    OBVIOUS
  <1> HIDE DEF p, n
  <1>2. ASSUME NEW i \in 1..n, i # n PROVE FrameSees(p, i, v)
    <2>1. FrameSees(q, i, v) /\ i \in Nat
      BY <1>1 DEF StackSees
    <2>2. \A j \in 1..i : p[j] = q[j]
      BY <1>1, <1>2
    <2>3. p[i] = q[i]
      BY <1>1, <1>2
    <2> QED BY <2>1, <2>2, <2>3, SeesSame
  <1>3. FrameSees(p, n, v)
    <2>1. q[n].chain \subseteq {q[j].service : j \in 1..(n - 1)}
      BY <1>1 DEF StackSees, FrameSees
    <2>2. {q[j].service : j \in 1..(n - 1)} = {p[j].service : j \in 1..(n - 1)}
      BY <1>1
    <2>3. g.chain \subseteq {p[j].service : j \in 1..(n - 1)}
      BY <2>1, <2>2 DEF n
    <2> QED BY <1>1, <2>3 DEF FrameSees
  <1>4. StackSees(p, v)
    BY <1>1, <1>2, <1>3 DEF StackSees
  <1> QED BY <1>4 DEF p, n

LEMMA SeesRest ==
    ASSUME NEW q \in Seq(FrameRecords), NEW v, StackSees(q, v), q # << >>
    PROVE  StackSees(SubSeq(q, 1, Len(q) - 1), v)
  <1> DEFINE n == Len(q)
             p == SubSeq(q, 1, n - 1)
  <1>1. /\ n \in Nat /\ n > 0 /\ DOMAIN q = 1..n /\ DOMAIN p = 1..(n - 1)
        /\ \A j \in 1..(n - 1) : p[j] = q[j]
    OBVIOUS
  <1> HIDE DEF p, n
  <1>2. ASSUME NEW i \in 1..(n - 1) PROVE FrameSees(p, i, v)
    <2>1. FrameSees(q, i, v) /\ i \in Nat
      BY <1>1 DEF StackSees
    <2>2. \A j \in 1..i : p[j] = q[j]
      BY <1>1
    <2>3. p[i] = q[i]
      BY <1>1
    <2> QED BY <2>1, <2>2, <2>3, SeesSame
  <1>3. StackSees(p, v)
    BY <1>1, <1>2 DEF StackSees
  <1> QED BY <1>3 DEF p, n

\* The caller of a resolve that has been dealt with goes on to its next parameter.
LEMMA SeesAdvance ==
    ASSUME NEW q \in Seq(FrameRecords), NEW v, StackSees(q, v), q # << >>,
           q[Len(q)].stage = "build", q[Len(q)].desc \in Descriptors,
           Passes(q[Len(q)].desc.params[q[Len(q)].at], v)
    PROVE  LET p == [q EXCEPT ![Len(q)].at = @ + 1] IN StackSees(p, v) /\ p[1].service = q[1].service
  <1> DEFINE n == Len(q)
             f == q[n]
             g == [f EXCEPT !.at = @ + 1]
             p == [q EXCEPT ![n] = g]
  <1>1. n \in Nat /\ n \in DOMAIN q /\ f \in FrameRecords /\ f.at \in Nat
    <2>1. n \in Nat /\ n \in DOMAIN q /\ f \in FrameRecords
      OBVIOUS
    <2> QED BY <2>1 DEF FrameRecords
  <1>2. /\ g \in FrameRecords /\ g.chain = f.chain /\ g.stage = f.stage /\ g.desc = f.desc
        /\ g.service = f.service /\ g.at = f.at + 1
    BY <1>1 DEF FrameRecords
  <1>3. FrameSees(q, n, v)
    BY <1>1 DEF StackSees
  <1>4. f.stage = "build" /\ Passes(f.desc.params[f.at], v) /\ f.desc \in Descriptors
    OBVIOUS
  <1>5. \A k \in DOMAIN f.desc.params : k \in Nat
    <2>1. f.desc.params \in Seq(Asks)
      BY <1>4 DEF Descriptors, Asks
    <2> QED BY <2>1
  <1>6. p = [q EXCEPT ![Len(q)].at = @ + 1]
    BY <1>1
  <1> HIDE DEF g, f
  <1>7. f.desc.kind = "class" /\ \A k \in DOMAIN f.desc.params : k < f.at => Passes(f.desc.params[k], v)
    BY <1>3, <1>4 DEF FrameSees, f
  <1>8. \A k \in DOMAIN g.desc.params : k < g.at => Passes(g.desc.params[k], v)
    BY <1>1, <1>2, <1>4, <1>5, <1>7
  <1>9. StackSees(p, v)
    BY <1>2, <1>4, <1>7, <1>8, SeesTop DEF f
  <1>10. p[1].service = q[1].service
    BY <1>1, <1>2 DEF f
  <1> HIDE DEF p
  <1> QED BY <1>6, <1>9, <1>10

-----------------------------------------------------------------------------
\* The registrations of a calm container, and the frames that build with them.
LEMMA CalmFrame ==
    ASSUME ContainerInv, Calm, NEW v, NEW c \in Calls, CallSees(c, v), NEW i \in DOMAIN frames[c]
    PROVE  LET f == frames[c][i] IN
           /\ f \in FrameRecords /\ f.service \in Services /\ FrameSees(frames[c], i, v)
           /\ f.stage # "enter" =>
                 /\ f.desc = registry[f.service] /\ registry[f.service] # None /\ f.desc \in Descriptors
                 /\ Visible(registry[f.service]) = f.desc.params
  <1> DEFINE f == frames[c][i]
  <1>1. FieldsOK /\ StackInv(c)
    BY DEF ContainerInv
  <1>2. f \in FrameRecords
    BY <1>1, StackOf
  <1>3. f.service \in Services
    BY <1>2 DEF FrameRecords
  <1>4. FrameSees(frames[c], i, v) /\ FrameInv(f)
    BY <1>1 DEF CallSees, StackSees, StackInv
  <1>5. Quiet(f.service)
    BY <1>3 DEF Calm, Quiet, Owners
  <1>6. ASSUME f.stage # "enter"
        PROVE  /\ f.desc = registry[f.service] /\ registry[f.service] # None /\ f.desc \in Descriptors
               /\ Visible(registry[f.service]) = f.desc.params
    <2>1. f.desc = registry[f.service] /\ f.desc # None
      BY <1>4, <1>5, <1>6 DEF FrameInv
    <2>2. f.desc \in Descriptors
      BY <1>2, <2>1 DEF FrameRecords
    <2>3. f.desc.kind = "class"
      BY <1>4, <1>6 DEF FrameSees
    <2> QED BY <2>1, <2>2, <2>3 DEF Visible
  <1> QED BY <1>2, <1>3, <1>4, <1>6

\* The frame below has asked for the frame above.
LEMMA CalmCaller ==
    ASSUME ContainerInv, Calm, NEW v, NEW c \in Calls, CallSees(c, v), NEW i \in 1..(Depth(c) - 1)
    PROVE  LET f == frames[c][i]
               ps == Visible(registry[f.service]) IN
           /\ f.service \in Services /\ registry[f.service] # None
           /\ f.stage = "build" /\ f.desc.kind = "class" /\ f.desc \in Descriptors /\ ps = f.desc.params
           /\ f.at \in DOMAIN ps /\ ps[f.at].service = frames[c][i + 1].service
           /\ \A k \in DOMAIN ps : k < f.at => Passes(ps[k], v)
  <1> DEFINE f == frames[c][i]
  <1>1. FieldsOK /\ StackInv(c)
    BY DEF ContainerInv
  <1>2. i \in DOMAIN frames[c]
    BY <1>1, StackOf
  <1>3. /\ f.stage = "build" /\ f.at \in DOMAIN f.desc.params
        /\ f.desc.params[f.at].service = frames[c][i + 1].service
    BY <1>1 DEF StackInv, Asked
  <1>4. /\ f.service \in Services /\ registry[f.service] # None /\ FrameSees(frames[c], i, v)
        /\ Visible(registry[f.service]) = f.desc.params /\ f.desc \in Descriptors
    BY <1>2, <1>3, CalmFrame
  <1>5. f.desc.kind = "class" /\ \A k \in DOMAIN f.desc.params : k < f.at => Passes(f.desc.params[k], v)
    BY <1>3, <1>4 DEF FrameSees
  <1> QED BY <1>3, <1>4, <1>5

\* A resolve that comes back to its chain asks for a service on a circle: if its verdict
\* could be reached, the ranks would go down around the circle.
LEMMA CircleSeen ==
    ASSUME ContainerInv, Calm, NEW v, v = Diagnosis(registry)[{}], NEW c \in Calls, CallSees(c, v),
           Active(c), Top(c).service \in Top(c).chain
    PROVE  v[Top(c).service] = "circular"
  <1> DEFINE n == Depth(c)
             S(i) == frames[c][i].service
  <1>0. FieldsOK /\ registry \in Registries
    BY DEF ContainerInv, FieldsOK, Registries
  <1>1. n \in Nat /\ n > 0 /\ n \in DOMAIN frames[c] /\ Top(c) = frames[c][n] /\ DOMAIN frames[c] = 1..n
    BY <1>0, StackOf
  <1>2. \A i \in 1..n : S(i) \in Services
    BY <1>1, CalmFrame
  <1>3. PICK k \in 1..(n - 1) : S(k) = S(n)
    <2>1. FrameSees(frames[c], n, v)
      BY <1>1, CalmFrame
    <2> QED BY <1>1, <2>1 DEF FrameSees
  <1>4. PICK rank : Ranked(registry, v, rank)
    BY <1>0, DiagnosisIsFinal
  <1>5. rank \in [Services -> Nat]
    BY <1>4 DEF Ranked
  <1>6. SUFFICES ASSUME v[S(n)] # "circular" PROVE FALSE
    BY <1>1
  <1>7. ASSUME NEW i \in 1..(n - 1), v[S(i)] # "circular"
        PROVE  v[S(i + 1)] # "circular" /\ rank[S(i + 1)] < rank[S(i)]
    <2> DEFINE f == frames[c][i]
               ps == Visible(registry[f.service])
    <2>1. /\ f.service \in Services /\ registry[f.service] # None /\ f.at \in DOMAIN ps
          /\ ps[f.at].service = S(i + 1) /\ \A k1 \in DOMAIN ps : k1 < f.at => Passes(ps[k1], v)
      BY CalmCaller
    <2>2. v[ps[f.at].service] # "circular" /\ rank[ps[f.at].service] < rank[f.service]
      BY <1>0, <1>4, <1>7, <2>1, LowerRank
    <2> QED BY <2>1, <2>2
  <1> DEFINE Bad == {i \in 1..n : k < i /\ ~ (v[S(i)] # "circular" /\ rank[S(i)] < rank[S(k)])}
  <1>8. Bad # {}
    <2>1. k < n /\ n \in 1..n /\ S(k) \in Services
      BY <1>1, <1>2, <1>3
    <2>2. rank[S(k)] \in Nat
      BY <1>5, <2>1
    <2>3. ~ (rank[S(n)] < rank[S(k)])
      BY <1>3, <2>2
    <2> QED BY <2>1, <2>3
  <1>9. PICK i \in Bad : \A m \in Bad : i <= m
    <2>1. Bad \in SUBSET Nat
      BY <1>1
    <2> HIDE DEF Bad
    <2> QED BY <1>8, <2>1, LeastOf
  <1> HIDE DEF S, n
  <1>10. /\ i \in 1..n /\ k < i /\ ~ (v[S(i)] # "circular" /\ rank[S(i)] < rank[S(k)])
         /\ i - 1 \in 1..(n - 1) /\ (i - 1) + 1 = i /\ i - 1 \in 1..n /\ k \in 1..n
    BY <1>1, <1>3, <1>9
  <1>11. i - 1 \notin Bad
    <2>1. i - 1 \in Bad => i <= i - 1
      BY <1>9
    <2> QED BY <1>10, <2>1
  <1>12. v[S(i - 1)] # "circular" /\ (i - 1 = k \/ rank[S(i - 1)] < rank[S(k)])
    <2>1. CASE i - 1 = k
      BY <1>3, <1>6, <2>1
    <2>2. CASE i - 1 # k
      <3>1. k < i - 1
        BY <1>10, <2>2
      <3> QED BY <1>10, <1>11, <3>1
    <2> QED BY <2>1, <2>2
  <1>13. v[S(i)] # "circular" /\ rank[S(i)] < rank[S(i - 1)]
    BY <1>7, <1>10, <1>12
  <1>14. rank[S(i)] \in Nat /\ rank[S(i - 1)] \in Nat /\ rank[S(k)] \in Nat
    BY <1>2, <1>5, <1>10
  <1> QED BY <1>10, <1>12, <1>13, <1>14

-----------------------------------------------------------------------------
\* The calls that do not move see what they saw.
LEMMA OtherSees ==
    ASSUME NEW v, NEW b \in Calls, CallSees(b, v), frames'[b] = frames[b], error'[b] = error[b],
           ended'[b] = ended[b], asked'[b] = asked[b], error[b] # None => turn' = turn
    PROVE  CallSees(b, v)'
  BY DEF CallSees, Active, Top, Depth

\* While one call has the event loop, or none, the others raise nothing.
LEMMA OthersSee ==
    ASSUME NEW v, Foresight(v), NEW c \in Calls, turn \in {c, None},
           \A b \in Calls \ {c} : /\ frames'[b] = frames[b] /\ error'[b] = error[b]
                                  /\ ended'[b] = ended[b] /\ asked'[b] = asked[b]
    PROVE  \A b \in Calls \ {c} : CallSees(b, v)'
  <1> SUFFICES ASSUME NEW b \in Calls \ {c} PROVE CallSees(b, v)'
    OBVIOUS
  <1>1. CallSees(b, v)
    BY DEF Foresight
  <1>2. error[b] = None
    <2>1. turn # b
      BY EventLoopAssumption
    <2> QED BY <1>1, <2>1 DEF CallSees
  <1> QED BY <1>1, <1>2, OtherSees

\* What is left of a stack after its innermost resolve.
LEMMA RestOf ==
    ASSUME ContainerInv, NEW c \in Calls, Active(c)
    PROVE  LET rest == SubSeq(frames[c], 1, Depth(c) - 1) IN
           /\ rest \in Seq(FrameRecords) /\ Len(rest) = Depth(c) - 1
           /\ \A i \in 1..(Depth(c) - 1) : rest[i] = frames[c][i]
           /\ rest = << >> <=> Depth(c) = 1
           /\ Depth(c) \in Nat /\ Depth(c) > 0 /\ frames[c] \in Seq(FrameRecords) /\ frames[c] # << >>
  <1>1. FieldsOK
    BY DEF ContainerInv
  <1>2. frames[c] \in Seq(FrameRecords) /\ Depth(c) \in Nat /\ Depth(c) > 0 /\ Depth(c) = Len(frames[c])
    BY <1>1, StackOf DEF Depth
  <1>3. frames[c] # << >>
    BY DEF Active
  <1> DEFINE q == frames[c]
             n == Depth(c)
  <1>4. q \in Seq(FrameRecords) /\ n \in Nat /\ n > 0 /\ n = Len(q)
    BY <1>2
  <1> HIDE DEF q, n
  <1>5. /\ SubSeq(q, 1, n - 1) \in Seq(FrameRecords) /\ Len(SubSeq(q, 1, n - 1)) = n - 1
        /\ \A i \in 1..(n - 1) : SubSeq(q, 1, n - 1)[i] = q[i]
    BY <1>4
  <1>6. SubSeq(q, 1, n - 1) = << >> <=> n = 1
    <2> DEFINE r == SubSeq(q, 1, n - 1)
    <2>1. r \in Seq(FrameRecords) /\ Len(r) = n - 1
      BY <1>5
    <2> HIDE DEF r
    <2>2. r = << >> => Len(r) = 0
      OBVIOUS
    <2>3. Len(r) = 0 => r = << >>
      BY <2>1
    <2> QED BY <1>4, <2>1, <2>2, <2>3 DEF r
  <1> QED BY <1>2, <1>3, <1>5, <1>6 DEF q, n

-----------------------------------------------------------------------------
\* A resolve that returns has found a service the validator calls valid.
LEMMA ReturnSees ==
    ASSUME ContainerInv, Calm, NEW v, Foresight(v), NEW c \in Calls, turn = c, error[c] = None,
           NEW records, \A r \in records : v[r[2]] = "valid", v[Top(c).service] = "valid",
           Return(c, records), UNCHANGED <<error, asked>>
    PROVE  Foresight(v)'
  <1> DEFINE rest == SubSeq(frames[c], 1, Depth(c) - 1)
             n == Len(rest)
  <1>0. FieldsOK /\ StackInv(c) /\ CallSees(c, v)
    BY DEF ContainerInv, Foresight
  <1>1. Active(c) /\ ended[c] = None
    BY <1>0 DEF StackInv
  <1>2. /\ rest \in Seq(FrameRecords) /\ n = Depth(c) - 1
        /\ \A i \in 1..(Depth(c) - 1) : rest[i] = frames[c][i]
        /\ rest = << >> <=> Depth(c) = 1
        /\ Depth(c) \in Nat /\ Depth(c) > 0 /\ frames[c] \in Seq(FrameRecords) /\ frames[c] # << >>
    BY <1>1, RestOf
  <1>3. Top(c) = frames[c][Depth(c)] /\ frames[c][1].service = asked[c] /\ Top(c).service \in Services
    BY <1>0, <1>1, StackOf DEF Top, CallSees, FrameRecords
  <1>4. \A r \in cached' : v[r[2]] = "valid"
    BY DEF Return
  <1>5. CASE rest = << >>
    <2>1. frames' = [frames EXCEPT ![c] = << >>] /\ ended' = [ended EXCEPT ![c] = "returned"]
      BY <1>5 DEF Return
    <2>2. frames'[c] = << >> /\ ended'[c] = "returned"
      BY <1>0, <2>1 DEF FieldsOK
    <2>3. \A b \in Calls \ {c} : frames'[b] = frames[b] /\ ended'[b] = ended[b]
      BY <1>0, <2>1 DEF FieldsOK
    <2>4. Top(c).service = asked[c]
      BY <1>2, <1>3, <1>5
    <2>5. CallSees(c, v)'
      BY <1>3, <2>2, <2>4 DEF CallSees, StackSees, Active
    <2>6. \A b \in Calls \ {c} : CallSees(b, v)'
      BY <2>3, OthersSee
    <2> QED BY <1>4, <2>5, <2>6 DEF Foresight
  <1>6. CASE rest # << >>
    <2> DEFINE f == rest[n]
               q == [rest EXCEPT ![n].at = @ + 1]
    <2>1. frames' = [frames EXCEPT ![c] = q] /\ ended' = ended
      BY <1>6 DEF Return
    <2>2. n \in 1..(Depth(c) - 1) /\ n + 1 = Depth(c) /\ 1 \in 1..(Depth(c) - 1)
      BY <1>2, <1>6
    <2>3. f = frames[c][n] /\ rest[1] = frames[c][1]
      BY <1>2, <2>2
    <2>4. /\ f.stage = "build" /\ f.desc \in Descriptors
          /\ f.desc.params[f.at].service = Top(c).service
      <3> DEFINE g == frames[c][n]
      <3>1. CallSees(c, v) /\ n \in 1..(Depth(c) - 1)
        BY <1>0, <2>2
      <3>2. g.stage = "build" /\ g.desc \in Descriptors /\ g.desc.params[g.at].service = frames[c][n + 1].service
        <4> HIDE DEF n
        <4> QED BY <3>1, CalmCaller
      <3> QED BY <1>3, <2>2, <2>3, <3>2
    <2>5. Passes(f.desc.params[f.at], v)
      BY <2>4 DEF Passes
    <2>6. StackSees(rest, v)
      BY <1>0, <1>2, SeesRest DEF CallSees, Depth
    <2>7. StackSees(q, v) /\ q[1].service = rest[1].service
      <3> HIDE DEF rest
      <3> QED BY <1>2, <1>6, <2>4, <2>5, <2>6, SeesAdvance
    <2> HIDE DEF q
    <2>8. frames'[c] = q /\ \A b \in Calls \ {c} : frames'[b] = frames[b]
      BY <1>0, <2>1 DEF FieldsOK
    <2>9. CallSees(c, v)'
      BY <1>1, <1>3, <2>1, <2>3, <2>7, <2>8 DEF CallSees
    <2>10. \A b \in Calls \ {c} : CallSees(b, v)'
      BY <2>1, <2>8, OthersSee
    <2> QED BY <1>4, <2>9, <2>10 DEF Foresight
  <1> QED BY <1>5, <1>6

\* An exception that unwinds a stack is the verdict on every frame it passes, unless a
\* constructor has raised it: then nobody recovers from it.
LEMMA UnwindSees ==
    ASSUME ContainerInv, Calm, NEW v, v = Diagnosis(registry)[{}], Foresight(v), NEW c \in Calls, Unwind(c)
    PROVE  Foresight(v)'
  <1> DEFINE rest == SubSeq(frames[c], 1, Depth(c) - 1)
             n == Len(rest)
             e == error[c]
  <1>0. /\ FieldsOK /\ StackInv(c) /\ CallSees(c, v) /\ turn = c /\ error[c] # None /\ asked' = asked
        /\ cached' \subseteq cached
    BY DEF ContainerInv, Foresight, Unwind
  <1>1. Active(c) /\ ended[c] = None
    BY <1>0 DEF StackInv
  <1>2. /\ rest \in Seq(FrameRecords) /\ n = Depth(c) - 1
        /\ \A i \in 1..(Depth(c) - 1) : rest[i] = frames[c][i]
        /\ rest = << >> <=> Depth(c) = 1
        /\ Depth(c) \in Nat /\ Depth(c) > 0 /\ frames[c] \in Seq(FrameRecords) /\ frames[c] # << >>
    BY <1>1, RestOf
  <1>3. /\ Top(c) = frames[c][Depth(c)] /\ frames[c][1].service = asked[c] /\ Top(c).service \in Services
        /\ e # "failed" => e = v[Top(c).service] /\ e # "valid"
        /\ e \in Errors
    BY <1>0, <1>1, StackOf DEF Top, CallSees, FrameRecords, FieldsOK
  <1>4. \A r \in cached' : v[r[2]] = "valid"
    BY <1>0 DEF Foresight
  <1>5. CASE rest = << >>
    <2>1. frames' = [frames EXCEPT ![c] = << >>] /\ ended' = [ended EXCEPT ![c] = e] /\ error' = [error EXCEPT ![c] = None]
      BY <1>5 DEF Unwind, Raise
    <2>2. frames'[c] = << >> /\ ended'[c] = e /\ error'[c] = None
      BY <1>0, <2>1 DEF FieldsOK
    <2>3. \A b \in Calls \ {c} : frames'[b] = frames[b] /\ ended'[b] = ended[b] /\ error'[b] = error[b]
      BY <1>0, <2>1 DEF FieldsOK
    <2>4. Top(c).service = asked[c] /\ e # "returned"
      BY <1>2, <1>3, <1>5 DEF Errors
    <2>5. CallSees(c, v)'
      BY <1>0, <1>3, <2>2, <2>4 DEF CallSees, StackSees, Active
    <2>6. \A b \in Calls \ {c} : CallSees(b, v)'
      BY <1>0, <2>3, OthersSee
    <2> QED BY <1>4, <2>5, <2>6 DEF Foresight
  <1>6. CASE rest # << >>
    <2> DEFINE f == rest[n]
               ps == Visible(registry[f.service])
    <2>2. n \in 1..(Depth(c) - 1) /\ n + 1 = Depth(c) /\ 1 \in 1..(Depth(c) - 1)
      BY <1>2, <1>6
    <2>3. f = frames[c][n] /\ rest[1] = frames[c][1]
      BY <1>2, <2>2
    <2>4. /\ f.service \in Services /\ registry[f.service] # None
          /\ f.stage = "build" /\ f.desc.kind = "class" /\ f.desc \in Descriptors /\ ps = f.desc.params
          /\ f.at \in DOMAIN ps /\ ps[f.at].service = Top(c).service
          /\ \A k \in DOMAIN ps : k < f.at => Passes(ps[k], v)
      BY <1>0, <1>3, <2>2, <2>3, CalmCaller
    <2>6. StackSees(rest, v)
      BY <1>0, <1>2, SeesRest DEF CallSees, Depth
    <2>7. ended' = ended /\ turn' = turn
      BY <1>6 DEF Unwind
    <2>8. CASE Recovers(f, e)
      <3> DEFINE q == [rest EXCEPT ![n].at = @ + 1]
      <3>1. frames' = [frames EXCEPT ![c] = q] /\ error' = [error EXCEPT ![c] = None]
        BY <1>6, <2>8 DEF Unwind, Raise
      <3>2. Passes(f.desc.params[f.at], v)
        <4>1. e = "missing"
          BY <2>8 DEF Recovers
        <4> QED BY <1>3, <2>4, <2>8, <4>1 DEF Passes, Recovers
      <3>3. StackSees(q, v) /\ q[1].service = rest[1].service
        <4> HIDE DEF rest
        <4> QED BY <1>2, <1>6, <2>4, <2>6, <3>2, SeesAdvance
      <3> HIDE DEF q
      <3>4. frames'[c] = q /\ error'[c] = None /\ \A b \in Calls \ {c} : frames'[b] = frames[b] /\ error'[b] = error[b]
        BY <1>0, <3>1 DEF FieldsOK
      <3>5. CallSees(c, v)'
        BY <1>0, <1>1, <1>3, <2>3, <2>7, <3>3, <3>4 DEF CallSees
      <3>6. \A b \in Calls \ {c} : CallSees(b, v)'
        BY <1>0, <2>7, <3>4, OthersSee
      <3> QED BY <1>4, <3>5, <3>6 DEF Foresight
    <2>9. CASE ~Recovers(f, e)
      <3>1. frames' = [frames EXCEPT ![c] = rest] /\ error' = error
        BY <1>6, <2>9 DEF Unwind
      <3>2. e # "failed" => ~Passes(ps[f.at], v)
        BY <1>3, <2>4, <2>9 DEF Passes, Recovers
      <3>3. ASSUME e # "failed" PROVE v[f.service] = e
        <4>1. registry \in Registries
          BY <1>0 DEF FieldsOK, Registries
        <4>2. Judgement(registry, f.service, v) = v[ps[f.at].service]
          <5> DEFINE s == f.service
                     k == f.at
                     qs == Visible(registry[s])
          <5>1. s \in Services /\ registry[s] # None /\ k \in DOMAIN qs /\ ~Passes(qs[k], v)
            BY <2>4, <3>2, <3>3
          <5>2. \A j \in DOMAIN qs : j < k => Passes(qs[j], v)
            BY <2>4
          <5> HIDE DEF s, k
          <5>3. Judgement(registry, s, v) = v[qs[k].service]
            BY <4>1, <5>1, <5>2, Judged
          <5> QED BY <5>3 DEF s, k
        <4>3. v[f.service] = Judgement(registry, f.service, v)
          BY <2>4, <4>1, DiagnosisIsFinal DEF Final
        <4> QED BY <1>3, <2>4, <3>3, <4>2, <4>3
      <3>4. frames'[c] = rest /\ \A b \in Calls \ {c} : frames'[b] = frames[b]
        BY <1>0, <3>1 DEF FieldsOK
      <3>5. Top(c)' = f
        BY <3>4 DEF Top, Depth
      <3> HIDE DEF rest
      <3>6. CallSees(c, v)'
        BY <1>0, <1>1, <1>3, <2>3, <2>4, <2>6, <2>7, <3>1, <3>3, <3>4, <3>5 DEF CallSees
      <3>7. \A b \in Calls \ {c} : CallSees(b, v)'
        BY <1>0, <2>7, <3>1, <3>4, OthersSee
      <3> QED BY <1>4, <3>6, <3>7 DEF Foresight
    <2> QED BY <2>8, <2>9
  <1> QED BY <1>5, <1>6

-----------------------------------------------------------------------------
\* The call goes on with another innermost frame of the same service.
LEMMA TopSees ==
    ASSUME ContainerInv, Calm, NEW v, Foresight(v), NEW c \in Calls, Active(c), turn \in {c, None},
           NEW g \in FrameRecords, g.service = Top(c).service, g.chain = Top(c).chain,
           g.stage \in {"wait", "build", "found"}, g.desc.kind = "class",
           \A k \in DOMAIN g.desc.params : k < g.at => Passes(g.desc.params[k], v),
           g.stage = "found" => v[g.service] = "valid",
           SetTop(c, g), error[c] = None, UNCHANGED <<cached, error, ended, asked>>
    PROVE  Foresight(v)'
  <1> DEFINE q == frames[c]
             p == [q EXCEPT ![Len(q)] = g]
  <1>0. FieldsOK /\ CallSees(c, v)
    BY DEF ContainerInv, Foresight
  <1>1. q \in Seq(FrameRecords) /\ q # << >> /\ Top(c) = q[Len(q)] /\ Len(q) \in DOMAIN q
    BY <1>0, StackOf DEF Active, Top, Depth
  <1>2. frames' = [frames EXCEPT ![c] = p]
    BY DEF SetTop
  <1>3. frames'[c] = p /\ \A b \in Calls \ {c} : frames'[b] = frames[b]
    BY <1>0, <1>2 DEF FieldsOK
  <1>4. StackSees(p, v)
    BY <1>0, <1>1, SeesTop DEF CallSees
  <1>5. p[1].service = q[1].service
    BY <1>1
  <1>6. CallSees(c, v)'
    <2>1. q[1].service = asked[c] /\ (ended[c] \notin {None, "failed"} => asked[c] \in Services /\ v[asked[c]] = IF ended[c] = "returned" THEN "valid" ELSE ended[c])
      BY <1>0 DEF CallSees
    <2> HIDE DEF p, q
    <2> QED BY <1>3, <1>4, <1>5, <2>1 DEF CallSees
  <1>7. \A b \in Calls \ {c} : CallSees(b, v)'
    BY <1>3, OthersSee
  <1> QED BY <1>6, <1>7 DEF Foresight

\* A call that raises the verdict on its innermost frame, or an exception of a constructor.
LEMMA RaiseSees ==
    ASSUME NEW v, Foresight(v), ContainerInv, NEW c \in Calls, turn = c, Top(c).stage \in {"enter", "build"},
           NEW e \in {"missing", "circular", "failed"}, e # "failed" => e = v[Top(c).service], Raise(c, e),
           UNCHANGED <<cached, frames, ended, asked, turn>>
    PROVE  Foresight(v)'
  <1>1. CallSees(c, v) /\ error' = [error EXCEPT ![c] = e] /\ error \in [Calls -> Errors \cup {None}]
    BY DEF Foresight, Raise, ContainerInv, FieldsOK
  <1>2. error'[c] = e /\ \A b \in Calls \ {c} : error'[b] = error[b]
    BY <1>1
  <1>3. CallSees(c, v)'
    BY <1>1, <1>2 DEF CallSees, Active, Top, Depth
  <1>4. \A b \in Calls \ {c} : CallSees(b, v)'
    BY <1>2, OthersSee
  <1> QED BY <1>3, <1>4 DEF Foresight

\* Every way into a resolve agrees with the verdict.
LEMMA EnterSees ==
    ASSUME ContainerInv, Calm, NEW v, v = Diagnosis(registry)[{}], Foresight(v), NEW c \in Calls, Enter(c)
    PROVE  Foresight(v)'
  <1> DEFINE f == Top(c)
             s == f.service
             d == registry[s]
             lock == <<s, generation[s]>>
  <1>0. /\ FieldsOK /\ StackInv(c) /\ CallSees(c, v) /\ turn = c /\ error[c] = None /\ f.stage = "enter"
        /\ asked' = asked
    BY DEF ContainerInv, Foresight, Enter
  <1>1. Active(c)
    BY <1>0 DEF StackInv
  <1>2. f \in FrameRecords /\ s \in Services /\ f.at = 1 /\ Depth(c) \in DOMAIN frames[c] /\ f = frames[c][Depth(c)]
    <2>1. f \in FrameRecords /\ Depth(c) \in DOMAIN frames[c] /\ f = frames[c][Depth(c)]
      BY <1>0, <1>1, StackOf
    <2>2. f.at = 1
      BY <1>0, <2>1 DEF CallSees, StackSees, FrameSees
    <2> QED BY <2>1, <2>2 DEF FrameRecords
  <1>3. registry \in Registries /\ Final(registry, v)
    <2>1. registry \in Registries
      BY <1>0 DEF FieldsOK, Registries
    <2> QED BY <2>1, DiagnosisIsFinal
  <1>4. ASSUME s \in f.chain, Raise(c, "circular"), UNCHANGED <<cached, frames, ended, turn>>
        PROVE  Foresight(v)'
    <2>1. v[s] = "circular"
      BY <1>0, <1>1, <1>4, CircleSeen
    <2> QED BY <1>0, <1>4, <2>1, RaiseSees
  <1>5. ASSUME d = None, Raise(c, "missing"), UNCHANGED <<cached, frames, ended, turn>>
        PROVE  Foresight(v)'
    <2>1. v[s] = "missing"
      BY <1>2, <1>3, <1>5 DEF Final, Judgement
    <2> QED BY <1>0, <1>5, <2>1, RaiseSees
  <1>6. ASSUME d # None, d.kind = "instance" \/ (d.lifetime # "TRANSIENT" /\ s \in Cached(OwnerOf(d, f))),
               Return(c, cached), UNCHANGED error
        PROVE  Foresight(v)'
    <2>1. v[s] = "valid"
      <3>1. CASE d.kind = "instance"
        <4>1. Visible(d) = << >>
          BY <3>1 DEF Visible
        <4>2. Judgement(registry, s, v) = "valid"
          BY <1>6, <4>1 DEF Judgement
        <4> QED BY <1>2, <1>3, <4>2 DEF Final
      <3>2. CASE s \in Cached(OwnerOf(d, f))
        <4>1. <<OwnerOf(d, f), s>> \in cached
          BY <3>2 DEF Cached
        <4> QED BY <4>1 DEF Foresight
      <3> QED BY <1>6, <3>1, <3>2
    <2>2. \A r \in cached : v[r[2]] = "valid"
      BY DEF Foresight
    <2> QED BY <1>0, <1>6, <2>1, <2>2, ReturnSees
  <1>7. ASSUME d # None, d.kind # "instance",
               IF d.lifetime # "SINGLETON"
               THEN SetTop(c, [f EXCEPT !.stage = "build", !.desc = d])
               ELSE IF lock \in held
                    THEN SetTop(c, [f EXCEPT !.stage = "wait", !.lock = lock, !.desc = d])
                    ELSE SetTop(c, [f EXCEPT !.stage = "build", !.lock = lock, !.desc = d]),
               UNCHANGED <<cached, error, ended>>
        PROVE  Foresight(v)'
    <2>1. d \in Descriptors /\ lock \in Locks /\ d.kind # "factory"
      BY <1>0, <1>2, <1>7 DEF FieldsOK, Locks, Calm
    <2>2. d.kind = "class" /\ \A k \in DOMAIN d.params : k \in Nat /\ k > 0
      <3>1. d.params \in Seq(Asks) /\ d.kind \in {"class", "factory", "instance"}
        BY <2>1 DEF Descriptors, Asks
      <3> QED BY <1>7, <2>1, <3>1
    <2>3. ASSUME NEW g \in FrameRecords, SetTop(c, g), g.service = s, g.chain = f.chain, g.at = 1,
                 g.desc = d, g.stage \in {"wait", "build"}
          PROVE  Foresight(v)'
      <3>1. \A k \in DOMAIN g.desc.params : ~ (k < g.at)
        BY <2>2, <2>3
      <3> QED BY <1>0, <1>1, <1>7, <2>2, <2>3, <3>1, TopSees
    <2>4. CASE d.lifetime # "SINGLETON"
      <3> DEFINE g == [f EXCEPT !.stage = "build", !.desc = d]
      <3>1. g \in FrameRecords /\ g.service = s /\ g.chain = f.chain /\ g.at = 1 /\ g.desc = d /\ g.stage = "build"
        BY <1>2, <2>1 DEF FrameRecords, Stages
      <3>2. SetTop(c, g)
        BY <1>7, <2>4
      <3> HIDE DEF g
      <3> QED BY <2>3, <3>1, <3>2
    <2>5. CASE d.lifetime = "SINGLETON" /\ lock \in held
      <3> DEFINE g == [f EXCEPT !.stage = "wait", !.lock = lock, !.desc = d]
      <3>1. g \in FrameRecords /\ g.service = s /\ g.chain = f.chain /\ g.at = 1 /\ g.desc = d /\ g.stage = "wait"
        BY <1>2, <2>1 DEF FrameRecords, Stages
      <3>2. SetTop(c, g)
        BY <1>7, <2>5
      <3> HIDE DEF g
      <3> QED BY <2>3, <3>1, <3>2
    <2>6. CASE d.lifetime = "SINGLETON" /\ lock \notin held
      <3> DEFINE g == [f EXCEPT !.stage = "build", !.lock = lock, !.desc = d]
      <3>1. g \in FrameRecords /\ g.service = s /\ g.chain = f.chain /\ g.at = 1 /\ g.desc = d /\ g.stage = "build"
        BY <1>2, <2>1 DEF FrameRecords, Stages
      <3>2. SetTop(c, g)
        BY <1>7, <2>6
      <3> HIDE DEF g
      <3> QED BY <2>3, <3>1, <3>2
    <2> QED BY <2>4, <2>5, <2>6
  <1> QED BY <1>4, <1>5, <1>6, <1>7 DEF Enter

\* The second look finds only what is valid.
LEMMA AcquireSees ==
    ASSUME ContainerInv, Calm, NEW v, Foresight(v), NEW c \in Calls, Acquire(c)
    PROVE  Foresight(v)'
  <1> DEFINE f == Top(c)
             stage == IF f.service \in Cached(Container) THEN "found" ELSE "build"
             g == [f EXCEPT !.stage = stage]
  <1>0. /\ FieldsOK /\ CallSees(c, v) /\ turn = None /\ Active(c) /\ f.stage = "wait"
        /\ SetTop(c, g) /\ UNCHANGED <<cached, error, ended, asked>>
    BY DEF ContainerInv, Foresight, Acquire
  <1>1. f \in FrameRecords /\ Depth(c) \in DOMAIN frames[c] /\ f = frames[c][Depth(c)]
    BY <1>0, StackOf
  <1>2. FrameSees(frames[c], Depth(c), v)
    BY <1>0, <1>1 DEF CallSees, StackSees
  <1>3. f.desc.kind = "class" /\ \A k \in DOMAIN f.desc.params : k < f.at => Passes(f.desc.params[k], v)
    BY <1>0, <1>1, <1>2 DEF FrameSees
  <1>4. stage = "found" => v[f.service] = "valid"
    BY DEF Cached, Foresight
  <1>5. stage \in {"found", "build"}
    OBVIOUS
  <1> HIDE DEF stage
  <1>6. /\ g \in FrameRecords /\ g.service = f.service /\ g.chain = f.chain /\ g.at = f.at
        /\ g.desc = f.desc /\ g.stage = stage
    BY <1>1, <1>5 DEF FrameRecords, Stages
  <1>7. error[c] = None
    BY <1>0, EventLoopAssumption DEF CallSees
  <1>8. SetTop(c, g)
    BY <1>0
  <1> HIDE DEF g
  <1> QED BY <1>0, <1>3, <1>4, <1>5, <1>6, <1>7, <1>8, TopSees

\* A parameter is asked for along the chain of its frame.
LEMMA AskSees ==
    ASSUME ContainerInv, Calm, NEW v, Foresight(v), NEW c \in Calls, Ask(c)
    PROVE  Foresight(v)'
  <1> DEFINE f == Top(c)
             p == f.desc.params[f.at]
             g == Frame(p.service, f.scope, f.chain \cup {f.service})
             q == frames[c]
  <1>0. /\ FieldsOK /\ StackInv(c) /\ CallSees(c, v) /\ turn = c /\ error[c] = None /\ f.stage = "build"
        /\ f.at <= Len(f.desc.params) /\ UNCHANGED <<cached, ended, asked, turn>>
    BY DEF ContainerInv, Foresight, Ask
  <1>1. Active(c) /\ ended[c] = None
    BY <1>0 DEF StackInv
  <1>2. /\ f \in FrameRecords /\ Depth(c) \in DOMAIN q /\ f = q[Depth(c)] /\ q \in Seq(FrameRecords)
        /\ Depth(c) = Len(q) /\ q # << >>
    BY <1>0, <1>1, StackOf DEF Depth, Active
  <1>3. FrameSees(q, Len(q), v) /\ f.desc \in Descriptors /\ f.service \in Services
    <2>1. FrameSees(q, Len(q), v)
      BY <1>0, <1>2 DEF CallSees, StackSees
    <2> QED BY <1>0, <1>2, <2>1, CalmFrame
  <1>4. f.desc.kind = "class" /\ f.chain \subseteq {q[j].service : j \in 1..(Len(q) - 1)}
    BY <1>0, <1>2, <1>3 DEF FrameSees
  <1>5. p.service \in Services
    <2> DEFINE ps == f.desc.params
               k == f.at
    <2>1. ps \in Seq(Asks) /\ k \in Nat \ {0} /\ k <= Len(ps)
      BY <1>0, <1>2, <1>3 DEF Descriptors, Asks, FrameRecords
    <2> HIDE DEF ps, k
    <2>2. ps[k] \in Asks
      BY <2>1
    <2>3. ps[k].service \in Services
      BY <2>2 DEF Asks
    <2> QED BY <2>3 DEF ps, k
  <1>6. frames' = [frames EXCEPT ![c] = Append(q, g)] /\ error' = error
    BY <1>4 DEF Ask
  <1>7. g \in FrameRecords /\ g.stage = "enter" /\ g.at = 1 /\ g.chain = f.chain \cup {f.service}
    <2>1. f.scope \in Scopes \cup Dictionaries /\ f.chain \cup {f.service} \in SUBSET Services
      BY <1>2 DEF FrameRecords
    <2> QED BY <1>5, <2>1 DEF Frame, FrameRecords, Stages
  <1> HIDE DEF g
  <1>8. g.chain \subseteq {q[j].service : j \in 1..Len(q)}
    <2>1. Len(q) \in Nat /\ Len(q) \in 1..Len(q)
      BY <1>2
    <2>2. {q[j].service : j \in 1..(Len(q) - 1)} \subseteq {q[j].service : j \in 1..Len(q)}
      BY <2>1
    <2>3. f.service \in {q[j].service : j \in 1..Len(q)}
      BY <1>2, <2>1
    <2> QED BY <1>4, <1>7, <2>2, <2>3
  <1>9. StackSees(Append(q, g), v)
    BY <1>0, <1>2, <1>7, <1>8, SeesPush DEF CallSees
  <1>10. Append(q, g)[1] = q[1]
    BY <1>2
  <1>11. frames'[c] = Append(q, g) /\ \A b \in Calls \ {c} : frames'[b] = frames[b]
    BY <1>0, <1>6 DEF FieldsOK
  <1>12. CallSees(c, v)'
    BY <1>0, <1>1, <1>6, <1>9, <1>10, <1>11 DEF CallSees
  <1>13. \A b \in Calls \ {c} : CallSees(b, v)'
    BY <1>0, <1>6, <1>11, OthersSee
  <1> QED BY <1>0, <1>12, <1>13 DEF Foresight

\* What is built has all its parameters.
LEMMA MadeSees ==
    ASSUME ContainerInv, Calm, NEW v, v = Diagnosis(registry)[{}], Foresight(v), NEW c \in Calls, Made(c)
    PROVE  Foresight(v)'
  <1> DEFINE f == Top(c)
             records == IF f.desc.lifetime = "TRANSIENT" THEN cached
                        ELSE cached \cup {<<OwnerOf(f.desc, f), f.service>>}
  <1>0. /\ FieldsOK /\ StackInv(c) /\ CallSees(c, v) /\ turn = c /\ error[c] = None /\ Complete(c)
        /\ Return(c, records) /\ UNCHANGED <<error, asked>>
    BY DEF ContainerInv, Foresight, Made
  <1>1. Active(c)
    BY <1>0 DEF StackInv
  <1>2. Depth(c) \in DOMAIN frames[c] /\ f = frames[c][Depth(c)] /\ f \in FrameRecords
    BY <1>0, <1>1, StackOf
  <1>3. FrameSees(frames[c], Depth(c), v)
    BY <1>0, <1>2 DEF CallSees, StackSees
  <1>4. f.stage = "build" /\ f.at > Len(f.desc.params)
    BY <1>0, <1>2, <1>3 DEF FrameSees, Complete
  <1>5. /\ f.service \in Services /\ registry[f.service] # None /\ f.desc \in Descriptors
        /\ Visible(registry[f.service]) = f.desc.params
    BY <1>0, <1>2, <1>4, CalmFrame
  <1>6. \A k \in DOMAIN f.desc.params : Passes(f.desc.params[k], v)
    <2>1. \A k \in DOMAIN f.desc.params : k < f.at => Passes(f.desc.params[k], v)
      BY <1>2, <1>3, <1>4 DEF FrameSees
    <2>2. f.desc.params \in Seq(Asks) /\ f.at \in Nat
      BY <1>2, <1>5 DEF Descriptors, Asks, FrameRecords
    <2>3. \A k \in DOMAIN f.desc.params : k < f.at
      BY <1>4, <2>2
    <2> QED BY <2>1, <2>3
  <1>7. v[f.service] = "valid"
    <2>1. registry \in Registries
      BY <1>0 DEF FieldsOK, Registries
    <2>2. Judgement(registry, f.service, v) = "valid"
      BY <1>5, <1>6, <2>1, Judged
    <2> QED BY <1>5, <2>1, <2>2, DiagnosisIsFinal DEF Final
  <1>8. \A r \in records : v[r[2]] = "valid"
    BY <1>7 DEF Foresight
  <1> HIDE DEF records
  <1> QED BY <1>0, <1>7, <1>8, ReturnSees

-----------------------------------------------------------------------------
\* Everything a resolve does, seen from a calm container.
LEMMA ResolveStepSees ==
    ASSUME ContainerInv, Calm, NEW v, v = Diagnosis(registry)[{}], Foresight(v), NEW c \in Calls, ResolveStep(c)
    PROVE  Foresight(v)'
  <1>0. FieldsOK /\ StackInv(c) /\ CallSees(c, v)
    BY DEF ContainerInv, Foresight
  <1>1. ASSUME Active(c) PROVE /\ Top(c).stage \in {"enter", "wait", "build", "found"}
                               /\ Top(c).stage # "enter" => Top(c).desc.kind = "class"
                               /\ Top(c).stage = "found" => v[Top(c).service] = "valid"
    <2>1. Depth(c) \in DOMAIN frames[c] /\ Top(c) = frames[c][Depth(c)]
      BY <1>0, <1>1, StackOf
    <2>2. FrameSees(frames[c], Depth(c), v)
      BY <1>0, <2>1 DEF CallSees, StackSees
    <2> QED BY <2>1, <2>2 DEF FrameSees
  <1>2. turn = c => Active(c)
    BY <1>0 DEF StackInv
  <1>3. CASE Found(c)
    <2>1. turn = c /\ Active(c) /\ Top(c).stage = "found" /\ Return(c, cached) /\ UNCHANGED <<error, asked>>
      BY <1>3 DEF Found
    <2>2. error[c] = None
      BY <1>0, <2>1 DEF CallSees
    <2>3. v[Top(c).service] = "valid" /\ \A r \in cached : v[r[2]] = "valid"
      BY <1>1, <2>1 DEF Foresight
    <2> QED BY <2>1, <2>2, <2>3, ReturnSees
  <1>4. ~Suspend(c)
    BY <1>1, <1>2 DEF Suspend
  <1>5. ~Wake(c)
    BY <1>1 DEF Wake
  <1>6. CASE MakingRaises(c)
    <2>1. turn = c /\ Raise(c, "failed") /\ UNCHANGED <<cached, frames, ended, asked, turn>>
      BY <1>6 DEF MakingRaises
    <2>2. Top(c).stage \in {"enter", "build"}
      BY <1>1, <1>2, <1>6 DEF MakingRaises, Complete
    <2> QED BY <2>1, <2>2, RaiseSees
  <1> QED BY <1>3, <1>4, <1>5, <1>6, EnterSees, AcquireSees, AskSees, MadeSees, UnwindSees DEF ResolveStep

\* A resolve begins with an empty chain.
LEMMA ResolveSees ==
    ASSUME ContainerInv, Calm, DOMAIN asked = Calls, NEW v, Foresight(v), NEW c \in Calls,
           NEW s \in Services, NEW o \in Owners, Resolve(c, s, o)
    PROVE  Foresight(v)'
  <1> DEFINE g == Frame(s, IF o = Container THEN Fresh(c) ELSE o, {})
  <1>0. FieldsOK /\ CallSees(c, v) /\ turn = None /\ ended[c] = None /\ ~Active(c) /\ ~shut[o]
    BY DEF ContainerInv, Foresight, Resolve, Calm
  <1>1. /\ asked' = [asked EXCEPT ![c] = s] /\ frames' = [frames EXCEPT ![c] = <<g>>]
        /\ UNCHANGED <<cached, error, ended>>
    BY <1>0 DEF Resolve
  <1>2. g.stage = "enter" /\ g.at = 1 /\ g.chain = {} /\ g.service = s
    BY DEF Frame
  <1> HIDE DEF g
  <1>3. frames'[c] = <<g>> /\ \A b \in Calls \ {c} : frames'[b] = frames[b]
    BY <1>0, <1>1 DEF FieldsOK
  <1>4. StackSees(<<g>>, v)
    BY <1>2 DEF StackSees, FrameSees
  <1>5. error[c] = None
    BY <1>0, EventLoopAssumption DEF CallSees
  <1>6. asked'[c] = s /\ \A b \in Calls \ {c} : asked'[b] = asked[b]
    BY <1>1
  <1>7. CallSees(c, v)'
    BY <1>0, <1>1, <1>2, <1>3, <1>4, <1>5, <1>6 DEF CallSees
  <1>8. \A b \in Calls \ {c} : CallSees(b, v)'
    BY <1>0, <1>1, <1>3, <1>6, OthersSee
  <1> QED BY <1>1, <1>7, <1>8 DEF Foresight

\* A container that is calm after a step was calm before it, with the same registrations.
LEMMA ForesightStep ==
    ASSUME ContainerInv, DOMAIN asked = Calls, Calm => Foresight(Diagnosis(registry)[{}]),
           [ContainerNext]_containerVars, Calm'
    PROVE  Foresight(Diagnosis(registry)[{}])'
  <1>0. FieldsOK /\ QuietInv /\ Container \in Owners
    BY DEF ContainerInv, Owners
  <1>1. ASSUME UNCHANGED <<registry, shut, changed>>,
               ASSUME Calm, NEW v, v = Diagnosis(registry)[{}], Foresight(v) PROVE Foresight(v)'
        PROVE  Foresight(Diagnosis(registry)[{}])'
    <2>1. Calm
      BY <1>1 DEF Calm
    <2>2. PICK v : v = Diagnosis(registry)[{}]
      OBVIOUS
    <2>3. Foresight(v)'
      BY <1>1, <2>1, <2>2
    <2>4. v = Diagnosis(registry)[{}]'
      BY <1>1, <2>2
    <2> QED BY <2>3, <2>4
  <1>2. ASSUME UNCHANGED <<frames, error, ended, asked, turn>>, cached' \subseteq cached,
               NEW v, Foresight(v)
        PROVE  Foresight(v)'
    <2>1. \A b \in Calls : CallSees(b, v)'
      BY <1>2, OtherSees DEF Foresight
    <2> QED BY <1>2, <2>1 DEF Foresight
  <1>3. CASE UNCHANGED containerVars
    BY <1>1, <1>2, <1>3 DEF containerVars
  <1>4. ASSUME NEW c \in Calls, NEW s \in Services, NEW o \in Owners, Resolve(c, s, o)
        PROVE  Foresight(Diagnosis(registry)[{}])'
    <2>1. UNCHANGED <<registry, shut, changed>>
      BY <1>4 DEF Resolve
    <2> QED BY <1>1, <1>4, <2>1, ResolveSees
  <1>5. ASSUME NEW c \in Calls, ResolveStep(c) PROVE Foresight(Diagnosis(registry)[{}])'
    <2>1. UNCHANGED <<registry, shut, changed>>
      BY <1>5 DEF ResolveStep, Enter, Acquire, Found, Ask, Suspend, Wake, Made, MakingRaises, Unwind
    <2> QED BY <1>1, <1>5, <2>1, ResolveStepSees
  <1>6. ASSUME NEW s \in Services, Remove(s) \/ \E d \in Replacements : Register(s, d) PROVE FALSE
    BY <1>6 DEF Remove, Register, Calm
  <1>7. ASSUME NEW o \in Owners, BeginDispose(o) PROVE FALSE
    BY <1>0, <1>7 DEF BeginDispose, Calm, FieldsOK
  <1>8. ASSUME NEW o \in Owners, DisposeNext(o) \/ DisposeEnds(o) \/ DisposeRaises(o)
        PROVE  Foresight(Diagnosis(registry)[{}])'
    <2>1. UNCHANGED <<shut, changed, frames, error, ended, asked, turn>> /\ cached' \subseteq cached
      BY <1>8 DEF DisposeNext, DisposeEnds, DisposeRaises
    <2>2. disposing[Container] = None
      BY <1>0, <2>1 DEF QuietInv, Calm
    <2>3. registry' = registry
      BY <1>8, <2>2 DEF DisposeNext, DisposeEnds, DisposeRaises
    <2> QED BY <1>1, <1>2, <2>1, <2>3
  <1> QED BY <1>3, <1>4, <1>5, <1>6, <1>7, <1>8 DEF ContainerNext

-----------------------------------------------------------------------------
(***************************************************************************)
(* The resolver keeps the promise of SharedInstances.                      *)
(***************************************************************************)
\* What is built comes from no registered instance, and what was found on the second
\* look stays there.
FrameShares(f) ==
    /\ f.stage # "enter" => f.desc.kind # "instance"
    /\ f.stage = "found" /\ Quiet(f.service) => <<Container, f.service>> \in cached

CallShares(c) ==
    /\ \A i \in DOMAIN frames[c] : FrameShares(frames[c][i])
    /\ IF Active(c) THEN asked[c] = frames[c][1].service ELSE ended[c] = None => asked[c] = None

\* An instance in the container's cache was built.
ShareInv ==
    /\ DOMAIN asked = Calls
    /\ \A s \in Services : Quiet(s) /\ Shared(s) /\ <<Container, s>> \in cached => built[s] # 0
    /\ \A c \in Calls : CallShares(c)

BuildersOf(s) == IF Quiet(s) THEN {c \in Calls : Builds(frames[c], s)} ELSE {}

\* The mapping, service by service.
LEMMA SharedBars ==
    /\ cellBar = [s \in Services |-> CellOf(s)] /\ cellBar' = [s \in Services |-> CellOf(s)']
    /\ buildersBar = [s \in Services |-> BuildersOf(s)] /\ buildersBar' = [s \in Services |-> BuildersOf(s)']
  BY DEF cellBar, buildersBar, BuildersOf

\* Below its innermost frame, a call builds this.
Outer(c, s) == \E i \in 1..(Depth(c) - 1) : Building(frames[c][i], s)

\* A call builds with its innermost frame or below it.
LEMMA StackBuilds ==
    ASSUME FieldsOK, NEW c \in Calls, Active(c), NEW s
    PROVE  Builds(frames[c], s) <=> Outer(c, s) \/ Building(Top(c), s)
  <1>1. Depth(c) \in Nat /\ Depth(c) > 0 /\ DOMAIN frames[c] = 1..Depth(c) /\ Top(c) = frames[c][Depth(c)]
    BY StackOf
  <1>2. \A i : i \in 1..Depth(c) <=> i \in 1..(Depth(c) - 1) \/ i = Depth(c)
    BY <1>1
  <1> QED BY <1>1, <1>2 DEF Builds, Outer

\* Whoever builds a quiet singleton has its lock, so nobody else does.
LEMMA BuilderHolds ==
    ASSUME ContainerInv, NEW g \in FrameRecords, FrameInv(g), g.stage # "enter", g.lock # None, Quiet(g.service),
           NEW b \in Calls, NEW i \in DOMAIN frames[b], Building(frames[b][i], g.service)
    PROVE  Inside(frames[b][i]) /\ frames[b][i].lock = g.lock /\ g.lock \in held
  <1>1. FieldsOK /\ LockInv /\ StackInv(b)
    BY DEF ContainerInv
  <1>2. frames[b][i] \in FrameRecords /\ FrameInv(frames[b][i])
    BY <1>1, StackOf DEF StackInv
  <1>3. /\ Inside(frames[b][i]) /\ frames[b][i].service = g.service /\ frames[b][i].stage # "enter"
        /\ frames[b][i].lock # None
    BY DEF Inside, Building
  <1>4. frames[b][i].lock = g.lock
    BY <1>2, <1>3, QuietLock
  <1> QED BY <1>1, <1>3, <1>4 DEF LockInv

\* A quiet singleton whose lock is free is being built by nobody.
LEMMA NobodyBuilds ==
    ASSUME ContainerInv, NEW g \in FrameRecords, FrameInv(g), g.stage # "enter", g.lock # None, Quiet(g.service),
           g.lock \notin held
    PROVE  \A b \in Calls : ~ Builds(frames[b], g.service)
  BY BuilderHolds DEF Builds

\* A call that builds a quiet singleton is the only one, and does so in one frame.
LEMMA OnlyBuilder ==
    ASSUME ContainerInv, NEW c \in Calls, Active(c), NEW s \in Services, Quiet(s), Building(Top(c), s)
    PROVE  ~ Outer(c, s) /\ \A b \in Calls : Builds(frames[b], s) <=> b = c
  <1>0. FieldsOK /\ LockInv /\ StackInv(c)
    BY DEF ContainerInv
  <1>1. /\ Depth(c) \in Nat /\ Depth(c) \in DOMAIN frames[c] /\ DOMAIN frames[c] = 1..Depth(c)
        /\ Top(c) \in FrameRecords /\ Top(c) = frames[c][Depth(c)]
    BY <1>0, StackOf
  <1>2. FrameInv(Top(c)) /\ Inside(Top(c)) /\ Top(c).service = s /\ Top(c).stage # "enter" /\ Top(c).lock # None
    BY <1>0, <1>1 DEF StackInv, Building, Inside
  <1>3. ASSUME NEW b \in Calls, NEW i \in DOMAIN frames[b], Building(frames[b][i], s)
        PROVE  b = c /\ i = Depth(c)
    <2>1. Inside(frames[b][i]) /\ frames[b][i].lock = Top(c).lock
      BY <1>1, <1>2, <1>3, BuilderHolds
    <2> QED BY <2>1, <1>0, <1>1, <1>2 DEF LockInv
  <1>4. ~ Outer(c, s)
    <2>1. \A i \in 1..(Depth(c) - 1) : i \in DOMAIN frames[c] /\ i # Depth(c)
      BY <1>1
    <2> QED BY <1>3, <2>1 DEF Outer
  <1>5. Builds(frames[c], s)
    BY <1>1 DEF Builds
  <1> QED BY <1>3, <1>4, <1>5 DEF Builds

-----------------------------------------------------------------------------
SharedStep == [Singletons!SharedNext]_<<cellBar, buildersBar, asked, ended>>

\* The stack of one call changes while the registrations stay.
LEMMA StackBars ==
    ASSUME FieldsOK, NEW c \in Calls, NEW q, UNCHANGED <<registry, shut, changed>>,
           frames' = [frames EXCEPT ![c] = q], NEW s \in Services
    PROVE  /\ Quiet(s)' <=> Quiet(s)
           /\ Shared(s)' <=> Shared(s)
           /\ (Quiet(s) => (Builds(q, s) <=> Builds(frames[c], s))) => BuildersOf(s)' = BuildersOf(s)
           /\ BuildersOf(s)' \subseteq Calls
           /\ Quiet(s) => \A b \in Calls :
                  b \in BuildersOf(s)' <=> IF b = c THEN Builds(q, s) ELSE Builds(frames[b], s)
           /\ (Quiet(s) /\ Shared(s) => (<<Container, s>> \in cached' <=> <<Container, s>> \in cached))
                  => CellOf(s)' = CellOf(s)
  <1>1. (Quiet(s)' <=> Quiet(s)) /\ (Shared(s)' <=> Shared(s))
    BY DEF Quiet, Shared
  <1>2. \A b \in Calls : frames'[b] = IF b = c THEN q ELSE frames[b]
    BY DEF FieldsOK
  <1>3. \A b \in Calls : Builds(frames[b], s)' <=> IF b = c THEN Builds(q, s) ELSE Builds(frames[b], s)
    BY <1>2 DEF Builds, Building
  <1>4. /\ BuildersOf(s)' \subseteq Calls
        /\ Quiet(s) => \A b \in Calls :
               b \in BuildersOf(s)' <=> IF b = c THEN Builds(q, s) ELSE Builds(frames[b], s)
    BY <1>1, <1>3 DEF BuildersOf
  <1>5. (Quiet(s) => (Builds(q, s) <=> Builds(frames[c], s))) => BuildersOf(s)' = BuildersOf(s)
    BY <1>1, <1>3 DEF BuildersOf
  <1>6. (Quiet(s) /\ Shared(s) => (<<Container, s>> \in cached' <=> <<Container, s>> \in cached))
                  => CellOf(s)' = CellOf(s)
    BY <1>1 DEF CellOf
  <1> QED BY <1>1, <1>4, <1>5, <1>6

\* What it takes to keep the invariant.
LEMMA StackShares ==
    ASSUME ContainerInv, ShareInv, NEW c \in Calls, NEW q \in Seq(FrameRecords),
           UNCHANGED <<registry, shut, changed>>,
           frames' = [frames EXCEPT ![c] = q],
           \A s \in Services : <<Container, s>> \in cached => <<Container, s>> \in cached',
           \A i \in DOMAIN q : /\ q[i].stage # "enter" => q[i].desc.kind # "instance"
                               /\ q[i].stage = "found" /\ Quiet(q[i].service) => <<Container, q[i].service>> \in cached',
           IF q # << >> THEN asked'[c] = q[1].service ELSE ended'[c] = None => asked'[c] = None,
           DOMAIN asked' = Calls,
           \A b \in Calls \ {c} : asked'[b] = asked[b] /\ ended'[b] = ended[b],
           \A s \in Services : Quiet(s) /\ Shared(s) /\ <<Container, s>> \in cached' => built'[s] # 0
    PROVE  ShareInv'
  <1>0. FieldsOK
    BY DEF ContainerInv
  <1>1. \A s \in Services : (Quiet(s)' <=> Quiet(s)) /\ (Shared(s)' <=> Shared(s))
    BY <1>0, StackBars
  <1>2. frames'[c] = q /\ \A b \in Calls \ {c} : frames'[b] = frames[b]
    BY <1>0 DEF FieldsOK
  <1>3. ASSUME NEW b \in Calls \ {c} PROVE CallShares(b)'
    <2>1. CallShares(b) /\ frames'[b] = frames[b] /\ asked'[b] = asked[b] /\ ended'[b] = ended[b]
      BY <1>2 DEF ShareInv
    <2>2. \A i \in DOMAIN frames[b] : frames[b][i].service \in Services
      BY <1>0, StackOf DEF FrameRecords
    <2>3. \A i \in DOMAIN frames[b] : FrameShares(frames[b][i])'
      BY <1>1, <2>1, <2>2 DEF CallShares, FrameShares
    <2> QED BY <2>1, <2>3 DEF CallShares, Active
  <1>4. CallShares(c)'
    <2>1. \A i \in DOMAIN q : q[i].service \in Services
      <3>1. \A i \in DOMAIN q : q[i] \in FrameRecords
        OBVIOUS
      <3> QED BY <3>1 DEF FrameRecords
    <2>2. \A i \in DOMAIN frames'[c] : FrameShares(frames[c][i])'
      BY <1>1, <1>2, <2>1 DEF FrameShares
    <2> QED BY <1>2, <2>2 DEF CallShares, Active
  <1> QED BY <1>1, <1>3, <1>4 DEF ShareInv

\* The registrations, the caches and the flags change while the stacks rest: what has
\* been touched is released from the promise.
LEMMA StillShares ==
    ASSUME ContainerInv, ShareInv, UNCHANGED <<frames, built, asked, ended>>,
           \A s \in Services : Quiet(s)' =>
               /\ Quiet(s) /\ registry'[s] = registry[s]
               /\ <<Container, s>> \in cached' <=> <<Container, s>> \in cached
    PROVE  ShareInv' /\ SharedStep
  <1>0. FieldsOK
    BY DEF ContainerInv
  <1>1. \A s \in Services : Quiet(s)' => (Shared(s)' <=> Shared(s))
    BY DEF Shared
  <1>2. ASSUME NEW b \in Calls PROVE CallShares(b)'
    <2>1. CallShares(b)
      BY DEF ShareInv
    <2>2. \A i \in DOMAIN frames[b] : frames[b][i].service \in Services
      BY <1>0, StackOf DEF FrameRecords
    <2>3. \A i \in DOMAIN frames[b] : FrameShares(frames[b][i])'
      <3> TAKE i \in DOMAIN frames[b]
      <3>1. PICK t \in Services : t = frames[b][i].service /\ t = frames'[b][i].service
        BY <2>2
      <3>2. Quiet(frames[b][i].service)' => Quiet(t)' 
        BY <3>1 DEF Quiet
      <3> QED BY <2>1, <3>1, <3>2 DEF CallShares, FrameShares
    <2> QED BY <2>1, <2>3 DEF CallShares, Active
  <1>3. ShareInv'
    BY <1>1, <1>2 DEF ShareInv
  <1>4. PICK S \in SUBSET Services : \A s \in Services : s \in S <=> ~ Quiet(s)'
    <2>1. {s \in Services : ~ Quiet(s)'} \in SUBSET Services
      OBVIOUS
    <2> QED BY <2>1
  <1>5. \A s \in Services : CellOf(s)' = IF s \in S THEN "released" ELSE CellOf(s)
    BY <1>1, <1>4 DEF CellOf
  <1>6. \A s \in Services : BuildersOf(s)' = IF s \in S THEN {} ELSE BuildersOf(s)
    BY <1>4 DEF BuildersOf
  <1>7. Singletons!Release(S)
    BY <1>5, <1>6, SharedBars DEF Singletons!Release
  <1> QED BY <1>3, <1>7 DEF SharedStep, Singletons!SharedNext, Singletons!calls

-----------------------------------------------------------------------------
\* It has stopped to build, and a call that is over builds nothing.
LEMMA PopBars ==
    ASSUME ContainerInv, NEW c \in Calls, Active(c), NEW q \in Seq(FrameRecords), Pops(c, q),
           UNCHANGED <<registry, shut, changed>>
    PROVE  /\ \A s \in Services : ~ (Quiet(s) /\ Building(Top(c), s)) => BuildersOf(s)' = BuildersOf(s)
           /\ \A s \in Services : Quiet(s) /\ Building(Top(c), s) => BuildersOf(s) = {c} /\ BuildersOf(s)' = {}
           /\ q = << >> => \A s \in Services : c \notin BuildersOf(s)'
  <1>0. FieldsOK
    BY DEF ContainerInv
  <1>1. Depth(c) \in Nat /\ Depth(c) > 0 /\ frames' = [frames EXCEPT ![c] = q] /\ DOMAIN q = 1..(Depth(c) - 1)
    BY <1>0, StackOf DEF Pops
  <1>2. ASSUME NEW s PROVE Builds(q, s) <=> Outer(c, s)
    <2>1. \A i \in 1..(Depth(c) - 1) : Same(q[i], frames[c][i])
      BY DEF Pops
    <2>2. \A i \in 1..(Depth(c) - 1) : Building(q[i], s) <=> Building(frames[c][i], s)
      BY <2>1 DEF Same, Building
    <2> QED BY <1>1, <2>2 DEF Builds, Outer
  <1>3. ASSUME NEW s \in Services, ~ (Quiet(s) /\ Building(Top(c), s)) PROVE BuildersOf(s)' = BuildersOf(s)
    BY <1>0, <1>1, <1>2, <1>3, StackBuilds, StackBars
  <1>4. ASSUME NEW s \in Services, Quiet(s), Building(Top(c), s)
        PROVE  BuildersOf(s) = {c} /\ BuildersOf(s)' = {}
    <2>1. ~ Outer(c, s) /\ \A b \in Calls : Builds(frames[b], s) <=> b = c
      BY <1>4, OnlyBuilder
    <2>2. /\ BuildersOf(s)' \subseteq Calls
          /\ \A b \in Calls : b \in BuildersOf(s)' <=> IF b = c THEN Builds(q, s) ELSE Builds(frames[b], s)
      BY <1>0, <1>1, <1>4, StackBars
    <2>3. BuildersOf(s)' = {}
      BY <1>2, <2>1, <2>2
    <2>4. BuildersOf(s) = {c}
      BY <1>4, <2>1 DEF BuildersOf
    <2> QED BY <2>3, <2>4
  <1>5. ASSUME q = << >>, NEW s \in Services PROVE c \notin BuildersOf(s)'
    <2>1. ~ Builds(q, s)
      BY <1>5 DEF Builds
    <2>2. frames'[c] = q
      BY <1>0, <1>1 DEF FieldsOK
    <2>3. ~ Builds(frames[c], s)'
      BY <2>1, <2>2 DEF Builds, Building
    <2> QED BY <2>3 DEF BuildersOf
  <1> QED BY <1>3, <1>4, <1>5

\* The frames that stay are as before.
LEMMA PopShares ==
    ASSUME ContainerInv, ShareInv, NEW c \in Calls, Active(c), NEW q \in Seq(FrameRecords), Pops(c, q),
           UNCHANGED <<registry, shut, changed, asked>>,
           \A s \in Services : <<Container, s>> \in cached => <<Container, s>> \in cached',
           \A b \in Calls \ {c} : ended'[b] = ended[b], q = << >> => ended'[c] # None,
           \A s \in Services : Quiet(s) /\ Shared(s) /\ <<Container, s>> \in cached' => built'[s] # 0
    PROVE  ShareInv'
  <1>0. FieldsOK /\ CallShares(c) /\ DOMAIN asked = Calls
    BY DEF ContainerInv, ShareInv
  <1>1. /\ Depth(c) \in Nat /\ Depth(c) > 0 /\ frames' = [frames EXCEPT ![c] = q] /\ DOMAIN q = 1..(Depth(c) - 1)
        /\ DOMAIN frames[c] = 1..Depth(c)
    BY <1>0, StackOf DEF Pops
  <1>2. \A i \in 1..(Depth(c) - 1) :
            /\ i \in DOMAIN frames[c] /\ Same(q[i], frames[c][i])
            /\ frames[c][i].service \in Services
    <2>1. \A i \in 1..(Depth(c) - 1) : i \in 1..Depth(c) /\ Same(q[i], frames[c][i])
      BY <1>1 DEF Pops
    <2> QED BY <1>0, <1>1, <2>1, StackOf DEF FrameRecords
  <1>3. \A i \in DOMAIN q : /\ q[i].stage # "enter" => q[i].desc.kind # "instance"
                            /\ q[i].stage = "found" /\ Quiet(q[i].service) => <<Container, q[i].service>> \in cached'
    BY <1>0, <1>1, <1>2 DEF CallShares, FrameShares, Same
  <1>4. IF q # << >> THEN asked'[c] = q[1].service ELSE ended'[c] = None => asked'[c] = None
    <2>1. ASSUME q # << >> PROVE 1 \in 1..(Depth(c) - 1)
      BY <1>1, <2>1
    <2> QED BY <1>0, <1>2, <2>1 DEF CallShares, Same
  <1> QED BY <1>0, <1>1, <1>3, <1>4, StackShares

\* The innermost frame of a call changes.
LEMMA TopShares ==
    ASSUME ContainerInv, ShareInv, NEW c \in Calls, Active(c), NEW g \in FrameRecords, SetTop(c, g),
           g.service = Top(c).service, FrameShares(g), g.stage # "enter",
           UNCHANGED <<registry, shut, changed, asked, cached, ended, built>>
    PROVE  /\ ShareInv'
           /\ cellBar' = cellBar
           /\ \A s \in Services : s # g.service => BuildersOf(s)' = BuildersOf(s)
           /\ (~ Quiet(g.service) \/ (Building(g, g.service) <=> Building(Top(c), g.service)))
                  => BuildersOf(g.service)' = BuildersOf(g.service)
           /\ Quiet(g.service) /\ Building(g, g.service) /\ (\A b \in Calls : ~ Builds(frames[b], g.service))
                  => BuildersOf(g.service) = {} /\ BuildersOf(g.service)' = {c}
  <1> DEFINE n == Depth(c)
             q == [frames[c] EXCEPT ![n] = g]
             t == g.service
  <1>0. FieldsOK /\ CallShares(c) /\ DOMAIN asked = Calls /\ t \in Services
    BY DEF ContainerInv, ShareInv, FrameRecords
  <1>1. /\ n \in Nat /\ n > 0 /\ n \in DOMAIN frames[c] /\ DOMAIN frames[c] = 1..n /\ Top(c) = frames[c][n]
        /\ frames[c] \in Seq(FrameRecords) /\ Len(frames[c]) = n
    BY <1>0, StackOf DEF Depth
  <1>2. frames' = [frames EXCEPT ![c] = q]
    BY DEF SetTop, Depth
  <1>3. /\ q \in Seq(FrameRecords) /\ DOMAIN q = 1..n /\ q[n] = g
        /\ \A i \in 1..n : i # n => q[i] = frames[c][i]
    BY <1>1
  <1> HIDE DEF q, n
  <1>4. \A i \in 1..n : i \in DOMAIN frames[c] /\ q[i].service = frames[c][i].service
    BY <1>1, <1>3
  <1>5. \A i \in DOMAIN q : /\ q[i].stage # "enter" => q[i].desc.kind # "instance"
                            /\ q[i].stage = "found" /\ Quiet(q[i].service) => <<Container, q[i].service>> \in cached'
    <2> TAKE i \in DOMAIN q
    <2>1. CASE i = n
      BY <1>3, <2>1 DEF FrameShares
    <2>2. CASE i # n
      BY <1>0, <1>1, <1>3, <2>2 DEF CallShares, FrameShares
    <2> QED BY <2>1, <2>2
  <1>6. 1 \in 1..n /\ q # << >> /\ asked'[c] = q[1].service
    <2>1. 1 \in 1..n
      BY <1>1
    <2>2. q = << >> => 1 \notin DOMAIN q
      OBVIOUS
    <2>3. asked[c] = frames[c][1].service
      BY <1>0 DEF CallShares
    <2> QED BY <1>3, <1>4, <2>1, <2>2, <2>3
  <1>7. \A s \in Services : Quiet(s) /\ Shared(s) /\ <<Container, s>> \in cached' => built'[s] # 0
    BY DEF ShareInv
  <1>8. ShareInv'
    BY <1>0, <1>2, <1>3, <1>5, <1>6, <1>7, StackShares
  <1>9. \A s \in Services : CellOf(s)' = CellOf(s)
    BY <1>0, <1>2, StackBars
  <1>10. ASSUME NEW s PROVE Builds(q, s) <=> Outer(c, s) \/ Building(g, s)
    <2>1. \A i : i \in 1..n <=> i \in 1..(n - 1) \/ i = n
      BY <1>1
    <2>2. \A i \in 1..(n - 1) : q[i] = frames[c][i]
      BY <1>1, <1>3
    <2> QED BY <1>3, <2>1, <2>2 DEF Builds, Outer, n
  <1>11. ASSUME NEW s \in Services, s # t PROVE BuildersOf(s)' = BuildersOf(s)
    <2>1. ~ Building(g, s) /\ ~ Building(Top(c), s)
      BY <1>11 DEF Building
    <2> QED BY <1>0, <1>2, <1>10, <2>1, StackBuilds, StackBars
  <1>12. ASSUME ~ Quiet(t) \/ (Building(g, t) <=> Building(Top(c), t)) PROVE BuildersOf(t)' = BuildersOf(t)
    BY <1>0, <1>2, <1>10, <1>12, StackBuilds, StackBars
  <1>13. ASSUME Quiet(t), Building(g, t), \A b \in Calls : ~ Builds(frames[b], t)
         PROVE  BuildersOf(t) = {} /\ BuildersOf(t)' = {c}
    <2>1. /\ BuildersOf(t)' \subseteq Calls
          /\ \A b \in Calls : b \in BuildersOf(t)' <=> IF b = c THEN Builds(q, t) ELSE Builds(frames[b], t)
      BY <1>0, <1>2, <1>13, StackBars
    <2>2. Builds(q, t)
      BY <1>10, <1>13
    <2> QED BY <1>13, <2>1, <2>2 DEF BuildersOf
  <1> QED BY <1>8, <1>9, <1>11, <1>12, <1>13, SharedBars

\* A resolve begins, the first of its call or the next one inside.
LEMMA PushShares ==
    ASSUME ContainerInv, ShareInv, NEW c \in Calls, NEW g \in FrameRecords, g.stage = "enter", g.lock = None,
           frames' = [frames EXCEPT ![c] = Append(frames[c], g)],
           IF Active(c) THEN asked' = asked ELSE asked' = [asked EXCEPT ![c] = g.service],
           UNCHANGED <<registry, shut, changed, cached, ended, built>>
    PROVE  ShareInv' /\ cellBar' = cellBar /\ buildersBar' = buildersBar
  <1> DEFINE n == Depth(c)
             q == Append(frames[c], g)
  <1>0. FieldsOK /\ CallShares(c) /\ DOMAIN asked = Calls
    BY DEF ContainerInv, ShareInv
  <1>1. /\ n \in Nat /\ DOMAIN frames[c] = 1..n /\ frames[c] \in Seq(FrameRecords) /\ Len(frames[c]) = n
        /\ Active(c) <=> n > 0
    BY <1>0, StackOf DEF Depth
  <1> HIDE DEF n
  <1>2. /\ q \in Seq(FrameRecords) /\ DOMAIN q = 1..(n + 1) /\ q[n + 1] = g
        /\ \A i \in 1..n : q[i] = frames[c][i]
    BY <1>1
  <1>3. frames' = [frames EXCEPT ![c] = q]
    OBVIOUS
  <1> HIDE DEF q
  <1>4. \A i \in 1..(n + 1) : i \in 1..n \/ i = n + 1
    BY <1>1
  <1>5. \A i \in DOMAIN q : /\ q[i].stage # "enter" => q[i].desc.kind # "instance"
                            /\ q[i].stage = "found" /\ Quiet(q[i].service) => <<Container, q[i].service>> \in cached'
    <2> TAKE i \in DOMAIN q
    <2>1. CASE i = n + 1
      BY <1>2, <2>1
    <2>2. CASE i \in 1..n
      BY <1>0, <1>1, <1>2, <2>2 DEF CallShares, FrameShares
    <2> QED BY <1>2, <1>4, <2>1, <2>2
  <1>6. /\ q # << >> /\ asked'[c] = q[1].service /\ DOMAIN asked' = Calls
        /\ \A b \in Calls \ {c} : asked'[b] = asked[b]
    <2>1. 1 \in 1..(n + 1) /\ (n > 0 => 1 \in 1..n) /\ (~ (n > 0) => n + 1 = 1)
      BY <1>1
    <2>2. q # << >>
      <3>1. q = << >> => 1 \notin DOMAIN q
        OBVIOUS
      <3> QED BY <1>2, <2>1, <3>1
    <2>3. CASE Active(c)
      BY <1>0, <1>1, <1>2, <2>1, <2>2, <2>3 DEF CallShares
    <2>4. CASE ~ Active(c)
      BY <1>0, <1>1, <1>2, <2>1, <2>2, <2>4
    <2> QED BY <2>3, <2>4
  <1>7. \A s \in Services : Quiet(s) /\ Shared(s) /\ <<Container, s>> \in cached' => built'[s] # 0
    BY DEF ShareInv
  <1>8. ShareInv'
    BY <1>2, <1>3, <1>5, <1>6, <1>7, StackShares
  <1>9. ASSUME NEW s PROVE Builds(q, s) <=> Builds(frames[c], s)
    <2>1. ~ Building(g, s)
      BY DEF Building
    <2>2. \A i \in 1..n : i \in 1..(n + 1)
      BY <1>1
    <2> QED BY <1>1, <1>2, <1>4, <2>1, <2>2 DEF Builds
  <1>10. \A s \in Services : CellOf(s)' = CellOf(s) /\ BuildersOf(s)' = BuildersOf(s)
    BY <1>0, <1>3, <1>9, StackBars
  <1> QED BY <1>8, <1>10, SharedBars

-----------------------------------------------------------------------------
\* A call under way is busy with the service it was asked for.
LEMMA BusyCall ==
    ASSUME ContainerInv, ShareInv, NEW c \in Calls, Active(c)
    PROVE  Singletons!Busy(c) /\ asked[c] \in Services /\ (Depth(c) = 1 => asked[c] = Top(c).service)
  <1>1. FieldsOK /\ StackInv(c) /\ CallShares(c)
    BY DEF ContainerInv, ShareInv
  <1>2. 1 \in 1..Depth(c) /\ Depth(c) \in Nat /\ Top(c) = frames[c][Depth(c)]
    BY <1>1, StackOf
  <1>3. frames[c][1].service \in Services
    BY <1>1, <1>2, StackOf DEF FrameRecords
  <1> QED BY <1>1, <1>2, <1>3, ContainerAssumption DEF CallShares, StackInv, Singletons!Busy

\* Of what a frame builds there is no instance yet.
LEMMA EmptyCell ==
    ASSUME ContainerInv, ShareInv, NEW c \in Calls, Active(c), NEW s \in Services, Quiet(s), Building(Top(c), s)
    PROVE  Shared(s) /\ <<Container, s>> \notin cached /\ CellOf(s) = "empty" /\ Top(c).desc.lifetime = "SINGLETON"
  <1> DEFINE f == Top(c)
  <1>0. FieldsOK /\ StackInv(c) /\ CallShares(c)
    BY DEF ContainerInv, ShareInv
  <1>1. Depth(c) \in DOMAIN frames[c] /\ f = frames[c][Depth(c)]
    BY <1>0, StackOf
  <1>2. FrameInv(f) /\ FrameShares(f)
    BY <1>0, <1>1 DEF StackInv, CallShares
  <1> HIDE DEF f
  <1>3. f.service = s /\ f.lock # None /\ f.stage \in {"build", "awaiting", "made"}
    BY DEF Building, f
  <1>4. f.desc # None /\ f.desc = registry[s] /\ f.desc.lifetime = "SINGLETON" /\ f.desc.kind # "instance" /\ built[s] = 0
    BY <1>2, <1>3 DEF FrameInv, FrameShares
  <1>5. Shared(s)
    BY <1>4 DEF Shared
  <1>6. <<Container, s>> \notin cached
    BY <1>4, <1>5 DEF ShareInv
  <1> QED BY <1>4, <1>5, <1>6 DEF CellOf, Shared, f

\* A call that takes the lock of a service without an instance begins to make it.
LEMMA BeginShares ==
    ASSUME ContainerInv, ShareInv, NEW c \in Calls, Active(c), NEW g \in FrameRecords, SetTop(c, g), FrameInv(g),
           g.service = Top(c).service, FrameShares(g), g.stage = "build", g.lock # None, g.lock \notin held,
           <<Container, g.service>> \notin cached, Top(c).stage \in {"enter", "wait"},
           UNCHANGED <<registry, shut, changed, asked, cached, ended, built>>
    PROVE  ShareInv' /\ SharedStep
  <1>1. PICK t \in Services : t = g.service
    BY DEF FrameRecords
  <1>2. ~ Building(Top(c), t) /\ Building(g, t)
    BY <1>1 DEF Building
  <1>3. /\ ShareInv' /\ cellBar' = cellBar
        /\ \A s \in Services : s # t => BuildersOf(s)' = BuildersOf(s)
        /\ ~ Quiet(t) => BuildersOf(t)' = BuildersOf(t)
        /\ Quiet(t) /\ (\A b \in Calls : ~ Builds(frames[b], t)) => BuildersOf(t) = {} /\ BuildersOf(t)' = {c}
    BY <1>1, <1>2, TopShares
  <1>4. CASE ~ Quiet(t)
    <2>1. buildersBar' = buildersBar
      BY <1>3, <1>4, SharedBars
    <2> QED BY <1>3, <2>1 DEF SharedStep
  <1>5. CASE Quiet(t)
    <2>1. BuildersOf(t) = {} /\ BuildersOf(t)' = {c}
      BY <1>1, <1>3, <1>5, NobodyBuilds
    <2>2. buildersBar[t] = {} /\ buildersBar' = [buildersBar EXCEPT ![t] = {c}]
      BY <1>3, <2>1, SharedBars
    <2>3. registry[t] = g.desc /\ g.desc # None /\ g.desc.lifetime = "SINGLETON" /\ g.desc.kind # "instance"
      BY <1>1, <1>5 DEF FrameInv, FrameShares
    <2>4. CellOf(t) = "empty"
      BY <1>1, <1>5, <2>3 DEF CellOf, Shared
    <2>5. Singletons!Begin(c, t)
      BY <1>3, <2>2, <2>4, BusyCall, SharedBars DEF Singletons!Begin
    <2> QED BY <1>3, <2>5 DEF SharedStep, Singletons!SharedNext, Singletons!calls
  <1> QED BY <1>4, <1>5

\* The innermost frame goes on without beginning or ending to build.
LEMMA GoOnShares ==
    ASSUME ContainerInv, ShareInv, NEW c \in Calls, Active(c), NEW g \in FrameRecords, SetTop(c, g),
           g.service = Top(c).service, FrameShares(g), g.stage # "enter",
           Building(g, g.service) <=> Building(Top(c), g.service),
           UNCHANGED <<registry, shut, changed, asked, cached, ended, built>>
    PROVE  ShareInv' /\ SharedStep
  <1>1. PICK t \in Services : t = g.service
    BY DEF FrameRecords
  <1>2. /\ ShareInv' /\ cellBar' = cellBar
        /\ \A s \in Services : s # t => BuildersOf(s)' = BuildersOf(s)
        /\ BuildersOf(t)' = BuildersOf(t)
    BY <1>1, TopShares
  <1>3. buildersBar' = buildersBar
    BY <1>2, SharedBars
  <1> QED BY <1>2, <1>3 DEF SharedStep

\* A resolve ends that was not making a shared instance: at most its call is over.
LEMMA LeaveShares ==
    ASSUME ContainerInv, ShareInv, NEW c \in Calls, Active(c), NEW q \in Seq(FrameRecords), Pops(c, q),
           UNCHANGED <<registry, shut, changed, asked>>, NEW a \in Errors \cup {"returned"},
           IF q = << >> THEN ended' = [ended EXCEPT ![c] = a] ELSE ended' = ended,
           \A s \in Services : ~ (Quiet(s) /\ Building(Top(c), s)),
           \A s \in Services : <<Container, s>> \in cached => <<Container, s>> \in cached',
           \A s \in Services : Quiet(s) /\ Shared(s) =>
               built'[s] = built[s] /\ (<<Container, s>> \in cached' => <<Container, s>> \in cached),
           a = "returned" => CellOf(Top(c).service) \in {"unshared", "ready", "released"}
    PROVE  ShareInv' /\ SharedStep
  <1>0. FieldsOK /\ ContainerInv
    BY DEF ContainerInv
  <1>1. \A s \in Services : CellOf(s)' = CellOf(s)
    BY <1>0, StackBars DEF Pops
  <1>2. \A s \in Services : BuildersOf(s)' = BuildersOf(s)
    BY PopBars
  <1>3. cellBar' = cellBar /\ buildersBar' = buildersBar
    BY <1>1, <1>2, SharedBars
  <1>4. a # None
    BY ContainerAssumption DEF Errors
  <1>5. ShareInv'
    <2>1. \A s \in Services : Quiet(s) /\ Shared(s) /\ <<Container, s>> \in cached' => built'[s] # 0
      BY DEF ShareInv
    <2>2. /\ \A b \in Calls \ {c} : ended'[b] = ended[b]
          /\ q = << >> => ended'[c] # None
      BY <1>0, <1>4 DEF FieldsOK
    <2> QED BY <2>1, <2>2, PopShares
  <1>6. CASE q # << >>
    BY <1>3, <1>5, <1>6 DEF SharedStep
  <1>7. CASE q = << >>
    <2>1. Depth(c) = 1
      <3>1. Len(q) = 0 /\ Depth(c) \in Nat /\ Len(q) = Depth(c) - 1
        BY <1>0, <1>7, StackOf DEF Pops
      <3> QED BY <3>1
    <2>2. \A s \in Services : c \notin buildersBar'[s]
      BY <1>7, PopBars, SharedBars
    <2>3. a = "returned" => cellBar'[asked[c]] \in {"unshared", "ready", "released"}
      BY <1>1, <2>1, BusyCall, SharedBars
    <2>4. Singletons!Answer(c, a)
      BY <1>7, <2>2, <2>3, BusyCall DEF Singletons!Answer
    <2>5. a \in Singletons!Exceptions \cup {"returned"}
      BY DEF Errors, Singletons!Exceptions
    <2> QED BY <1>3, <1>5, <2>4, <2>5 DEF SharedStep, Singletons!SharedNext, Singletons!instances
  <1> QED BY <1>6, <1>7

\* A resolve ends that was making a shared instance, which is there now or is not.
LEMMA BuilderLeaves ==
    ASSUME ContainerInv, ShareInv, NEW c \in Calls, Active(c), NEW q \in Seq(FrameRecords), Pops(c, q),
           UNCHANGED <<registry, shut, changed, asked>>, NEW a \in Errors \cup {"returned"},
           IF q = << >> THEN ended' = [ended EXCEPT ![c] = a] ELSE ended' = ended,
           NEW t \in Services, Quiet(t), Building(Top(c), t),
           \A s \in Services \ {t} : built'[s] = built[s] /\ (<<Container, s>> \in cached' <=> <<Container, s>> \in cached),
           IF a = "returned" THEN <<Container, t>> \in cached' /\ built'[t] # 0
           ELSE <<Container, t>> \notin cached'
    PROVE  ShareInv' /\ SharedStep
  <1>0. FieldsOK
    BY DEF ContainerInv
  <1>1. Shared(t) /\ <<Container, t>> \notin cached /\ CellOf(t) = "empty" /\ Top(c).service = t
    BY EmptyCell DEF Building
  <1>2. \A s \in Services \ {t} : CellOf(s)' = CellOf(s)
    BY <1>0, StackBars DEF Pops
  <1>3. \A s \in Services \ {t} : BuildersOf(s)' = BuildersOf(s)
    BY PopBars DEF Building
  <1>4. BuildersOf(t) = {c} /\ BuildersOf(t)' = {}
    BY PopBars
  <1>5. buildersBar[t] = {c} /\ buildersBar' = [buildersBar EXCEPT ![t] = {}] /\ cellBar[t] = "empty"
    BY <1>1, <1>3, <1>4, SharedBars
  <1>6. CellOf(t)' = IF a = "returned" THEN "ready" ELSE "empty"
    <2>1. Quiet(t)' /\ Shared(t)'
      BY <1>0, <1>1, StackBars DEF Pops
    <2> QED BY <2>1 DEF CellOf, Shared
  <1>7. a # None
    BY ContainerAssumption DEF Errors
  <1>8. ShareInv'
    <2>1. \A s \in Services : Quiet(s) /\ Shared(s) /\ <<Container, s>> \in cached' => built'[s] # 0
      BY DEF ShareInv
    <2>2. /\ \A b \in Calls \ {c} : ended'[b] = ended[b]
          /\ q = << >> => ended'[c] # None
      BY <1>0, <1>7 DEF FieldsOK
    <2>3. \A s \in Services : <<Container, s>> \in cached => <<Container, s>> \in cached'
      BY <1>1
    <2> QED BY <2>1, <2>2, <2>3, PopShares
  <1>9. \/ UNCHANGED <<asked, ended>>
        \/ Singletons!Answer(c, a)
    <2>1. CASE q # << >>
      BY <2>1
    <2>2. CASE q = << >>
      <3>1. Depth(c) = 1
        <4>1. Len(q) = 0 /\ Depth(c) \in Nat /\ Len(q) = Depth(c) - 1
          BY <1>0, <2>2, StackOf DEF Pops
        <4> QED BY <4>1
      <3>2. \A s \in Services : c \notin buildersBar'[s]
        BY <2>2, PopBars, SharedBars
      <3>3. asked[c] = t /\ Singletons!Busy(c)
        BY <1>1, <3>1, BusyCall
      <3>4. a = "returned" => cellBar'[asked[c]] \in {"unshared", "ready", "released"}
        BY <1>6, <3>3, SharedBars
      <3> QED BY <2>2, <3>2, <3>3, <3>4 DEF Singletons!Answer
    <2> QED BY <2>1, <2>2
  <1>10. CASE a = "returned"
    <2>1. cellBar' = [cellBar EXCEPT ![t] = "ready"]
      BY <1>2, <1>6, <1>10, SharedBars
    <2>2. Singletons!Finish(c, t)
      BY <1>5, <2>1, BusyCall DEF Singletons!Finish
    <2> QED BY <1>8, <1>9, <1>10, <2>2 DEF SharedStep, Singletons!SharedNext, Singletons!calls
  <1>11. CASE a # "returned"
    <2>1. cellBar' = cellBar
      BY <1>1, <1>2, <1>6, <1>11, SharedBars
    <2>2. Singletons!Fail(c, t)
      BY <1>5, <2>1, BusyCall DEF Singletons!Fail
    <2>3. a \in Singletons!Exceptions
      BY <1>11 DEF Errors, Singletons!Exceptions
    <2> QED BY <1>8, <1>9, <2>2, <2>3 DEF SharedStep, Singletons!SharedNext, Singletons!calls
  <1> QED BY <1>10, <1>11

-----------------------------------------------------------------------------
\* The container's own records outlive the dictionaries of the calls.
LEMMA ReturnKeepsRecords ==
    ASSUME FieldsOK, NEW c \in Calls, NEW records, NEW now, now = {r \in records : r[1] # <<c, Depth(c)>>}
    PROVE  \A s \in Services : <<Container, s>> \in now <=> <<Container, s>> \in records
  <1>1. Depth(c) \in Nat
    BY StackOf
  <1>2. Container # <<c, Depth(c)>>
    BY <1>1, ContainerAssumption DEF Container
  <1> QED BY <1>2

\* A resolve returns what the cache, the registration or the second look has.
LEMMA ReturnShares ==
    ASSUME ContainerInv, ShareInv, NEW c \in Calls, Active(c), Return(c, cached),
           UNCHANGED <<registry, shut, changed, asked, built>>,
           Top(c).stage \notin {"build", "awaiting", "made"},
           CellOf(Top(c).service) \in {"unshared", "ready", "released"}
    PROVE  ShareInv' /\ SharedStep
  <1>0. FieldsOK
    BY DEF ContainerInv
  <1>1. PICK q \in Seq(FrameRecords) :
           Pops(c, q) /\ IF q = << >> THEN ended' = [ended EXCEPT ![c] = "returned"] ELSE ended' = ended
    BY <1>0, ReturnPops
  <1>2. \A s \in Services : ~ Building(Top(c), s)
    BY DEF Building
  <1>3. \A s \in Services : <<Container, s>> \in cached' <=> <<Container, s>> \in cached
    BY <1>0, ReturnKeepsRecords DEF Return
  <1> QED BY <1>1, <1>2, <1>3, LeaveShares

\* The first look at the chain, the registry, the caches and the lock.
LEMMA EnterShares ==
    ASSUME ContainerInv, ShareInv, NEW c \in Calls, Enter(c) PROVE ShareInv' /\ SharedStep
  <1> DEFINE f == Top(c)
             s == f.service
             d == registry[s]
             lock == <<s, generation[s]>>
  <1>0. FieldsOK /\ QuietInv /\ StackInv(c) /\ turn = c /\ error[c] = None /\ f.stage = "enter"
    BY DEF ContainerInv, Enter
  <1>1. Active(c)
    BY <1>0 DEF StackInv
  <1>2. f \in FrameRecords /\ s \in Services /\ f.lock = None
    <2>1. f \in FrameRecords /\ FrameInv(f)
      BY <1>0, <1>1, StackOf DEF StackInv
    <2> QED BY <1>0, <2>1 DEF FrameRecords, FrameInv
  <1>3. UNCHANGED <<registry, generation, asked, shut, disposing, built, changed>>
    BY DEF Enter
  <1>4. ASSUME UNCHANGED <<cached, frames, ended>> PROVE ShareInv' /\ SharedStep
    <2>1. \A t \in Services : Quiet(t)' <=> Quiet(t)
      BY <1>3 DEF Quiet
    <2> QED BY <1>3, <1>4, <2>1, StillShares
  <1>5. ASSUME d # None, d.kind = "instance" \/ (d.lifetime # "TRANSIENT" /\ s \in Cached(OwnerOf(d, f))),
               Return(c, cached)
        PROVE  ShareInv' /\ SharedStep
    <2>1. CellOf(s) \in {"unshared", "ready", "released"}
      BY <1>5 DEF CellOf, Shared, Cached, OwnerOf
    <2> QED BY <1>0, <1>1, <1>3, <1>5, <2>1, ReturnShares
  <1>6. ASSUME d # None, d.kind # "instance", d.lifetime = "TRANSIENT" \/ s \notin Cached(OwnerOf(d, f)),
               IF d.lifetime # "SINGLETON"
               THEN SetTop(c, [f EXCEPT !.stage = "build", !.desc = d])
               ELSE IF lock \in held
                    THEN SetTop(c, [f EXCEPT !.stage = "wait", !.lock = lock, !.desc = d])
                    ELSE SetTop(c, [f EXCEPT !.stage = "build", !.lock = lock, !.desc = d]),
               UNCHANGED <<cached, ended>>
        PROVE  ShareInv' /\ SharedStep
    <2>1. d \in Descriptors /\ lock \in Locks /\ generation[s] \in Nat /\ lock # None
      BY <1>0, <1>2, <1>6, ContainerAssumption DEF FieldsOK, Locks
    <2>2. CASE d.lifetime # "SINGLETON"
      <3> DEFINE g == [f EXCEPT !.stage = "build", !.desc = d]
      <3>1. g \in FrameRecords /\ g.service = s /\ g.stage = "build" /\ g.lock = None /\ g.desc = d
        BY <1>2, <2>1 DEF FrameRecords, Stages
      <3>2. SetTop(c, g)
        BY <1>6, <2>2
      <3> HIDE DEF g
      <3>3. FrameShares(g) /\ (Building(g, g.service) <=> Building(f, g.service))
        BY <1>0, <1>6, <3>1 DEF FrameShares, Building
      <3> QED BY <1>1, <1>3, <1>6, <3>1, <3>2, <3>3, GoOnShares
    <2>3. CASE d.lifetime = "SINGLETON" /\ lock \in held
      <3> DEFINE g == [f EXCEPT !.stage = "wait", !.lock = lock, !.desc = d]
      <3>1. g \in FrameRecords /\ g.service = s /\ g.stage = "wait" /\ g.lock = lock /\ g.desc = d
        BY <1>2, <2>1 DEF FrameRecords, Stages
      <3>2. SetTop(c, g)
        BY <1>6, <2>3
      <3> HIDE DEF g
      <3>3. FrameShares(g) /\ (Building(g, g.service) <=> Building(f, g.service))
        BY <1>0, <1>6, <3>1 DEF FrameShares, Building
      <3> QED BY <1>1, <1>3, <1>6, <3>1, <3>2, <3>3, GoOnShares
    <2>4. CASE d.lifetime = "SINGLETON" /\ lock \notin held
      <3> DEFINE g == [f EXCEPT !.stage = "build", !.lock = lock, !.desc = d]
      <3>1. g \in FrameRecords /\ g.service = s /\ g.stage = "build" /\ g.lock = lock /\ g.desc = d
        BY <1>2, <2>1 DEF FrameRecords, Stages
      <3>2. SetTop(c, g)
        BY <1>6, <2>4
      <3> HIDE DEF g
      <3>3. <<Container, s>> \notin cached
        BY <1>2, <1>6, <2>4 DEF Cached, OwnerOf
      <3>4. Quiet(s) => built[s] = 0
        BY <3>3, <1>0, <1>2, <1>6, <2>4 DEF QuietInv
      <3>5. FrameInv(g) /\ FrameShares(g)
        BY <1>6, <2>1, <2>4, <3>1, <3>4 DEF FrameInv, FrameShares
      <3> QED BY <1>0, <1>1, <1>3, <1>6, <2>1, <2>4, <3>1, <3>2, <3>3, <3>5, BeginShares
    <2> QED BY <2>2, <2>3, <2>4
  <1> QED BY <1>4, <1>5, <1>6 DEF Enter

\* A waiting call gets the lock: it finds the instance, or begins to make it.
LEMMA AcquireShares ==
    ASSUME ContainerInv, ShareInv, NEW c \in Calls, Acquire(c) PROVE ShareInv' /\ SharedStep
  <1> DEFINE f == Top(c)
             stage == IF f.service \in Cached(Container) THEN "found" ELSE "build"
             g == [f EXCEPT !.stage = stage]
  <1>0. /\ FieldsOK /\ QuietInv /\ StackInv(c) /\ CallShares(c) /\ Active(c) /\ f.stage = "wait" /\ f.lock \notin held
        /\ SetTop(c, g)
        /\ UNCHANGED <<registry, cached, generation, error, ended, asked, shut, disposing, built, changed>>
    BY DEF ContainerInv, ShareInv, Acquire
  <1>1. f \in FrameRecords /\ FrameInv(f) /\ FrameShares(f)
    BY <1>0, StackOf DEF StackInv, CallShares
  <1>2. f.lock # None /\ f.service \in Services
    BY <1>0, <1>1 DEF FrameInv, FrameRecords
  <1>3. /\ g \in FrameRecords /\ g.service = f.service /\ g.stage = stage /\ g.lock = f.lock
        /\ g.desc = f.desc
    BY <1>1 DEF FrameRecords, Stages
  <1>4. stage = (IF <<Container, f.service>> \in cached THEN "found" ELSE "build")
    BY <1>2 DEF Cached
  <1> HIDE DEF g, stage
  <1>5. CASE <<Container, f.service>> \in cached
    <2>1. FrameShares(g) /\ (Building(g, g.service) <=> Building(f, g.service)) /\ g.stage # "enter"
      BY <1>0, <1>1, <1>3, <1>4, <1>5 DEF FrameShares, Building
    <2> QED BY <1>0, <1>3, <2>1, GoOnShares
  <1>6. CASE <<Container, f.service>> \notin cached
    <2>1. Quiet(f.service) => built[f.service] = 0
      BY <1>0, <1>1, <1>2, <1>6 DEF FrameInv, QuietInv
    <2>2. FrameShares(g) /\ FrameInv(g) /\ g.stage = "build"
      BY <1>0, <1>1, <1>2, <1>3, <1>4, <1>6, <2>1 DEF FrameShares, FrameInv
    <2> QED BY <1>0, <1>2, <1>3, <1>6, <2>2, BeginShares
  <1> QED BY <1>5, <1>6

\* The second look has found an instance, which a resolve may return.
LEMMA FoundShares ==
    ASSUME ContainerInv, ShareInv, NEW c \in Calls, Found(c) PROVE ShareInv' /\ SharedStep
  <1> DEFINE f == Top(c)
  <1>0. /\ FieldsOK /\ StackInv(c) /\ CallShares(c) /\ Active(c) /\ f.stage = "found" /\ Return(c, cached)
        /\ UNCHANGED <<registry, shut, changed, asked, built>>
    BY DEF ContainerInv, ShareInv, Found
  <1>1. FrameInv(f) /\ FrameShares(f)
    BY <1>0, StackOf DEF StackInv, CallShares
  <1>2. CellOf(f.service) \in {"unshared", "ready", "released"}
    BY <1>0, <1>1 DEF FrameInv, FrameShares, CellOf
  <1> QED BY <1>0, <1>2, ReturnShares

\* A parameter is asked for.
LEMMA AskShares ==
    ASSUME ContainerInv, ShareInv, NEW c \in Calls, Ask(c) PROVE ShareInv' /\ SharedStep
  <1> DEFINE f == Top(c)
             p == f.desc.params[f.at]
             g == IF f.desc.kind = "factory" THEN Frame(p.service, Fresh(c), {})
                  ELSE Frame(p.service, f.scope, f.chain \cup {f.service})
  <1>0. /\ FieldsOK /\ StackInv(c) /\ turn = c /\ f.stage = "build" /\ f.at <= Len(f.desc.params)
        /\ UNCHANGED <<registry, cached, held, generation, ended, asked, turn, shut, disposing, built, changed>>
    BY DEF ContainerInv, Ask
  <1>1. Active(c)
    BY <1>0 DEF StackInv
  <1>2. f \in FrameRecords /\ FrameInv(f) /\ Depth(c) \in Nat
    BY <1>0, <1>1, StackOf DEF StackInv
  <1>3. CASE UNCHANGED frames
    <2>1. \A t \in Services : Quiet(t)' <=> Quiet(t)
      BY <1>0 DEF Quiet
    <2> QED BY <1>0, <1>3, <2>1, StillShares
  <1>4. CASE frames' = [frames EXCEPT ![c] = Append(@, g)]
    <2>1. p.service \in Services
      BY <1>0, <1>2, AskedService
    <2>2. g \in FrameRecords /\ g.stage = "enter" /\ g.lock = None
      <3>1. Fresh(c) \in Scopes \cup Dictionaries
        BY <1>2 DEF Fresh, Dictionaries
      <3>2. f.scope \in Scopes \cup Dictionaries /\ f.chain \cup {f.service} \in SUBSET Services
        BY <1>2 DEF FrameRecords
      <3> QED BY <2>1, <3>1, <3>2 DEF Frame, FrameRecords, Stages
    <2>3. frames' = [frames EXCEPT ![c] = Append(frames[c], g)]
      BY <1>4
    <2> HIDE DEF g
    <2>4. ShareInv' /\ cellBar' = cellBar /\ buildersBar' = buildersBar
      BY <1>0, <1>1, <2>2, <2>3, PushShares
    <2> QED BY <1>0, <2>4 DEF SharedStep
  <1> QED BY <1>3, <1>4 DEF Ask

\* An instance is built and remembered.
LEMMA MadeShares ==
    ASSUME ContainerInv, ShareInv, NEW c \in Calls, Made(c) PROVE ShareInv' /\ SharedStep
  <1> DEFINE f == Top(c)
             t == f.service
             records == IF f.desc.lifetime = "TRANSIENT" THEN cached ELSE cached \cup {<<OwnerOf(f.desc, f), t>>}
  <1>0. /\ FieldsOK /\ StackInv(c) /\ CallShares(c) /\ turn = c /\ f.stage \in {"build", "made"}
        /\ built' = [built EXCEPT ![t] = @ + 1] /\ Return(c, records)
        /\ UNCHANGED <<registry, generation, error, asked, shut, disposing, changed>>
    BY DEF ContainerInv, ShareInv, Made, Complete
  <1>1. Active(c)
    BY <1>0 DEF StackInv
  <1>2. f \in FrameRecords /\ t \in Services /\ FrameInv(f) /\ FrameShares(f)
    <2>1. f \in FrameRecords /\ FrameInv(f) /\ FrameShares(f)
      BY <1>0, <1>1, StackOf DEF StackInv, CallShares
    <2> QED BY <2>1 DEF FrameRecords
  <1>3. PICK q \in Seq(FrameRecords) :
           Pops(c, q) /\ IF q = << >> THEN ended' = [ended EXCEPT ![c] = "returned"] ELSE ended' = ended
    BY <1>0, <1>1, ReturnPops
  <1>4. \A s \in Services : <<Container, s>> \in cached' <=> <<Container, s>> \in records
    <2> HIDE DEF records
    <2>1. cached' = {r \in records : r[1] # <<c, Depth(c)>>}
      BY <1>0 DEF Return
    <2> QED BY <1>0, <2>1, ReturnKeepsRecords
  <1>5. \A s \in Services \ {t} : built'[s] = built[s] /\ (<<Container, s>> \in cached' <=> <<Container, s>> \in cached)
    BY <1>0, <1>2, <1>4 DEF FieldsOK
  <1>6. \A s \in Services : <<Container, s>> \in cached => <<Container, s>> \in cached'
    BY <1>4
  <1>7. CASE Quiet(t) /\ f.lock # None
    <2>1. Building(f, t)
      BY <1>0, <1>7 DEF Building
    <2>2. f.desc.lifetime = "SINGLETON"
      BY <1>0, <1>7, <1>2 DEF FrameInv
    <2>3. <<Container, t>> \in cached'
      BY <1>2, <1>4, <2>2 DEF OwnerOf
    <2>4. built'[t] # 0
      BY <1>0, <1>2 DEF FieldsOK
    <2> HIDE DEF records
    <2> QED BY <1>0, <1>1, <1>2, <1>3, <1>5, <1>7, <2>1, <2>3, <2>4, BuilderLeaves
  <1>8. CASE ~ (Quiet(t) /\ f.lock # None)
    <2>1. \A s \in Services : ~ (Quiet(s) /\ Building(f, s))
      BY <1>8 DEF Building
    <2>2. Quiet(t) => ~ Shared(t) /\ registry[t] # None
      BY <1>0, <1>2, <1>8 DEF FrameInv, Shared
    <2>3. CellOf(t) \in {"unshared", "ready", "released"}
      BY <2>2 DEF CellOf
    <2>4. \A s \in Services : Quiet(s) /\ Shared(s) =>
              built'[s] = built[s] /\ (<<Container, s>> \in cached' => <<Container, s>> \in cached)
      BY <1>5, <2>2
    <2> HIDE DEF records
    <2> QED BY <1>0, <1>1, <1>3, <1>6, <2>1, <2>3, <2>4, LeaveShares
  <1> QED BY <1>7, <1>8

\* An exception leaves a frame, and with it what it was making.
LEMMA UnwindShares ==
    ASSUME ContainerInv, ShareInv, NEW c \in Calls, Unwind(c) PROVE ShareInv' /\ SharedStep
  <1> DEFINE f == Top(c)
             t == f.service
  <1>0. /\ FieldsOK /\ StackInv(c) /\ turn = c /\ error[c] # None
        /\ UNCHANGED <<registry, asked, shut, built, changed>>
        /\ cached' = {r \in cached : r[1] # <<c, Depth(c)>>}
    BY DEF ContainerInv, Unwind
  <1>1. Active(c)
    BY <1>0 DEF StackInv
  <1>2. f \in FrameRecords /\ t \in Services
    BY <1>0, <1>1, StackOf DEF FrameRecords
  <1>3. PICK q \in Seq(FrameRecords) :
           Pops(c, q) /\ IF q = << >> THEN ended' = [ended EXCEPT ![c] = error[c]] ELSE ended' = ended
    BY <1>0, <1>1, UnwindPops
  <1>4. \A s \in Services : <<Container, s>> \in cached' <=> <<Container, s>> \in cached
    BY <1>0, ReturnKeepsRecords
  <1>5. PICK a \in Errors : a = error[c]
    BY <1>0 DEF FieldsOK
  <1>6. a # "returned"
    BY DEF Errors
  <1>7. CASE Quiet(t) /\ Building(f, t)
    <2>1. <<Container, t>> \notin cached'
      BY <1>1, <1>2, <1>4, <1>7, EmptyCell
    <2>2. \A s \in Services \ {t} : built'[s] = built[s] /\ (<<Container, s>> \in cached' <=> <<Container, s>> \in cached)
      BY <1>0, <1>4
    <2>3. IF a = "returned" THEN <<Container, t>> \in cached' /\ built'[t] # 0 ELSE <<Container, t>> \notin cached'
      BY <1>6, <2>1
    <2>4. Pops(c, q) /\ IF q = << >> THEN ended' = [ended EXCEPT ![c] = a] ELSE ended' = ended
      BY <1>3, <1>5
    <2>5. PICK u \in Services : u = t
      BY <1>2
    <2>6. a \in Errors \cup {"returned"} /\ UNCHANGED <<registry, shut, changed, asked>>
      BY <1>0, <1>5
    <2> QED BY <1>1, <1>7, <2>2, <2>3, <2>4, <2>5, <2>6, BuilderLeaves
  <1>8. CASE ~ (Quiet(t) /\ Building(f, t))
    <2>1. \A s \in Services : ~ (Quiet(s) /\ Building(f, s))
      BY <1>8 DEF Building
    <2> QED BY <1>0, <1>1, <1>3, <1>4, <1>5, <1>6, <2>1, LeaveShares
  <1> QED BY <1>7, <1>8

\* The call goes on inside what it builds.
LEMMA StageShares ==
    ASSUME ContainerInv, ShareInv, NEW c \in Calls, Active(c), NEW stage \in {"awaiting", "made"},
           Top(c).stage \in {"build", "awaiting"},
           SetTop(c, [Top(c) EXCEPT !.stage = stage]),
           UNCHANGED <<registry, cached, ended, asked, shut, built, changed>>
    PROVE  ShareInv' /\ SharedStep
  <1> DEFINE f == Top(c)
             g == [f EXCEPT !.stage = stage]
  <1>0. FieldsOK /\ CallShares(c)
    BY DEF ContainerInv, ShareInv
  <1>1. f \in FrameRecords /\ FrameShares(f)
    BY <1>0, StackOf DEF CallShares
  <1>2. g \in FrameRecords /\ g.service = f.service /\ g.stage = stage /\ g.lock = f.lock /\ g.desc = f.desc
    BY <1>1 DEF FrameRecords, Stages
  <1>3. SetTop(c, g) /\ f.stage \in {"build", "awaiting"}
    OBVIOUS
  <1> HIDE DEF g
  <1>4. FrameShares(g) /\ (Building(g, g.service) <=> Building(f, g.service))
    BY <1>1, <1>2, <1>3 DEF FrameShares, Building
  <1> QED BY <1>2, <1>3, <1>4, GoOnShares

\* A call begins, or finds the container or the scope shut.
LEMMA ResolveShares ==
    ASSUME ContainerInv, ShareInv, NEW c \in Calls, NEW s \in Services, NEW o \in Owners, Resolve(c, s, o)
    PROVE  ShareInv' /\ SharedStep
  <1>0. /\ FieldsOK /\ CallShares(c) /\ DOMAIN asked = Calls /\ ended[c] = None /\ ~ Active(c)
        /\ asked' = [asked EXCEPT ![c] = s]
        /\ UNCHANGED <<registry, cached, shut, built, changed>>
    BY DEF ContainerInv, ShareInv, Resolve
  <1>1. asked[c] = None /\ frames[c] = << >>
    BY <1>0 DEF CallShares, Active
  <1>2. ASSUME cellBar' = cellBar, buildersBar' = buildersBar,
               \E a \in {None, "runtime"} : ended' = [ended EXCEPT ![c] = a]
        PROVE  SharedStep
    <2>1. Singletons!Want(c, s)
      BY <1>0, <1>1, <1>2 DEF Singletons!Want
    <2> QED BY <1>2, <2>1 DEF SharedStep, Singletons!SharedNext, Singletons!instances
  <1>3. CASE shut[o]
    <2>1. ended' = [ended EXCEPT ![c] = "runtime"] /\ UNCHANGED frames
      BY <1>3 DEF Resolve
    <2>2. \A t \in Services : (Quiet(t)' <=> Quiet(t)) /\ CellOf(t)' = CellOf(t) /\ BuildersOf(t)' = BuildersOf(t)
      BY <1>0, <2>1 DEF Quiet, CellOf, Shared, BuildersOf
    <2>3. cellBar' = cellBar /\ buildersBar' = buildersBar
      BY <2>2, SharedBars
    <2>4. frames' = [frames EXCEPT ![c] = << >>] /\ << >> \in Seq(FrameRecords)
      BY <1>0, <1>1, <2>1 DEF FieldsOK
    <2>5. /\ ended'[c] # None /\ DOMAIN asked' = Calls
          /\ \A b \in Calls \ {c} : asked'[b] = asked[b] /\ ended'[b] = ended[b]
      BY <1>0, <2>1, ContainerAssumption DEF FieldsOK
    <2>6. \A t \in Services : Quiet(t) /\ Shared(t) /\ <<Container, t>> \in cached' => built'[t] # 0
      BY <1>0 DEF ShareInv
    <2>7. ShareInv'
      <3>1. PICK q \in Seq(FrameRecords) : q = << >>
        BY <2>4
      <3>2. DOMAIN q = {}
        BY <3>1
      <3> QED BY <1>0, <2>4, <2>5, <2>6, <3>1, <3>2, StackShares
    <2> QED BY <1>2, <2>1, <2>3, <2>7
  <1>4. CASE ~ shut[o]
    <2> DEFINE g == Frame(s, IF o = Container THEN Fresh(c) ELSE o, {})
    <2>1. frames' = [frames EXCEPT ![c] = <<g>>] /\ ended' = ended
      BY <1>4 DEF Resolve
    <2>2. g \in FrameRecords /\ g.stage = "enter" /\ g.lock = None /\ g.service = s
      <3>1. Depth(c) \in Nat
        BY <1>0, StackOf
      <3>2. (IF o = Container THEN Fresh(c) ELSE o) \in Scopes \cup Dictionaries
        BY <3>1 DEF Fresh, Dictionaries, Owners
      <3> QED BY <3>2 DEF Frame, FrameRecords, Stages
    <2> HIDE DEF g
    <2>3. Append(<< >>, g) = <<g>>
      OBVIOUS
    <2>4. frames' = [frames EXCEPT ![c] = Append(frames[c], g)]
      BY <1>1, <2>1, <2>3
    <2>5. ShareInv' /\ cellBar' = cellBar /\ buildersBar' = buildersBar
      BY <1>0, <2>1, <2>2, <2>4, PushShares
    <2>6. ended' = [ended EXCEPT ![c] = None]
      BY <1>0, <2>1 DEF FieldsOK
    <2> QED BY <1>2, <2>5, <2>6
  <1> QED BY <1>3, <1>4

-----------------------------------------------------------------------------
\* What a call does next.
LEMMA ResolveStepShares ==
    ASSUME ContainerInv, ShareInv, NEW c \in Calls, ResolveStep(c) PROVE ShareInv' /\ SharedStep
  <1>0. FieldsOK /\ StackInv(c)
    BY DEF ContainerInv
  <1>1. CASE Suspend(c)
    <2>1. Active(c) /\ Top(c).stage = "build" /\ SetTop(c, [Top(c) EXCEPT !.stage = "awaiting"])
      BY <1>0, <1>1 DEF Suspend, StackInv
    <2>2. UNCHANGED <<registry, cached, ended, asked, shut, built, changed>>
      BY <1>1 DEF Suspend
    <2> QED BY <2>1, <2>2, StageShares
  <1>2. CASE Wake(c)
    <2>1. Active(c) /\ Top(c).stage = "awaiting" /\ SetTop(c, [Top(c) EXCEPT !.stage = "made"])
      BY <1>2 DEF Wake
    <2>2. UNCHANGED <<registry, cached, ended, asked, shut, built, changed>>
      BY <1>2 DEF Wake
    <2> QED BY <2>1, <2>2, StageShares
  <1>3. CASE MakingRaises(c)
    <2>1. UNCHANGED <<registry, cached, frames, ended, asked, shut, built, changed>>
      BY <1>3 DEF MakingRaises
    <2>2. \A s \in Services : Quiet(s)' => Quiet(s)
      BY <2>1 DEF Quiet
    <2> QED BY <2>1, <2>2, StillShares
  <1> QED BY <1>1, <1>2, <1>3, EnterShares, AcquireShares, FoundShares, AskShares, MadeShares, UnwindShares
          DEF ResolveStep

\* Whoever changes a registration or shuts the container releases it from its promise.
LEMMA ShareStep ==
    ASSUME ContainerInv, ShareInv, [ContainerNext]_containerVars PROVE ShareInv' /\ SharedStep
  <1>0. FieldsOK /\ QuietInv /\ Container \in Owners
    BY DEF ContainerInv, Owners
  <1>1. CASE UNCHANGED containerVars
    <2>1. UNCHANGED <<registry, cached, frames, ended, asked, shut, built, changed>>
      BY <1>1 DEF containerVars
    <2>2. \A s \in Services : Quiet(s)' => Quiet(s)
      BY <2>1 DEF Quiet
    <2> QED BY <2>1, <2>2, StillShares
  <1>2. ASSUME NEW t \in Services, Remove(t) \/ \E d \in Replacements : Register(t, d)
        PROVE  ShareInv' /\ SharedStep
    <2>1. UNCHANGED <<frames, ended, asked, shut, built>> /\ changed' = changed \cup {t}
      BY <1>2 DEF Remove, Register
    <2>2. ASSUME NEW s \in Services, Quiet(s)' PROVE s # t /\ Quiet(s)
      BY <2>1, <2>2 DEF Quiet
    <2>3. ASSUME NEW s \in Services, s # t
          PROVE  registry'[s] = registry[s] /\ (<<Container, s>> \in cached' <=> <<Container, s>> \in cached)
      BY <1>0, <1>2, <2>3 DEF Remove, Register, FieldsOK
    <2> QED BY <2>1, <2>2, <2>3, StillShares
  <1>3. ASSUME NEW o \in Owners, BeginDispose(o) PROVE ShareInv' /\ SharedStep
    <2>1. UNCHANGED <<registry, cached, frames, ended, asked, built, changed>>
      BY <1>3 DEF BeginDispose
    <2>2. shut[Container] => shut'[Container]
      BY <1>0, <1>3 DEF BeginDispose, FieldsOK
    <2>3. \A s \in Services : Quiet(s)' => Quiet(s)
      BY <2>1, <2>2 DEF Quiet
    <2> QED BY <2>1, <2>3, StillShares
  <1>4. ASSUME NEW o \in Owners, DisposeNext(o) \/ DisposeRaises(o) \/ DisposeEnds(o) PROVE ShareInv' /\ SharedStep
    <2>1. UNCHANGED <<frames, ended, asked, shut, built, changed>> /\ disposing[o] # None
      BY <1>4 DEF DisposeNext, DisposeRaises, DisposeEnds
    <2>2. ASSUME NEW s \in Services, Quiet(s)' PROVE Quiet(s) /\ o # Container
      <3>1. Quiet(s) /\ ~ shut[Container]
        BY <2>1, <2>2 DEF Quiet
      <3> QED BY <1>0, <2>1, <3>1 DEF QuietInv
    <2>3. o # Container => /\ registry' = registry
                           /\ \A s \in Services : <<Container, s>> \in cached' <=> <<Container, s>> \in cached
      BY <1>4 DEF DisposeNext, DisposeRaises, DisposeEnds
    <2> QED BY <2>1, <2>2, <2>3, StillShares
  <1> QED BY <1>1, <1>2, <1>3, <1>4, ResolveShares, ResolveStepShares DEF ContainerNext

\* A new container has made nothing.
LEMMA ShareInit ==
    ASSUME ContainerInit PROVE ShareInv /\ Singletons!SharedInit
  <1>1. ShareInv
    BY DEF ContainerInit, ShareInv, CallShares, Active
  <1>2. \A s \in Services : CellOf(s) \in {"absent", "unshared", "empty"}
    BY DEF ContainerInit, CellOf, Quiet, Owners, Container
  <1>3. \A s \in Services : BuildersOf(s) = {}
    BY DEF ContainerInit, BuildersOf, Builds
  <1> QED BY <1>1, <1>2, <1>3, SharedBars DEF ContainerInit, Singletons!SharedInit

-----------------------------------------------------------------------------
(***************************************************************************)
(* The theorems.                                                           *)
(***************************************************************************)
\* Every reachable state of the container satisfies the invariant.
THEOREM ContainerInvariant == ContainerSpec => []ContainerInv
  <1> QED BY ContainerInvInit, ContainerInvStep, PTL DEF ContainerSpec

\* The caches and the locks are those of known services, no lock outlives its
\* generation, and the call that has the event loop is under way.
THEOREM ContainerTypes == ContainerSpec => []ContainerTypeOK
  <1>1. ContainerInv => ContainerTypeOK
    <2> SUFFICES ASSUME ContainerInv PROVE ContainerTypeOK
      OBVIOUS
    <2>0. FieldsOK /\ LockInv /\ \A c \in Calls : StackInv(c)
      BY DEF ContainerInv
    <2>1. \A r \in cached : r[2] \in Services
      BY <2>0 DEF FieldsOK
    <2>2. ASSUME NEW l \in held PROVE l[1] \in Services /\ l[2] <= generation[l[1]]
      <3>1. PICK c \in Calls : \E i \in DOMAIN frames[c] : Inside(frames[c][i]) /\ frames[c][i].lock = l
        BY <2>0 DEF LockInv
      <3>2. PICK i \in DOMAIN frames[c] : Inside(frames[c][i]) /\ frames[c][i].lock = l
        BY <3>1
      <3>3. FrameInv(frames[c][i])
        BY <2>0 DEF StackInv
      <3>4. l[1] = frames[c][i].service /\ l[2] <= generation[frames[c][i].service]
        BY <3>2, <3>3 DEF FrameInv, Inside
      <3>5. l[1] \in Services
        BY <2>0 DEF FieldsOK, Locks
      <3> QED BY <3>4, <3>5
    <2>3. \A c \in Calls : Active(c) => ended[c] = None
      BY <2>0 DEF StackInv
    <2>4. turn # None => Active(turn)
      BY <2>0 DEF StackInv, FieldsOK
    <2> QED BY <2>1, <2>2, <2>3, <2>4 DEF ContainerTypeOK
  <1> QED BY <1>1, ContainerInvariant, PTL

\* However many calls resolve a singleton at once, it is built at most once
\* (resolver.py:69-77).
THEOREM SingletonIsBuiltOnce == ContainerSpec => []OneSingleton
  <1>1. ASSUME ContainerInv, ~ shut[Container], NEW s \in Services \ changed,
               registry[s] # None, registry[s].lifetime = "SINGLETON"
        PROVE  built[s] <= 1
    <2>1. built[s] = 0 \/ built[s] = 1
      BY <1>1 DEF ContainerInv, QuietInv, Quiet
    <2> QED BY <2>1
  <1>2. ContainerInv => OneSingleton
    BY <1>1 DEF OneSingleton
  <1> QED BY <1>2, ContainerInvariant, PTL

\* Calls do not wait for each other for ever unless something depends on itself
\* (resolver.py:70-71).
THEOREM ResolvesDoNotDeadlock == ContainerSpec => []NoDeadlock
  <1>1. ContainerInv => NoDeadlock
    BY SomeoneRuns
  <1> QED BY <1>1, ContainerInvariant, PTL

\* Of a container of classes and instances that has not been changed or shut, a resolve
\* that no constructor's own exception ends succeeds exactly if validate() has nothing to
\* say about the service, and else fails with the error it names, whatever the other calls
\* have built, failed to build or are building in the meantime (validation.py:29-80 against
\* resolver.py:39-125).
THEOREM ValidatorForeseesResolver == ContainerSpec => []ValidatorAgrees
  <1> DEFINE Inv == ContainerInv /\ DOMAIN asked = Calls /\ (Calm => Foresight(Diagnosis(registry)[{}]))
  <1>1. ContainerInit => Inv
    <2> SUFFICES ASSUME ContainerInit PROVE Foresight(Diagnosis(registry)[{}])
      BY ContainerInvInit DEF ContainerInit
    <2>1. ASSUME NEW v PROVE Foresight(v)
      BY DEF ContainerInit, Foresight, CallSees, StackSees, Active
    <2> QED BY <2>1
  <1>2. Inv /\ [ContainerNext]_containerVars => Inv'
    <2>1. DOMAIN asked = Calls /\ [ContainerNext]_containerVars => (DOMAIN asked = Calls)'
      BY DEF ContainerNext, containerVars, Resolve, ResolveStep, Enter, Acquire, Found, Ask, Suspend, Wake,
             Made, MakingRaises, Unwind, Remove, Register, BeginDispose, DisposeNext, DisposeEnds, DisposeRaises
    <2> QED BY <2>1, ContainerInvStep, ForesightStep
  <1>3. Inv => ValidatorAgrees
    <2> SUFFICES ASSUME Foresight(Diagnosis(registry)[{}]), NEW c \in Calls, ended[c] \notin {None, "failed"}
                 PROVE  Diagnosis(registry)[{}][asked[c]] = IF ended[c] = "returned" THEN "valid" ELSE ended[c]
      BY DEF ValidatorAgrees, Calm
    <2> QED BY DEF Foresight, CallSees
  <1> QED BY <1>1, <1>2, <1>3, PTL DEF ContainerSpec

\* The resolver keeps the promise of SINGLETON, for every number of services and of calls
\* that resolve them at once: one of them makes the instance while the others wait, after
\* a failure another one may, it is made once, and a resolve that returns has it
\* (lifetime.py:7, resolver.py:39-120).
THEOREM ResolverRefines == ContainerSpec => ImplementsSharedInstances
  <1>1. ContainerInit => ShareInv /\ Singletons!SharedInit
    BY ShareInit
  <1>2. ContainerInv /\ ShareInv /\ [ContainerNext]_containerVars =>
            ShareInv' /\ [Singletons!SharedNext]_<<Singletons!instances, Singletons!calls>>
    <2> SUFFICES ASSUME ContainerInv, ShareInv, [ContainerNext]_containerVars
                 PROVE  ShareInv' /\ [Singletons!SharedNext]_<<Singletons!instances, Singletons!calls>>
      OBVIOUS
    <2>1. ShareInv' /\ SharedStep
      BY ShareStep
    <2> QED BY <2>1 DEF SharedStep, Singletons!instances, Singletons!calls
  <1> QED BY <1>1, <1>2, ContainerInvariant, PTL
          DEF ContainerSpec, ImplementsSharedInstances, Singletons!SharedSpec
=============================================================================
