--------------------------- MODULE GatewayProofs ---------------------------
(***************************************************************************)
(* Theorems about Gateway for every number of chats, callbacks, runtimes,  *)
(* messages and every queue and memory size.                               *)
(***************************************************************************)
EXTENDS Gateway, TLAPS

-----------------------------------------------------------------------------
(* The deduplicator's sequence operators.                                   *)

\* Removing one occurrence of m keeps the type, does not lengthen the sequence
\* and loses no other element.
LEMMA WithoutFacts ==
    ASSUME NEW S, NEW s \in Seq(S), NEW m
    PROVE  /\ Without(s, m) \in Seq(S)
           /\ Len(Without(s, m)) <= Len(s)
           /\ Elements(s) \ {m} \subseteq Elements(Without(s, m))
<1>1. CASE m \notin Elements(s)
  BY <1>1 DEF Without
<1>2. CASE m \in Elements(s)
  <2> DEFINE i == CHOOSE i \in DOMAIN s : s[i] = m
             a == SubSeq(s, 1, i - 1)
             b == SubSeq(s, i + 1, Len(s))
  <2>1. i \in 1 .. Len(s) /\ s[i] = m
    BY <1>2 DEF Elements
  <2>2. Without(s, m) = a \o b
    BY <1>2 DEF Without
  <2> HIDE DEF i
  <2>3. a \in Seq(S) /\ Len(a) = i - 1 /\ \A j \in 1 .. i - 1 : a[j] = s[j]
    BY <2>1
  <2>4. b \in Seq(S) /\ Len(b) = Len(s) - i /\ \A j \in 1 .. Len(s) - i : b[j] = s[i + j]
    BY <2>1
  <2> HIDE DEF a, b
  <2>5. a \o b \in Seq(S) /\ Len(a \o b) = Len(s) - 1
    <3>1. a \o b \in Seq(S) /\ Len(a \o b) = Len(a) + Len(b)
      BY <2>3, <2>4
    <3>2. Len(a) + Len(b) = Len(s) - 1
      BY <2>1, <2>3, <2>4
    <3> QED BY <3>1, <3>2
  <2>6. ASSUME NEW j \in 1 .. Len(s), s[j] # m
        PROVE  s[j] \in Elements(a \o b)
    <3>1. CASE j < i
      <4>1. (a \o b)[j] = s[j] /\ j \in 1 .. Len(s) - 1
        BY <3>1, <2>1, <2>3, <2>4, <2>6
      <4> QED BY <4>1, <2>5 DEF Elements
    <3>2. CASE j > i
      <4>1. (a \o b)[j - 1] = b[j - i]
        BY <3>2, <2>1, <2>3, <2>4
      <4>2. b[j - i] = s[j] /\ j - 1 \in 1 .. Len(s) - 1
        <5>1. j - i \in 1 .. Len(s) - i /\ i + (j - i) = j
          BY <3>2, <2>1, <2>6
        <5>2. b[j - i] = s[i + (j - i)]
          BY <5>1, <2>4
        <5>3. j - 1 \in 1 .. Len(s) - 1
          BY <3>2, <2>1, <2>6
        <5> QED BY <5>1, <5>2, <5>3
      <4> QED BY <4>1, <4>2, <2>5 DEF Elements
    <3> QED BY <3>1, <3>2, <2>1, <2>6
  <2>7. Elements(s) \ {m} \subseteq Elements(a \o b)
    BY <2>6 DEF Elements
  <2> QED BY <2>2, <2>5, <2>7
<1> QED BY <1>1, <1>2

\* Remembering a key keeps the memory typed, bounded and complete.
LEMMA RememberFacts ==
    ASSUME MemoryTyped, NEW m \in Messages, Remember(m)
    PROVE  MemoryTyped'
<1> USE GatewayAssumption DEF MemoryTyped
<1> DEFINE kept == IF Len(seen) >= MaxSeen THEN Tail(seen) ELSE seen
           rest == Without(kept, m)
<1>1. kept \in Seq(Messages) /\ Len(kept) <= MaxSeen - 1
  OBVIOUS
<1>2. seen' = Append(rest, m) /\ fresh' = (fresh \cap Elements(kept)) \cup {m}
  BY DEF Remember
<1> HIDE DEF kept
<1>3. rest \in Seq(Messages) /\ Len(rest) <= Len(kept) /\ Elements(kept) \ {m} \subseteq Elements(rest)
  BY <1>1, WithoutFacts
<1> HIDE DEF rest
<1>4. Len(seen') = Len(rest) + 1 /\ seen' \in Seq(Messages)
  BY <1>2, <1>3
<1>5. \A j \in 1 .. Len(rest) : seen'[j] = rest[j]
  BY <1>2, <1>3
<1>6. seen'[Len(rest) + 1] = m
  BY <1>2, <1>3
<1>7. Elements(rest) \cup {m} \subseteq Elements(seen')
  BY <1>3, <1>4, <1>5, <1>6 DEF Elements
<1> QED BY <1>1, <1>2, <1>3, <1>4, <1>7
-----------------------------------------------------------------------------
(* Type correctness.                                                        *)

\* Pushing keeps a Conversation's type and adds one to its queue.
LEMMA PushedFacts ==
    ASSUME NEW h \in Handlers, Msg(h) \in Messages, NEW old \in ConvType
    PROVE  /\ Pushed(h, old) \in ConvType
           /\ Pushed(h, old).queue = Append(old.queue, Msg(h))
           /\ Len(Pushed(h, old).queue) = Len(old.queue) + 1
           /\ Pushed(h, old).activitySeq = old.activitySeq + 1
           /\ Pushed(h, old).route = old.route
           /\ Pushed(h, old).closing = old.closing
           /\ Pushed(h, old).owed = IF ShowAccepted THEN old.owed \cup {h} ELSE old.owed
<1> DEFINE q == Append(old.queue, Msg(h))
           w == IF ShowAccepted THEN old.owed \cup {h} ELSE old.owed
<1>1. /\ q \in Seq(Messages) /\ Len(q) = Len(old.queue) + 1
      /\ w \in SUBSET Handlers
      /\ old.activitySeq + 1 \in Nat
  BY DEF ConvType
<1> HIDE DEF q, w
<1>2. Pushed(h, old) = [old EXCEPT !.queue = q, !.activitySeq = old.activitySeq + 1, !.owed = w]
  BY DEF Pushed, q, w, ConvType
<1>3. Pushed(h, old) = [route |-> old.route, queue |-> q, activitySeq |-> old.activitySeq + 1,
                        closing |-> old.closing, owed |-> w]
  BY <1>2 DEF ConvType
<1>4. Pushed(h, old) \in ConvType
  BY <1>1, <1>3 DEF ConvType
<1> QED BY <1>1, <1>3, <1>4 DEF q, w

\* A fresh Conversation is well typed and empty.
LEMMA NewConvFacts ==
    ASSUME NEW r \in Routes \cup {None}
    PROVE  /\ NewConv(r) \in ConvType
           /\ NewConv(r).queue = <<>>
           /\ Len(NewConv(r).queue) = 0
BY DEF NewConv, ConvType

\* Updating one handler, one Conversation or one worker keeps the types.
LEMMA HandlerUpdate ==
    ASSUME HandlersTyped, NEW h \in Handlers, NEW v \in HandlerType,
           v.pc = "idle" \/ v.msg \in Messages, handler' = [handler EXCEPT ![h] = v]
    PROVE  HandlersTyped'
BY DEF HandlersTyped, At, Msg

LEMMA ReturnTyped ==
    ASSUME HandlersTyped, NEW h \in Handlers, Return(h)
    PROVE  HandlersTyped'
<1>1. IdleHandler \in HandlerType /\ IdleHandler.pc = "idle"
  BY DEF IdleHandler, HandlerType, HandlerPC
<1> QED BY <1>1, HandlerUpdate DEF Return

LEMMA MoveTyped ==
    ASSUME HandlersTyped, NEW h \in Handlers, NEW l \in HandlerPC, Msg(h) \in Messages,
           handler' = [handler EXCEPT ![h].pc = l]
    PROVE  HandlersTyped'
<1> DEFINE v == [handler[h] EXCEPT !.pc = l]
<1>1. v \in HandlerType /\ v.msg = handler[h].msg
  BY DEF HandlersTyped, HandlerType
<1>2. handler' = [handler EXCEPT ![h] = v]
  BY DEF HandlersTyped
<1> QED BY <1>1, <1>2, HandlerUpdate DEF Msg

LEMMA ToRememberTyped ==
    ASSUME HandlersTyped, NEW h \in Handlers, NEW c \in Runtimes, Msg(h) \in Messages,
           ToRemember(h, c)
    PROVE  HandlersTyped'
<1> DEFINE v == [handler[h] EXCEPT !.pc = "remember", !.conv = c]
<1>1. v \in HandlerType /\ v.msg = handler[h].msg
  BY DEF HandlersTyped, HandlerType, HandlerPC
<1>2. handler' = [handler EXCEPT ![h] = v]
  BY DEF HandlersTyped, ToRemember
<1> QED BY <1>1, <1>2, HandlerUpdate DEF Msg

LEMMA ConvUpdate ==
    ASSUME ConvsTyped, NEW c \in Runtimes, NEW v \in ConvType, Len(v.queue) <= QueueSize,
           conv' = [conv EXCEPT ![c] = v]
    PROVE  ConvsTyped'
BY DEF ConvsTyped

\* Every step of a handler keeps the types.
LEMMA HandlerTypes ==
    ASSUME TypeOK, NEW h \in Handlers, Handler(h)
    PROVE  TypeOK'
<1> USE GatewayAssumption
<1>0. HandlersTyped /\ MemoryTyped /\ ConvsTyped
  BY DEF TypeOK
<1>1. CASE Admit(h)
  <2>0. At(h, "admit") /\ Msg(h) \in Messages
    BY <1>0, <1>1 DEF Admit, HandlersTyped, At
  <2>1. UNCHANGED <<cancelled, shutdown, receives, mapVars, conv, worker>>
    BY <1>1 DEF Admit
  <2>2. CASE Return(h) /\ UNCHANGED <<gmu, dedupVars>>
    BY <1>0, <2>1, <2>2, ReturnTyped DEF TypeOK, ConvsTyped, MemoryTyped, mapVars, dedupVars
  <2>3. CASE Return(h) /\ UNCHANGED gmu /\ Remember(Msg(h))
    <3>1. HandlersTyped' /\ MemoryTyped'
      BY <1>0, <2>0, <2>3, ReturnTyped, RememberFacts
    <3> QED BY <3>1, <2>1, <2>3 DEF TypeOK, ConvsTyped, mapVars
  <2>4. CASE AdmitTask(h)
    <3>1. HandlersTyped'
      BY <1>0, <2>0, <2>4, MoveTyped DEF AdmitTask, HandlerPC
    <3> QED BY <3>1, <2>1, <2>4 DEF AdmitTask, TypeOK, ConvsTyped, MemoryTyped, mapVars, dedupVars
  <2> QED BY <1>1, <2>2, <2>3, <2>4 DEF Admit, AdmitRefused, AdmitIgnored, AdmitControl
<1>2. CASE Enqueue(h)
  <2>0. At(h, "enqueue") /\ Msg(h) \in Messages /\ RouteOf[Msg(h)] \in Routes
    BY <1>0, <1>2 DEF Enqueue, HandlersTyped, At
  <2>1. UNCHANGED <<cancelled, shutdown, receives, dedupVars, closeErr>>
    BY <1>2 DEF Enqueue
  <2>2. CASE EnqueueCreating(h)
    <3> DEFINE r == RouteOf[Msg(h)]
    <3>1. PICK c \in Runtimes :
             /\ conversations' = [conversations EXCEPT ![r] = c]
             /\ workers' = workers \cup {c}
             /\ conv' = [conv EXCEPT ![c] = Pushed(h, NewConv(r))]
             /\ worker' = [worker EXCEPT ![c] = NewWorker("loop")]
             /\ ToRemember(h, c)
             /\ UNCHANGED gmu
      BY <2>2 DEF EnqueueCreating
    <3>2. Pushed(h, NewConv(r)) \in ConvType /\ Len(Pushed(h, NewConv(r)).queue) <= QueueSize
      <4>0. r \in Routes \cup {None}
        BY <2>0
      <4> HIDE DEF r
      <4>1. NewConv(r) \in ConvType /\ Len(NewConv(r).queue) = 0
        BY <4>0, NewConvFacts
      <4>2. Pushed(h, NewConv(r)) \in ConvType /\ Len(Pushed(h, NewConv(r)).queue) = 1
        <5> DEFINE n == NewConv(r)
        <5>1. n \in ConvType /\ Len(n.queue) = 0 /\ Msg(h) \in Messages
          BY <2>0, <4>1
        <5> HIDE DEF n
        <5>2. Pushed(h, n) \in ConvType /\ Len(Pushed(h, n).queue) = Len(n.queue) + 1
          BY <5>1, PushedFacts
        <5>3. Pushed(h, n) \in ConvType /\ Len(Pushed(h, n).queue) = 1
          BY <5>1, <5>2
        <5> QED BY <5>3 DEF n
      <4> QED BY <4>2
    <3>3. ConvsTyped'
      BY <1>0, <3>1, <3>2, ConvUpdate
    <3>4. NewWorker("loop") \in WorkerType
      BY DEF WorkerType, NewWorker, WorkerPC
    <3>5. HandlersTyped'
      BY <1>0, <2>0, <3>1, ToRememberTyped
    <3> QED BY <2>0, <2>1, <3>1, <3>3, <3>4, <3>5 DEF TypeOK, MemoryTyped, dedupVars
  <2>3. CASE EnqueueExisting(h)
    <3> DEFINE c == Target(h)
    <3>1. /\ c \in Runtimes
          /\ Len(conv[c].queue) < QueueSize
          /\ conv' = [conv EXCEPT ![c] = Pushed(h, conv[c])]
          /\ ToRemember(h, c)
          /\ UNCHANGED <<gmu, conversations, workers, worker>>
      BY <2>3, <2>0 DEF EnqueueExisting, Target, TypeOK
    <3> HIDE DEF c
    <3>2. conv[c] \in ConvType /\ Len(conv[c].queue) + 1 <= QueueSize
      BY <1>0, <3>1 DEF ConvsTyped, ConvType
    <3>3. Pushed(h, conv[c]) \in ConvType /\ Len(Pushed(h, conv[c]).queue) <= QueueSize
      BY <2>0, <3>2, PushedFacts
    <3>4. ConvsTyped'
      BY <1>0, <3>1, <3>3, ConvUpdate
    <3>5. HandlersTyped'
      BY <1>0, <2>0, <3>1, ToRememberTyped
    <3> QED BY <2>1, <3>1, <3>4, <3>5 DEF TypeOK, MemoryTyped, dedupVars
  <2>4. CASE Refuse(h)
    <3>1. HandlersTyped'
      BY <1>0, <2>4, ReturnTyped DEF Refuse
    <3> QED BY <2>1, <2>4, <3>1 DEF Refuse, TypeOK, ConvsTyped, MemoryTyped, dedupVars
  <2> QED BY <1>2, <2>2, <2>3, <2>4 DEF Enqueue, EnqueueClosing, EnqueueFull
<1>3. CASE RememberAccepted(h)
  <2>0. At(h, "remember") /\ Msg(h) \in Messages
    BY <1>0, <1>3 DEF RememberAccepted, HandlersTyped, At
  <2>1. HandlersTyped' /\ MemoryTyped'
    BY <1>0, <1>3, <2>0, ReturnTyped, MoveTyped, RememberFacts DEF RememberAccepted, HandlerPC
  <2> QED BY <1>3, <2>1 DEF RememberAccepted, TypeOK, ConvsTyped, mapVars
<1>4. CASE NotifyAccepted(h)
  <2>1. HandlersTyped'
    BY <1>0, <1>4, ReturnTyped DEF NotifyAccepted
  <2>2. ConvsTyped'
    <3> DEFINE c == handler[h].conv
               v == [conv[c] EXCEPT !.owed = conv[c].owed \ {h}]
    <3>1. CASE c \in Runtimes
      <4>1. v \in ConvType /\ v.queue = conv[c].queue
        BY <1>0, <3>1 DEF ConvsTyped, ConvType
      <4>2. conv' = [conv EXCEPT ![c] = v]
        BY <1>0, <1>4, <3>1 DEF NotifyAccepted, ConvsTyped
      <4> QED BY <1>0, <3>1, <4>1, <4>2, ConvUpdate DEF ConvsTyped
    <3>2. CASE c \notin Runtimes
      BY <1>0, <1>4, <3>2 DEF NotifyAccepted, ConvsTyped
    <3> QED BY <3>1, <3>2
  <2> QED BY <1>4, <2>1, <2>2 DEF NotifyAccepted, TypeOK, MemoryTyped, dedupVars, mapVars
<1> QED BY <1>1, <1>2, <1>3, <1>4 DEF Handler

\* Every step of a worker keeps the types.
LEMMA WorkerTypes ==
    ASSUME TypeOK, NEW c \in Runtimes, Worker(c)
    PROVE  TypeOK'
<1>0. ConvsTyped /\ conv[c] \in ConvType /\ Len(conv[c].queue) <= QueueSize /\ worker[c] \in WorkerType
  BY DEF TypeOK, ConvsTyped
<1>a. ASSUME NEW v \in ConvType, Len(v.queue) <= QueueSize, conv' = [conv EXCEPT ![c] = v]
      PROVE  ConvsTyped'
  BY <1>0, <1>a, ConvUpdate
<1>b. ASSUME NEW l \in WorkerPC, Goto(c, l)
      PROVE  worker' \in [Runtimes -> WorkerType]
  BY <1>b DEF Goto, TypeOK, WorkerType
<1>c. ASSUME Drop(c)
      PROVE  worker' \in [Runtimes -> WorkerType]
  <2> DEFINE v == [worker[c] EXCEPT !.pc = "loop", !.task = None]
  <2>1. v \in WorkerType
    BY <1>0 DEF WorkerType, WorkerPC
  <2>2. worker' = [worker EXCEPT ![c] = v]
    BY <1>c DEF Drop, TypeOK
  <2> QED BY <2>1, <2>2 DEF TypeOK
<1>d. ASSUME conv' = [conv EXCEPT ![c].closing = TRUE]
      PROVE  ConvsTyped'
  <2> DEFINE v == [conv[c] EXCEPT !.closing = TRUE]
  <2>1. v \in ConvType /\ v.queue = conv[c].queue
    BY <1>0 DEF ConvType
  <2>2. conv' = [conv EXCEPT ![c] = v]
    BY <1>0, <1>d DEF ConvsTyped
  <2> QED BY <1>0, <1>a, <2>1, <2>2
<1>1. CASE Run(c)
  <2>0. UNCHANGED <<cancelled, shutdown, gmu, receives, handler, dedupVars, mapVars>>
    BY <1>1 DEF Run
  <2>1. worker' \in [Runtimes -> WorkerType] /\ ConvsTyped'
    <3>1. CASE LoopTop(c)
      <4>1. conv[c].activitySeq \in Nat /\ (IdleTimeout /\ Idle(c)) \in BOOLEAN
        BY <1>0, GatewayAssumption DEF ConvType, Idle
      <4>2. worker' \in [Runtimes -> WorkerType]
        <5>1. CASE cancelled
          BY <3>1, <5>1, <1>b DEF LoopTop, WorkerPC
        <5>2. CASE ~cancelled
          <6> DEFINE arm == IdleTimeout /\ Idle(c)
                     e == IF arm THEN conv[c].activitySeq ELSE 0
                     v == [worker[c] EXCEPT !.pc = "select", !.armed = arm, !.expectedSeq = e]
          <6>1. arm \in BOOLEAN /\ e \in Nat
            BY <4>1
          <6>2. worker' = [worker EXCEPT ![c] = v]
            BY <3>1, <5>2 DEF LoopTop, TypeOK
          <6> HIDE DEF arm, e
          <6>3. v \in WorkerType
            BY <1>0, <6>1 DEF WorkerType, WorkerPC
          <6> QED BY <6>2, <6>3 DEF TypeOK
        <5> QED BY <5>1, <5>2
      <4> QED BY <3>1, <4>2, <1>0 DEF LoopTop, ConvsTyped
    <3>2. CASE SelectCancelled(c)
      BY <3>2, <1>0, <1>b DEF SelectCancelled, WorkerPC, ConvsTyped
    <3>3. CASE SelectMessage(c)
      <4> DEFINE v == [conv[c] EXCEPT !.queue = Tail(conv[c].queue)]
      <4>1. /\ Head(conv[c].queue) \in Messages
            /\ Tail(conv[c].queue) \in Seq(Messages)
            /\ Len(Tail(conv[c].queue)) <= QueueSize
        BY <3>3, <1>0, GatewayAssumption DEF SelectMessage, ConvType
      <4>2. v \in ConvType /\ v.queue = Tail(conv[c].queue)
        BY <1>0, <4>1 DEF ConvType
      <4>3. conv' = [conv EXCEPT ![c] = v]
        BY <1>0, <3>3 DEF SelectMessage, ConvsTyped
      <4>4. worker' \in [Runtimes -> WorkerType]
        <5> DEFINE t == Head(conv[c].queue)
                   w == [worker[c] EXCEPT !.pc = "resolve", !.armed = FALSE,
                                          !.expectedSeq = 0, !.task = t]
        <5>1. worker' = [worker EXCEPT ![c] = w]
          BY <3>3 DEF SelectMessage, TypeOK
        <5>2. t \in Messages
          BY <4>1
        <5> HIDE DEF t
        <5>3. w \in WorkerType
          BY <1>0, <5>2 DEF WorkerType, WorkerPC
        <5> QED BY <5>1, <5>3 DEF TypeOK
      <4> QED BY <1>a, <4>1, <4>2, <4>3, <4>4
    <3>4. CASE SelectTick(c)
      BY <3>4, <1>0 DEF SelectTick, TypeOK, WorkerType, WorkerPC, ConvsTyped
    <3>5. CASE BeginEviction(c)
      BY <3>5, <1>0, <1>b, <1>d DEF BeginEviction, WorkerPC, ConvsTyped
    <3> QED BY <1>1, <3>1, <3>2, <3>3, <3>4, <3>5 DEF Run
  <2> QED BY <2>0, <2>1 DEF TypeOK, HandlersTyped, MemoryTyped, At, Msg, dedupVars, mapVars
<1>2. CASE Process(c)
  <2>0. UNCHANGED <<cancelled, shutdown, gmu, receives, handler, dedupVars, mapVars, conv>>
    BY <1>2 DEF Process
  <2>1. worker' \in [Runtimes -> WorkerType]
    <3>1. CASE Resolve(c)
      BY <3>1, <1>b, <1>c DEF Resolve, TypeOK, WorkerType, WorkerPC
    <3>2. CASE Build(c)
      BY <3>2, <1>b, <1>c DEF Build, TypeOK, WorkerType, WorkerPC
    <3>3. CASE AppendUser(c)
      BY <3>3, <1>b, <1>c DEF AppendUser, WorkerPC
    <3>4. CASE RunEnds(c)
      BY <3>4, <1>b, <1>c DEF RunEnds, WorkerPC
    <3>5. CASE Report(c)
      BY <3>5, <1>c DEF Report
    <3> QED BY <1>2, <3>1, <3>2, <3>3, <3>4, <3>5 DEF Process
  <2> QED BY <2>0, <2>1 DEF TypeOK, HandlersTyped, MemoryTyped, ConvsTyped, At, Msg, dedupVars, mapVars
<1>3. CASE Teardown(c)
  <2>0. UNCHANGED <<cancelled, shutdown, gmu, receives, handler, dedupVars>>
    BY <1>3 DEF Teardown
  <2>1. /\ conversations' \in [Routes -> Runtimes \cup {None}]
        /\ workers' \in SUBSET Runtimes
        /\ closeErr' \in BOOLEAN
        /\ ConvsTyped'
        /\ worker' \in [Runtimes -> WorkerType]
    <3>1. CASE CloseRuntime(c)
      BY <3>1, <1>b, <1>d DEF CloseRuntime, TypeOK, mapVars, WorkerPC
    <3>2. CASE ReleaseSession(c)
      <4>1. closeErr' \in BOOLEAN
        BY <3>2, <1>0 DEF ReleaseSession, TypeOK, WorkerType
      <4>2. worker' \in [Runtimes -> WorkerType]
        <5> DEFINE w == [worker[c] EXCEPT !.pc = "finish", !.session = FALSE]
        <5>1. worker' = [worker EXCEPT ![c] = w]
          BY <3>2 DEF ReleaseSession, TypeOK
        <5>2. w \in WorkerType
          BY <1>0 DEF WorkerType, WorkerPC
        <5> QED BY <5>1, <5>2 DEF TypeOK
      <4> QED BY <3>2, <4>1, <4>2 DEF ReleaseSession, TypeOK, ConvsTyped
    <3>3. CASE FinishEviction(c)
      BY <3>3, <1>b DEF FinishEviction, TypeOK, ConvsTyped, WorkerPC
    <3>4. CASE WorkerDone(c)
      <4> DEFINE v == [NewConv(None) EXCEPT !.owed = conv[c].owed]
      <4>1. v \in ConvType /\ Len(v.queue) = 0
        <5> DEFINE n == NewConv(None)
        <5>1. n \in ConvType /\ Len(n.queue) = 0 /\ conv[c].owed \in SUBSET Handlers
          BY <1>0, NewConvFacts DEF ConvType
        <5> HIDE DEF n
        <5>2. [n EXCEPT !.owed = conv[c].owed] \in ConvType
              /\ [n EXCEPT !.owed = conv[c].owed].queue = n.queue
          BY <5>1 DEF ConvType
        <5> QED BY <5>1, <5>2 DEF n
      <4>2. NewWorker("free") \in WorkerType
        BY DEF NewWorker, WorkerType, WorkerPC
      <4>3. ConvsTyped'
        <5>1. conv' = [conv EXCEPT ![c] = v]
          BY <3>4 DEF WorkerDone
        <5> HIDE DEF v
        <5>2. Len(v.queue) <= QueueSize
          BY <4>1, GatewayAssumption
        <5> QED BY <4>1, <5>1, <5>2, <1>a
      <4> QED BY <3>4, <4>2, <4>3 DEF WorkerDone, TypeOK
    <3> QED BY <1>3, <3>1, <3>2, <3>3, <3>4 DEF Teardown
  <2> QED BY <2>0, <2>1 DEF TypeOK, HandlersTyped, MemoryTyped, At, Msg, dedupVars
<1> QED BY <1>1, <1>2, <1>3 DEF Worker

-----------------------------------------------------------------------------

\* Every state of every behaviour is well typed.
THEOREM TypeCorrect == Spec => []TypeOK
<1>1. Init => TypeOK
  <2> SUFFICES ASSUME Init PROVE TypeOK
    OBVIOUS
  <2>1. HandlersTyped
    BY DEF Init, HandlersTyped, HandlerType, HandlerPC, IdleHandler, At, Msg
  <2>2. MemoryTyped
    BY GatewayAssumption DEF Init, MemoryTyped, Elements
  <2>3. ConvsTyped
    BY GatewayAssumption, NewConvFacts DEF Init, ConvsTyped
  <2>4. worker \in [Runtimes -> WorkerType]
    BY DEF Init, WorkerType, NewWorker, WorkerPC
  <2>5. receives \in 0 .. MaxReceives
    BY GatewayAssumption DEF Init
  <2>6. conversations \in [Routes -> Runtimes \cup {None}] /\ workers \in SUBSET Runtimes
    BY DEF Init
  <2> QED BY <2>1, <2>2, <2>3, <2>4, <2>5, <2>6 DEF Init, TypeOK, ShutdownPC
<1>2. TypeOK /\ [Next]_vars => TypeOK'
  <2> SUFFICES ASSUME TypeOK, [Next]_vars PROVE TypeOK'
    OBVIOUS
  <2>0. HandlersTyped /\ MemoryTyped /\ ConvsTyped
    BY DEF TypeOK
  <2>1. ASSUME NEW h \in Handlers, NEW m \in Messages, Receive(h, m) PROVE TypeOK'
    <3> DEFINE v == [handler[h] EXCEPT !.pc = "admit", !.msg = m]
    <3>1. v \in HandlerType /\ v.msg \in Messages
      BY <2>0 DEF HandlersTyped, HandlerType, HandlerPC
    <3>2. handler' = [handler EXCEPT ![h] = v]
      BY <2>0, <2>1 DEF Receive, HandlersTyped
    <3>3. HandlersTyped'
      BY <2>0, <3>1, <3>2, HandlerUpdate
    <3>4. receives' \in 0 .. MaxReceives
      BY <2>1, GatewayAssumption DEF Receive, TypeOK
    <3> QED BY <2>1, <3>3, <3>4 DEF Receive, TypeOK, MemoryTyped, ConvsTyped, dedupVars, mapVars
  <2>2. ASSUME NEW n \in 1 .. MaxSeen, Expire(n) PROVE TypeOK'
    BY <2>2, <2>0 DEF Expire, TypeOK, HandlersTyped, MemoryTyped, ConvsTyped, At, Msg, mapVars
  <2>3. CASE Shutdown
    BY <2>3, <2>0 DEF Shutdown, Cancel, ShutdownStarts, ShutdownBarrier, ShutdownReturns, ShutdownPC,
       TypeOK, HandlersTyped, MemoryTyped, ConvsTyped, At, Msg, dedupVars, mapVars
  <2>4. CASE UNCHANGED vars
    BY <2>4, <2>0 DEF vars, TypeOK, HandlersTyped, MemoryTyped, ConvsTyped, At, Msg, dedupVars, mapVars
  <2> QED BY <2>1, <2>2, <2>3, <2>4, HandlerTypes, WorkerTypes DEF Next, Terminated
<1> QED BY <1>1, <1>2, PTL DEF Spec

-----------------------------------------------------------------------------
(* The inductive invariant.                                                 *)

\* A step of a handler that leaves conversations, workers and runtimes alone
\* and does not move a handler to another runtime's reporter.
LEMMA HandlerLocal ==
    ASSUME RuntimeInvariant,
           UNCHANGED <<cancelled, shutdown, mapVars, conv, worker>>,
           \A g \in Handlers : handler'[g].conv \in {None, handler[g].conv}
    PROVE  RuntimeInvariant'
<1>1. MapAndWorkersAgree' /\ LeavingIsJustified' /\ SnapshotOK' /\ ShutdownOK'
  BY DEF RuntimeInvariant, MapAndWorkersAgree, LeavingIsJustified, SnapshotOK, ShutdownOK,
     Live, WorkerAt, mapVars
<1>2. HoldersOK'
  BY DEF RuntimeInvariant, HoldersOK, mapVars
<1> QED BY <1>1, <1>2 DEF RuntimeInvariant

\* enqueue on a new runtime.
LEMMA CreatingKeepsInvariant ==
    ASSUME TypeOK, RuntimeInvariant, NEW h \in Handlers, Enqueue(h), ~cancelled, EnqueueCreating(h)
    PROVE  RuntimeInvariant'
<1> DEFINE r == RouteOf[Msg(h)]
<1>0. r \in Routes /\ Msg(h) \in Messages
  BY GatewayAssumption DEF TypeOK, HandlersTyped, Enqueue, At
<1>1. PICK c \in Runtimes :
         /\ conversations[r] = None
         /\ Free(c)
         /\ conversations' = [conversations EXCEPT ![r] = c]
         /\ workers' = workers \cup {c}
         /\ conv' = [conv EXCEPT ![c] = Pushed(h, NewConv(r))]
         /\ worker' = [worker EXCEPT ![c] = NewWorker("loop")]
         /\ ToRemember(h, c)
  BY DEF EnqueueCreating
<1>2. UNCHANGED <<cancelled, shutdown>>
  BY DEF Enqueue
<1> HIDE DEF r
<1>3. /\ \A d \in Runtimes \ {c} : conv'[d] = conv[d] /\ worker'[d] = worker[d]
      /\ conv'[c] = Pushed(h, NewConv(r))
      /\ worker'[c].pc = "loop" /\ ~worker'[c].session
      /\ conversations'[r] = c
      /\ \A q \in Routes \ {r} : conversations'[q] = conversations[q]
  BY <1>0, <1>1 DEF TypeOK, ConvsTyped, NewWorker
<1>4. /\ conv'[c].route = r /\ ~conv'[c].closing
      /\ conv'[c].owed = IF ShowAccepted THEN {h} ELSE {}
  <2>1. NewConv(r) \in ConvType /\ NewConv(r).route = r /\ NewConv(r).closing = FALSE
        /\ NewConv(r).owed = {}
    BY <1>0, NewConvFacts DEF NewConv
  <2> DEFINE n == NewConv(r)
  <2>2. n \in ConvType /\ n.route = r /\ n.closing = FALSE /\ n.owed = {} /\ conv'[c] = Pushed(h, n)
    BY <2>1, <1>3
  <2> HIDE DEF n
  <2>3. /\ Pushed(h, n).route = n.route
        /\ Pushed(h, n).closing = n.closing
        /\ Pushed(h, n).owed = IF ShowAccepted THEN n.owed \cup {h} ELSE n.owed
    BY <2>2, <1>0, PushedFacts
  <2> DEFINE w == Pushed(h, n)
  <2>4. w.route = r /\ w.closing = FALSE /\ conv'[c] = w
    BY <2>2, <2>3
  <2>5. {} \cup {h} = {h}
    OBVIOUS
  <2>6. w.owed = IF ShowAccepted THEN {h} ELSE {}
    BY <2>2, <2>3, <2>5
  <2> HIDE DEF w
  <2>7. conv'[c].route = r /\ conv'[c].owed = IF ShowAccepted THEN {h} ELSE {}
    BY <2>4, <2>6
  <2>8. ~conv'[c].closing
    BY <2>4
  <2> QED BY <2>7, <2>8
<1>5. c # None /\ WorkerAt(c, "free")
  BY <1>1, GatewayAssumption DEF Free, WorkerAt
<1>6. MapAndWorkersAgree'
  <2>1. ASSUME NEW q \in Routes, conversations'[q] # None
        PROVE  worker'[conversations'[q]].pc \notin {"free", "done"} /\ conv'[conversations'[q]].route = q
    <3>1. CASE q = r
      BY <3>1, <1>3, <1>4
    <3>2. CASE q # r
      <4>1. conversations'[q] = conversations[q] /\ conversations[q] \in Runtimes \ {c}
        BY <3>2, <2>1, <1>3, <1>5 DEF RuntimeInvariant, MapAndWorkersAgree, Live, WorkerAt, TypeOK
      <4> QED BY <4>1, <2>1, <1>3 DEF RuntimeInvariant, MapAndWorkersAgree, Live
    <3> QED BY <3>1, <3>2
  <2>2. ASSUME NEW d \in Runtimes, worker'[d].pc \notin {"free", "done"}
        PROVE  conv'[d].route \in Routes /\ conversations'[conv'[d].route] = d
    <3>1. CASE d = c
      BY <3>1, <1>0, <1>3, <1>4
    <3>2. CASE d # c
      <4>1. conv[d].route \in Routes /\ conversations[conv[d].route] = d
        BY <3>2, <2>2, <1>3 DEF RuntimeInvariant, MapAndWorkersAgree, Live
      <4>2. d # None
        BY GatewayAssumption
      <4> QED BY <3>2, <4>1, <4>2, <1>1, <1>3
    <3> QED BY <3>1, <3>2
  <2>3. ASSUME NEW d \in Runtimes PROVE d \in workers' <=> worker'[d].pc # "free"
    BY <1>1, <1>3 DEF RuntimeInvariant, MapAndWorkersAgree, WorkerAt
  <2> QED BY <2>1, <2>2, <2>3 DEF MapAndWorkersAgree, Live, WorkerAt
<1>7. LeavingIsJustified'
  BY <1>2, <1>3, <1>4 DEF RuntimeInvariant, LeavingIsJustified, Leaving
<1>8. SnapshotOK'
  BY <1>3 DEF RuntimeInvariant, SnapshotOK, WorkerAt
<1>9. HoldersOK'
  <2>1. \A d \in Runtimes : worker'[d].session => worker'[d].pc \notin {"free", "finish", "done"}
    BY <1>3 DEF RuntimeInvariant, HoldersOK
  <2>2. ASSUME NEW g \in Handlers, ShowAccepted, handler'[g].conv # None
        PROVE  g \in conv'[handler'[g].conv].owed
    <3>1. CASE g = h
      BY <3>1, <2>2, <1>1, <1>3, <1>4 DEF ToRemember, TypeOK, HandlersTyped, HandlerType
    <3>2. CASE g # h
      <4>1. handler'[g] = handler[g] /\ handler[g].conv \in Runtimes \ {c}
        BY <3>2, <2>2, <1>1 DEF ToRemember, Free, TypeOK, HandlersTyped, HandlerType
      <4> QED BY <4>1, <2>2, <1>3 DEF RuntimeInvariant, HoldersOK
    <3> QED BY <3>1, <3>2
  <2> QED BY <2>1, <2>2 DEF HoldersOK
<1>10. ShutdownOK'
  BY <1>2 DEF RuntimeInvariant, ShutdownOK
<1> QED BY <1>6, <1>7, <1>8, <1>9, <1>10 DEF RuntimeInvariant

\* A step of worker c in its loop or in process: the map and the WaitGroup stay,
\* and so does every other runtime.
LEMMA WorkerLocal ==
    ASSUME TypeOK, RuntimeInvariant, NEW c \in Runtimes,
           UNCHANGED <<cancelled, shutdown, handler, conversations, workers>>,
           \A d \in Runtimes \ {c} : conv'[d] = conv[d] /\ worker'[d] = worker[d],
           conv'[c].route = conv[c].route,
           conv'[c].owed = conv[c].owed,
           Live(c), Live(c)',
           conv'[c].closing => worker'[c].pc \in Leaving,
           worker'[c].pc \in Leaving =>
               cancelled \/ (conv'[c].closing /\ conv'[c].queue = <<>>),
           WorkerAt(c, "tick")' \/ (WorkerAt(c, "select")' /\ worker'[c].armed) =>
               /\ worker'[c].expectedSeq <= conv'[c].activitySeq
               /\ conv'[c].activitySeq = worker'[c].expectedSeq <=> conv'[c].queue = <<>>,
           worker'[c].session => worker'[c].pc # "finish"
    PROVE  RuntimeInvariant'
<1>1. MapAndWorkersAgree'
  <2>1. \A d \in Runtimes : conv'[d].route = conv[d].route /\ (Live(d)' <=> Live(d))
                            /\ (WorkerAt(d, "free")' <=> WorkerAt(d, "free"))
    BY DEF Live, WorkerAt
  <2>2. \A r \in Routes : conversations[r] \in Runtimes \cup {None}
    BY DEF TypeOK
  <2> QED BY <2>1, <2>2 DEF RuntimeInvariant, MapAndWorkersAgree, Live, WorkerAt
<1>2. LeavingIsJustified'
  BY DEF RuntimeInvariant, LeavingIsJustified
<1>3. SnapshotOK'
  BY DEF RuntimeInvariant, SnapshotOK, WorkerAt
<1>4. HoldersOK'
  BY DEF RuntimeInvariant, HoldersOK, Live, TypeOK, HandlersTyped, HandlerType
<1>5. ShutdownOK'
  BY DEF RuntimeInvariant, ShutdownOK
<1> QED BY <1>1, <1>2, <1>3, <1>4, <1>5 DEF RuntimeInvariant

\* Every step of a handler.
LEMMA HandlerKeepsInvariant ==
    ASSUME TypeOK, RuntimeInvariant, NEW h \in Handlers, Handler(h)
    PROVE  RuntimeInvariant'
<1>0. handler \in [Handlers -> HandlerType] /\ conv \in [Runtimes -> ConvType]
  BY DEF TypeOK, HandlersTyped, ConvsTyped
<1>a. ASSUME Return(h)
      PROVE  \A g \in Handlers : handler'[g].conv \in {None, handler[g].conv}
  BY <1>0, <1>a DEF Return, IdleHandler
<1>1. CASE Admit(h)
  <2>1. ASSUME AdmitTask(h)
        PROVE  \A g \in Handlers : handler'[g].conv \in {None, handler[g].conv}
    BY <2>1, <1>0 DEF AdmitTask, HandlerType
  <2> QED BY <1>1, <1>a, <2>1, HandlerLocal
          DEF Admit, AdmitRefused, AdmitIgnored, AdmitControl
<1>2. CASE Enqueue(h)
  <2>1. CASE ~cancelled /\ EnqueueCreating(h)
    BY <1>2, <2>1, CreatingKeepsInvariant
  <2>2. CASE ~cancelled /\ EnqueueExisting(h)
    <3> DEFINE c == Target(h)
    <3>1. Msg(h) \in Messages /\ RouteOf[Msg(h)] \in Routes
      BY <1>2, GatewayAssumption DEF Enqueue, TypeOK, HandlersTyped, At
    <3>2. /\ c \in Runtimes
          /\ ~conv[c].closing
          /\ conv' = [conv EXCEPT ![c] = Pushed(h, conv[c])]
          /\ ToRemember(h, c)
          /\ UNCHANGED <<cancelled, shutdown, conversations, workers, worker>>
      BY <1>2, <2>2, <3>1 DEF Enqueue, EnqueueExisting, Target, TypeOK
    <3> HIDE DEF c
    <3>3. /\ \A d \in Runtimes \ {c} : conv'[d] = conv[d]
          /\ conv'[c].queue = Append(conv[c].queue, Msg(h))
          /\ conv'[c].activitySeq = conv[c].activitySeq + 1
          /\ conv'[c].route = conv[c].route
          /\ conv'[c].closing = conv[c].closing
          /\ conv'[c].owed = IF ShowAccepted THEN conv[c].owed \cup {h} ELSE conv[c].owed
      <4>1. conv[c] \in ConvType /\ conv'[c] = Pushed(h, conv[c])
        BY <1>0, <3>2
      <4> QED BY <1>0, <3>1, <3>2, <4>1, PushedFacts
    <3>4. conv'[c].queue # <<>> /\ conv[c].activitySeq \in Nat /\ worker[c].expectedSeq \in Nat
      <4>1. conv[c].queue \in Seq(Messages)
        BY <1>0, <3>2 DEF ConvType
      <4> QED BY <1>0, <3>1, <3>2, <3>3, <4>1 DEF ConvType, TypeOK, WorkerType
    <3>5. MapAndWorkersAgree'
      <4>1. \A d \in Runtimes : conv'[d].route = conv[d].route
        BY <3>3
      <4>2. \A r \in Routes : conversations[r] \in Runtimes \cup {None}
        BY DEF TypeOK
      <4> QED BY <3>2, <4>1, <4>2 DEF RuntimeInvariant, MapAndWorkersAgree, Live, WorkerAt
    <3>6. LeavingIsJustified'
      <4>1. worker[c].pc \in Leaving => cancelled
        BY <3>2 DEF RuntimeInvariant, LeavingIsJustified
      <4> QED BY <3>2, <3>3, <4>1 DEF RuntimeInvariant, LeavingIsJustified
    <3>7. SnapshotOK'
      <4>1. ASSUME NEW d \in Runtimes,
                   WorkerAt(d, "tick") \/ (WorkerAt(d, "select") /\ worker[d].armed)
            PROVE  /\ worker[d].expectedSeq <= conv'[d].activitySeq
                   /\ conv'[d].activitySeq = worker[d].expectedSeq <=> conv'[d].queue = <<>>
        <5>1. /\ worker[d].expectedSeq <= conv[d].activitySeq
              /\ conv[d].activitySeq = worker[d].expectedSeq <=> conv[d].queue = <<>>
          BY <4>1 DEF RuntimeInvariant, SnapshotOK
        <5>2. CASE d = c
          BY <5>1, <5>2, <3>3, <3>4
        <5>3. CASE d # c
          BY <5>1, <5>3, <3>3
        <5> QED BY <5>2, <5>3
      <4> QED BY <4>1, <3>2 DEF SnapshotOK, WorkerAt
    <3>8. HoldersOK'
      <4>1. ASSUME NEW g \in Handlers, ShowAccepted, handler'[g].conv # None
            PROVE  g \in conv'[handler'[g].conv].owed
        <5>1. CASE g = h
          BY <5>1, <4>1, <1>0, <3>2, <3>3 DEF ToRemember, HandlerType
        <5>2. CASE g # h
          <6>1. handler'[g] = handler[g] /\ handler[g].conv \in Runtimes
            BY <5>2, <4>1, <1>0, <3>2 DEF ToRemember, HandlerType
          <6>2. g \in conv[handler[g].conv].owed
            BY <6>1, <4>1 DEF RuntimeInvariant, HoldersOK
          <6> QED BY <6>1, <6>2, <4>1, <3>3
        <5> QED BY <5>1, <5>2
      <4> QED BY <4>1, <3>2 DEF RuntimeInvariant, HoldersOK
    <3>9. ShutdownOK'
      BY <3>2 DEF RuntimeInvariant, ShutdownOK
    <3> QED BY <3>5, <3>6, <3>7, <3>8, <3>9 DEF RuntimeInvariant
  <2>3. CASE Refuse(h)
    BY <1>2, <1>a, <2>3, HandlerLocal DEF Enqueue, Refuse, mapVars
  <2> QED BY <1>2, <2>1, <2>2, <2>3 DEF Enqueue, EnqueueClosing, EnqueueFull
<1>3. CASE RememberAccepted(h)
  <2>1. \A g \in Handlers : handler'[g].conv \in {None, handler[g].conv}
    BY <1>3, <1>0, <1>a DEF RememberAccepted, HandlerType
  <2> QED BY <1>3, <2>1, HandlerLocal DEF RememberAccepted
<1>4. CASE NotifyAccepted(h)
  <2>1. UNCHANGED <<cancelled, shutdown, conversations, workers, worker>>
    BY <1>4 DEF NotifyAccepted, mapVars
  <2>2. \A d \in Runtimes :
           /\ conv'[d].route = conv[d].route /\ conv'[d].queue = conv[d].queue
           /\ conv'[d].closing = conv[d].closing /\ conv'[d].activitySeq = conv[d].activitySeq
           /\ conv[d].owed \ {h} \subseteq conv'[d].owed
    BY <1>4, <1>0 DEF NotifyAccepted, ConvType
  <2>3. MapAndWorkersAgree'
    <3>1. \A r \in Routes : conversations[r] \in Runtimes \cup {None}
      BY DEF TypeOK
    <3> QED BY <2>1, <2>2, <3>1 DEF RuntimeInvariant, MapAndWorkersAgree, Live, WorkerAt
  <2>4. LeavingIsJustified' /\ SnapshotOK' /\ ShutdownOK'
    BY <2>1, <2>2 DEF RuntimeInvariant, LeavingIsJustified, SnapshotOK, ShutdownOK, WorkerAt
  <2>5. HoldersOK'
    <3>1. ASSUME NEW g \in Handlers, ShowAccepted, handler'[g].conv # None
          PROVE  g \in conv'[handler'[g].conv].owed
      <4>1. g # h /\ handler'[g] = handler[g] /\ handler[g].conv \in Runtimes
        BY <3>1, <1>4, <1>0 DEF NotifyAccepted, Return, IdleHandler, HandlerType
      <4> QED BY <4>1, <3>1, <2>2 DEF RuntimeInvariant, HoldersOK
    <3> QED BY <3>1, <2>1 DEF RuntimeInvariant, HoldersOK
  <2> QED BY <2>3, <2>4, <2>5 DEF RuntimeInvariant
<1> QED BY <1>1, <1>2, <1>3, <1>4 DEF Handler

\* Every step of a worker in its loop or in process.
LEMMA RunKeepsInvariant ==
    ASSUME TypeOK, RuntimeInvariant, NEW c \in Runtimes, Run(c) \/ Process(c)
    PROVE  RuntimeInvariant'
<1>0. /\ conv \in [Runtimes -> ConvType] /\ worker \in [Runtimes -> WorkerType]
      /\ conv[c] \in ConvType /\ worker[c] \in WorkerType
  BY DEF TypeOK, ConvsTyped
<1>1. UNCHANGED <<cancelled, shutdown, handler, conversations, workers>>
  BY DEF Run, Process, mapVars
<1>2. \A d \in Runtimes \ {c} : conv'[d] = conv[d] /\ worker'[d] = worker[d]
  BY <1>0 DEF Run, LoopTop, SelectCancelled, SelectMessage, SelectTick, BeginEviction,
     Process, Resolve, Build, AppendUser, RunEnds, Report, Goto, Drop
<1>3. conv'[c].route = conv[c].route /\ conv'[c].owed = conv[c].owed
  BY <1>0 DEF Run, LoopTop, SelectCancelled, SelectMessage, SelectTick, BeginEviction,
     Process, ConvType
<1>4. Live(c) /\ Live(c)'
  <2>1. CASE Run(c)
    BY <2>1, <1>0 DEF Run, LoopTop, SelectCancelled, SelectMessage, SelectTick, BeginEviction,
       Goto, WorkerAt, Live, WorkerType
  <2>2. CASE Process(c)
    BY <2>2, <1>0 DEF Process, Resolve, Build, AppendUser, RunEnds, Report, Goto, Drop,
       WorkerAt, Live, WorkerType
  <2> QED BY <2>1, <2>2
<1>5. worker[c].pc \notin Leaving /\ ~conv[c].closing /\ worker'[c].pc # "finish"
  <2>1. worker[c].pc \notin Leaving /\ worker'[c].pc # "finish"
    <3>1. CASE Run(c)
      BY <3>1, <1>0 DEF Run, LoopTop, SelectCancelled, SelectMessage, SelectTick, BeginEviction,
         Goto, WorkerAt, Leaving, WorkerType
    <3>2. CASE Process(c)
      BY <3>2, <1>0 DEF Process, Resolve, Build, AppendUser, RunEnds, Report, Goto, Drop,
         WorkerAt, Leaving, WorkerType
    <3> QED BY <3>1, <3>2
  <2> QED BY <2>1 DEF RuntimeInvariant, LeavingIsJustified
<1>6. /\ conv'[c].closing => worker'[c].pc \in Leaving
      /\ worker'[c].pc \in Leaving => cancelled \/ (conv'[c].closing /\ conv'[c].queue = <<>>)
  <2>1. CASE LoopTop(c) \/ SelectCancelled(c)
    <3>1. conv'[c].closing = conv[c].closing
      BY <2>1 DEF LoopTop, SelectCancelled
    <3>2. worker'[c].pc = "select" \/ (cancelled /\ worker'[c].pc = "close")
      BY <2>1, <1>0 DEF LoopTop, SelectCancelled, Goto, WorkerType
    <3> QED BY <3>1, <3>2, <1>5 DEF Leaving
  <2>3. CASE SelectMessage(c)
    <3>1. conv'[c].closing = conv[c].closing /\ worker'[c].pc = "resolve"
      BY <2>3, <1>0 DEF SelectMessage, WorkerType, ConvType
    <3> QED BY <3>1, <1>5 DEF Leaving
  <2>4. CASE SelectTick(c)
    <3>1. conv'[c].closing = conv[c].closing /\ worker'[c].pc = "tick"
      BY <2>4, <1>0 DEF SelectTick, WorkerType
    <3> QED BY <3>1, <1>5 DEF Leaving
  <2>5. CASE BeginEviction(c)
    <3>1. CASE MayEvict(c)
      <4>1. /\ conv'[c].closing = TRUE /\ conv'[c].queue = conv[c].queue
            /\ worker'[c].pc = "close"
        BY <2>5, <3>1, <1>0 DEF BeginEviction, Goto, WorkerType, ConvType
      <4>2. conv[c].queue = <<>>
        BY <3>1 DEF MayEvict, Idle
      <4> QED BY <4>1, <4>2 DEF Leaving
    <3>2. CASE ~MayEvict(c)
      <4>1. conv'[c].closing = conv[c].closing /\ worker'[c].pc = "loop"
        BY <2>5, <3>2, <1>0 DEF BeginEviction, Goto, WorkerType
      <4> QED BY <4>1, <1>5 DEF Leaving
    <3> QED BY <3>1, <3>2
  <2>2. CASE Process(c)
    BY <2>2, <1>0, <1>5 DEF Process, Resolve, Build, AppendUser, RunEnds, Report, Goto, Drop,
       Leaving, WorkerType
  <2> QED BY <2>1, <2>2, <2>3, <2>4, <2>5 DEF Run
<1>7. WorkerAt(c, "tick")' \/ (WorkerAt(c, "select")' /\ worker'[c].armed) =>
         /\ worker'[c].expectedSeq <= conv'[c].activitySeq
         /\ conv'[c].activitySeq = worker'[c].expectedSeq <=> conv'[c].queue = <<>>
  <2>1. CASE LoopTop(c)
    <3>1. CASE cancelled
      BY <2>1, <3>1, <1>0 DEF LoopTop, Goto, WorkerAt, WorkerType
    <3>2. CASE ~cancelled
      <4>1. /\ conv' = conv
            /\ worker'[c].armed => Idle(c) /\ worker'[c].expectedSeq = conv[c].activitySeq
            /\ worker'[c].pc = "select"
        BY <2>1, <3>2, <1>0 DEF LoopTop, WorkerType
      <4>2. conv[c].activitySeq \in Nat
        BY <1>0 DEF ConvType
      <4> QED BY <4>1, <4>2 DEF Idle, WorkerAt
    <3> QED BY <3>1, <3>2
  <2>2. CASE SelectTick(c)
    <3>1. /\ conv' = conv /\ worker'[c].expectedSeq = worker[c].expectedSeq
          /\ WorkerAt(c, "select") /\ worker[c].armed
      BY <2>2, <1>0 DEF SelectTick, WorkerType
    <3> QED BY <3>1 DEF RuntimeInvariant, SnapshotOK
  <2>3. CASE SelectCancelled(c) \/ SelectMessage(c) \/ BeginEviction(c)
    BY <2>3, <1>0 DEF SelectCancelled, SelectMessage, BeginEviction, Goto, WorkerAt, WorkerType
  <2>4. CASE Process(c)
    BY <2>4, <1>0 DEF Process, Resolve, Build, AppendUser, RunEnds, Report, Goto, Drop,
       WorkerAt, WorkerType
  <2> QED BY <2>1, <2>2, <2>3, <2>4 DEF Run
<1> QED BY <1>1, <1>2, <1>3, <1>4, <1>5, <1>6, <1>7, WorkerLocal

\* Every step of the teardown.
LEMMA TeardownKeepsInvariant ==
    ASSUME TypeOK, RuntimeInvariant, NEW c \in Runtimes, Teardown(c)
    PROVE  RuntimeInvariant'
<1>0. /\ conv \in [Runtimes -> ConvType] /\ worker \in [Runtimes -> WorkerType]
      /\ conv[c] \in ConvType /\ worker[c] \in WorkerType
  BY DEF TypeOK, ConvsTyped
<1>1. UNCHANGED <<cancelled, shutdown, handler>>
  BY DEF Teardown
<1>2. CASE CloseRuntime(c)
  <2>1. /\ UNCHANGED <<conversations, workers>>
        /\ \A d \in Runtimes \ {c} : conv'[d] = conv[d] /\ worker'[d] = worker[d]
        /\ conv'[c].route = conv[c].route /\ conv'[c].owed = conv[c].owed
        /\ conv'[c].queue = conv[c].queue /\ conv'[c].closing = TRUE
        /\ worker[c].pc = "close" /\ worker'[c].pc = "release"
    BY <1>2, <1>0 DEF CloseRuntime, Goto, WorkerAt, ConvType, WorkerType, mapVars
  <2>2. cancelled \/ conv[c].queue = <<>>
    BY <2>1 DEF RuntimeInvariant, LeavingIsJustified, Leaving
  <2> QED BY <1>1, <2>1, <2>2, WorkerLocal DEF Live, WorkerAt, Leaving
<1>3. CASE ReleaseSession(c)
  <2>1. /\ UNCHANGED <<conversations, workers, conv>>
        /\ \A d \in Runtimes \ {c} : worker'[d] = worker[d]
        /\ worker[c].pc = "release" /\ worker'[c].pc = "finish" /\ ~worker'[c].session
    BY <1>3, <1>0 DEF ReleaseSession, WorkerAt, WorkerType
  <2>2. cancelled \/ (conv[c].closing /\ conv[c].queue = <<>>)
    BY <2>1 DEF RuntimeInvariant, LeavingIsJustified, Leaving
  <2> QED BY <1>1, <2>1, <2>2, WorkerLocal DEF Live, WorkerAt, Leaving
<1>4. CASE FinishEviction(c)
  <2> DEFINE r == conv[c].route
  <2>1. /\ UNCHANGED <<workers, conv>>
        /\ \A d \in Runtimes \ {c} : worker'[d] = worker[d]
        /\ worker[c].pc = "finish" /\ worker'[c].pc = "done" /\ worker'[c].session = worker[c].session
        /\ conversations' = [conversations EXCEPT ![r] = IF @ = c THEN None ELSE @]
    BY <1>4, <1>0 DEF FinishEviction, Goto, WorkerAt, WorkerType
  <2>2. r \in Routes /\ conversations[r] = c
    BY <2>1 DEF RuntimeInvariant, MapAndWorkersAgree, Live
  <2>3. conversations'[r] = None /\ \A q \in Routes \ {r} : conversations'[q] = conversations[q]
    BY <2>1, <2>2 DEF TypeOK
  <2> HIDE DEF r
  <2>4. MapAndWorkersAgree'
    <3>1. ASSUME NEW q \in Routes, conversations'[q] # None
          PROVE  worker'[conversations'[q]].pc \notin {"free", "done"} /\ conv'[conversations'[q]].route = q
      <4>1. q # r /\ conversations'[q] = conversations[q]
        BY <3>1, <2>3
      <4>2. conversations[q] \in Runtimes /\ conv[conversations[q]].route = q /\ Live(conversations[q])
        BY <4>1, <3>1 DEF RuntimeInvariant, MapAndWorkersAgree, TypeOK
      <4>3. conversations[q] # c
        BY <4>1, <4>2 DEF r
      <4> QED BY <4>1, <4>2, <4>3, <2>1 DEF Live
    <3>2. ASSUME NEW d \in Runtimes, worker'[d].pc \notin {"free", "done"}
          PROVE  conv'[d].route \in Routes /\ conversations'[conv'[d].route] = d
      <4>1. d # c /\ conv[d].route \in Routes /\ conversations[conv[d].route] = d
        BY <3>2, <2>1 DEF RuntimeInvariant, MapAndWorkersAgree, Live
      <4>2. conv[d].route # r
        BY <4>1, <2>2
      <4> QED BY <4>1, <4>2, <2>1, <2>3
    <3>3. \A d \in Runtimes : d \in workers' <=> worker'[d].pc # "free"
      BY <2>1 DEF RuntimeInvariant, MapAndWorkersAgree, WorkerAt
    <3> QED BY <3>1, <3>2, <3>3 DEF MapAndWorkersAgree, Live, WorkerAt
  <2>5. LeavingIsJustified' /\ SnapshotOK' /\ HoldersOK' /\ ShutdownOK'
    BY <1>1, <2>1 DEF RuntimeInvariant, LeavingIsJustified, Leaving, SnapshotOK, HoldersOK,
       ShutdownOK, WorkerAt
  <2> QED BY <2>4, <2>5 DEF RuntimeInvariant
<1>5. CASE WorkerDone(c)
  <2>1. /\ UNCHANGED conversations
        /\ workers' = workers \ {c}
        /\ \A d \in Runtimes \ {c} : worker'[d] = worker[d] /\ conv'[d] = conv[d]
        /\ worker[c].pc = "done" /\ worker'[c].pc = "free" /\ ~worker'[c].session
        /\ conv'[c].owed = conv[c].owed /\ ~conv'[c].closing
    BY <1>5, <1>0 DEF WorkerDone, NewWorker, NewConv, WorkerAt
  <2>2. MapAndWorkersAgree'
    <3>1. ASSUME NEW q \in Routes, conversations'[q] # None
          PROVE  worker'[conversations'[q]].pc \notin {"free", "done"} /\ conv'[conversations'[q]].route = q
      <4>1. conversations[q] \in Runtimes \ {c} /\ conv[conversations[q]].route = q /\ Live(conversations[q])
        BY <3>1, <2>1 DEF RuntimeInvariant, MapAndWorkersAgree, Live, TypeOK
      <4> QED BY <4>1, <2>1 DEF Live
    <3>2. ASSUME NEW d \in Runtimes, worker'[d].pc \notin {"free", "done"}
          PROVE  conv'[d].route \in Routes /\ conversations'[conv'[d].route] = d
      BY <3>2, <2>1 DEF RuntimeInvariant, MapAndWorkersAgree, Live
    <3>3. \A d \in Runtimes : d \in workers' <=> worker'[d].pc # "free"
      BY <2>1 DEF RuntimeInvariant, MapAndWorkersAgree, WorkerAt
    <3> QED BY <3>1, <3>2, <3>3 DEF MapAndWorkersAgree, Live, WorkerAt
  <2>3. LeavingIsJustified' /\ SnapshotOK'
    BY <1>1, <2>1 DEF RuntimeInvariant, LeavingIsJustified, Leaving, SnapshotOK, WorkerAt
  <2>4. HoldersOK'
    <3>1. \A d \in Runtimes : conv'[d].owed = conv[d].owed
      BY <2>1
    <3> QED BY <1>1, <2>1, <3>1 DEF RuntimeInvariant, HoldersOK, TypeOK, HandlersTyped, HandlerType
  <2>5. ShutdownOK'
    BY <1>1, <2>1 DEF RuntimeInvariant, ShutdownOK
  <2> QED BY <2>2, <2>3, <2>4, <2>5 DEF RuntimeInvariant
<1> QED BY <1>2, <1>3, <1>4, <1>5 DEF Teardown

\* The invariant holds in every reachable state.
THEOREM InvariantHolds == Spec => []RuntimeInvariant
<1>1. Init => RuntimeInvariant
  BY DEF Init, RuntimeInvariant, MapAndWorkersAgree, LeavingIsJustified, Leaving, SnapshotOK,
     HoldersOK, ShutdownOK, Live, WorkerAt, NewConv, NewWorker, IdleHandler
<1>2. TypeOK /\ RuntimeInvariant /\ [Next]_vars => RuntimeInvariant'
  <2> SUFFICES ASSUME TypeOK, RuntimeInvariant, [Next]_vars PROVE RuntimeInvariant'
    OBVIOUS
  <2>1. ASSUME NEW h \in Handlers, NEW m \in Messages, Receive(h, m) PROVE RuntimeInvariant'
    <3>1. \A g \in Handlers : handler'[g].conv \in {None, handler[g].conv}
      BY <2>1 DEF Receive, TypeOK, HandlersTyped, HandlerType
    <3> QED BY <2>1, <3>1, HandlerLocal DEF Receive
  <2>2. ASSUME NEW n \in 1 .. MaxSeen, Expire(n) PROVE RuntimeInvariant'
    BY <2>2, HandlerLocal DEF Expire
  <2>3. CASE Shutdown
    <3>1. UNCHANGED <<handler, conversations, workers, conv, worker>> /\ (cancelled => cancelled')
      BY <2>3 DEF Shutdown, Cancel, ShutdownStarts, ShutdownBarrier, ShutdownReturns, mapVars
    <3>2. MapAndWorkersAgree' /\ LeavingIsJustified' /\ SnapshotOK' /\ HoldersOK'
      BY <3>1 DEF RuntimeInvariant, MapAndWorkersAgree, LeavingIsJustified, SnapshotOK, HoldersOK,
         Live, WorkerAt
    <3>3. ShutdownOK'
      BY <2>3, <3>1 DEF RuntimeInvariant, ShutdownOK, Shutdown, Cancel, ShutdownStarts,
         ShutdownBarrier, ShutdownReturns
    <3> QED BY <3>2, <3>3 DEF RuntimeInvariant
  <2>4. CASE UNCHANGED vars
    BY <2>4, HandlerLocal DEF vars
  <2> QED BY <2>1, <2>2, <2>3, <2>4, HandlerKeepsInvariant, RunKeepsInvariant,
             TeardownKeepsInvariant DEF Next, Worker, Terminated
<1> QED BY <1>1, <1>2, TypeCorrect, PTL DEF Spec
-----------------------------------------------------------------------------
(* The safety properties of Gateway, as consequences of the invariant.      *)

\* Never two live runtimes of one route: each would be the runtime of the route's
\* only entry in the map.
THEOREM OneWriterPerRoute == Spec => []OneRuntimePerRoute
<1>1. RuntimeInvariant => OneRuntimePerRoute
  BY DEF RuntimeInvariant, MapAndWorkersAgree, OneRuntimePerRoute
<1> QED BY <1>1, InvariantHolds, PTL

\* Eviction never closes a runtime over an accepted message.
THEOREM NothingStranded == Spec => []NoTaskStranded
<1>1. RuntimeInvariant => NoTaskStranded
  BY DEF RuntimeInvariant, LeavingIsJustified, NoTaskStranded
<1> QED BY <1>1, InvariantHolds, PTL

\* The sequence check and the queue check of beginEviction agree.
THEOREM SnapshotIsExact == Spec => []SnapshotAgreesWithQueue
<1>1. RuntimeInvariant => SnapshotAgreesWithQueue
  BY DEF RuntimeInvariant, SnapshotOK, SnapshotAgreesWithQueue
<1> QED BY <1>1, InvariantHolds, PTL

\* Nothing runs, is mapped or holds a session once Shutdown has returned.
THEOREM ShutdownIsQuiet == Spec => []QuietAfterShutdown
<1>1. TypeOK /\ RuntimeInvariant => QuietAfterShutdown
  <2> SUFFICES ASSUME TypeOK, RuntimeInvariant, shutdown = "returned"
               PROVE  /\ \A c \in Runtimes : WorkerAt(c, "free") /\ ~worker[c].session
                      /\ \A r \in Routes : conversations[r] = None
    BY DEF QuietAfterShutdown
  <2>1. \A c \in Runtimes : WorkerAt(c, "free")
    BY DEF RuntimeInvariant, ShutdownOK, MapAndWorkersAgree
  <2>2. \A c \in Runtimes : ~worker[c].session
    BY <2>1 DEF RuntimeInvariant, HoldersOK, WorkerAt
  <2>3. ASSUME NEW r \in Routes, conversations[r] # None PROVE FALSE
    <3>1. conversations[r] \in Runtimes /\ Live(conversations[r])
      BY <2>3 DEF TypeOK, RuntimeInvariant, MapAndWorkersAgree
    <3> QED BY <3>1, <2>1 DEF Live, WorkerAt
  <2> QED BY <2>1, <2>2, <2>3
<1> QED BY <1>1, TypeCorrect, InvariantHolds, PTL

\* Only Report takes a worker from reporting back to its loop.
LEMMA ReportOnly ==
    ASSUME TypeOK, Next, NEW c \in Runtimes, WorkerAt(c, "report"), worker'[c].pc = "loop"
    PROVE  Report(c)
<1>0. worker \in [Runtimes -> WorkerType] /\ worker[c].pc = "report"
  BY DEF TypeOK, WorkerAt
<1>1. ASSUME NEW h \in Handlers, Handler(h) PROVE FALSE
  <2>1. CASE worker' = worker
    BY <2>1, <1>0
  <2>2. CASE worker' # worker
    <3>1. EnqueueCreating(h)
      BY <1>1, <2>2 DEF Handler, Admit, Enqueue, EnqueueExisting, EnqueueClosing, EnqueueFull,
         Refuse, RememberAccepted, NotifyAccepted
    <3>2. PICK d \in Runtimes : Free(d) /\ worker' = [worker EXCEPT ![d] = NewWorker("loop")]
      BY <3>1 DEF EnqueueCreating
    <3> QED BY <3>2, <1>0 DEF Free
  <2> QED BY <2>1, <2>2
<1>2. ASSUME NEW d \in Runtimes, Worker(d) PROVE Report(c)
  <2>1. CASE d # c
    BY <1>2, <2>1, <1>0 DEF Worker, Run, LoopTop, SelectCancelled, SelectMessage,
       SelectTick, BeginEviction, Process, Resolve, Build, AppendUser, RunEnds, Report,
       Teardown, CloseRuntime, ReleaseSession, FinishEviction, WorkerDone, Goto, Drop
  <2>2. CASE d = c
    BY <1>2, <2>2, <1>0 DEF Worker, Run, LoopTop, SelectCancelled, SelectMessage,
       SelectTick, BeginEviction, Process, Resolve, Build, AppendUser, RunEnds, WorkerAt,
       Teardown, CloseRuntime, ReleaseSession, FinishEviction, WorkerDone
  <2> QED BY <2>1, <2>2
<1>3. CASE worker' = worker
  BY <1>3, <1>0
<1> QED BY <1>1, <1>2, <1>3
    DEF Next, Receive, Expire, Shutdown, Terminated, vars

\* The accepted notice of a task precedes everything the reporter says about it:
\* its handler is still among those that send waits for.
THEOREM NoticeFirst == Spec => AcceptedNoticeFirst
<1>1. ASSUME TypeOK, RuntimeInvariant, [Next]_vars, NEW c \in Runtimes,
             WorkerAt(c, "report"), worker'[c].pc = "loop", ~cancelled, ShowAccepted,
             NEW h \in Handlers, handler[h].conv = c
      PROVE  FALSE
  <2>1. Next
    <3>1. worker[c].pc = "report"
      BY <1>1 DEF WorkerAt
    <3> QED BY <1>1, <3>1 DEF vars
  <2>2. conv[c].owed = {}
    BY <1>1, <2>1, ReportOnly DEF Report
  <2>3. c # None
    BY GatewayAssumption
  <2> QED BY <1>1, <2>2, <2>3 DEF RuntimeInvariant, HoldersOK
<1>2. TypeOK /\ RuntimeInvariant /\ [Next]_vars =>
        [\A c \in Runtimes :
            WorkerAt(c, "report") /\ worker'[c].pc = "loop" /\ ~cancelled /\ ShowAccepted
               => \A h \in Handlers : handler[h].conv = c => Msg(h) # worker[c].task]_vars
  BY <1>1
<1> QED BY <1>2, TypeCorrect, InvariantHolds, PTL DEF Spec, AcceptedNoticeFirst

-----------------------------------------------------------------------------
(* What the refinement of TaskIntake needs besides.                         *)

\* Remembering a key adds it, and may only lose others.
LEMMA FreshAfter ==
    ASSUME NEW m, Remember(m)
    PROVE  fresh' \subseteq fresh \cup {m} /\ m \in fresh'
BY DEF Remember

\* Whoever is between taking and giving back the admission lock is the only one.
LEMMA AloneInAdmission ==
    ASSUME TypeOK, AdmissionOK, NEW h \in Handlers, NEW g \in Handlers \ {h},
           (At(h, "enqueue") \/ At(h, "remember")) \/ gmu = None
    PROVE  ~At(g, "enqueue") /\ ~At(g, "remember")
BY GatewayAssumption DEF AdmissionOK

\* A step that leaves handlers, lock and memory alone, or forgets.
LEMMA AdmissionStays ==
    ASSUME AdmissionOK, UNCHANGED <<gmu, handler>>, fresh' \subseteq fresh
    PROVE  AdmissionOK'
BY DEF AdmissionOK, At, Msg, Contains

\* Handlers keep the admission lock over the look and the remembering.
LEMMA AdmissionKept ==
    ASSUME TypeOK, AdmissionOK, NEW h \in Handlers,
           Handler(h) \/ \E m \in Messages : Receive(h, m)
    PROVE  AdmissionOK'
<1>0. handler \in [Handlers -> HandlerType] /\ None \notin Handlers
  BY GatewayAssumption DEF TypeOK, HandlersTyped
<1>1. \A g \in Handlers \ {h} : handler'[g] = handler[g]
  BY <1>0 DEF Handler, Receive, Admit, AdmitRefused, AdmitIgnored, AdmitControl, AdmitTask,
     Enqueue, EnqueueCreating, EnqueueExisting, EnqueueClosing, EnqueueFull, Refuse, ToRemember,
     RememberAccepted, NotifyAccepted, Return
<1>2. ASSUME handler'[h].pc \notin {"enqueue", "remember"},
             \/ gmu' = gmu /\ ~At(h, "enqueue") /\ ~At(h, "remember") /\ fresh' \subseteq fresh
             \/ gmu' = gmu /\ gmu = None
             \/ At(h, "enqueue") \/ At(h, "remember")
      PROVE  AdmissionOK'
  <2>1. CASE gmu' = gmu /\ ~At(h, "enqueue") /\ ~At(h, "remember") /\ fresh' \subseteq fresh
    BY <1>1, <1>2, <2>1 DEF AdmissionOK, At, Msg, Contains
  <2>2. CASE gmu = None \/ At(h, "enqueue") \/ At(h, "remember")
    <3>1. \A g \in Handlers \ {h} : ~At(g, "enqueue") /\ ~At(g, "remember")
      BY <2>2, AloneInAdmission
    <3> QED BY <1>1, <1>2, <3>1 DEF AdmissionOK, At
  <2> QED BY <1>2, <2>1, <2>2
<1>3. Return(h) => handler'[h].pc = "idle"
  BY <1>0 DEF Return, IdleHandler
<1>4. ASSUME NEW m \in Messages, Receive(h, m) PROVE AdmissionOK'
  <2>1. handler'[h].pc = "admit"
    <3>1. handler' = [handler EXCEPT ![h] = [handler[h] EXCEPT !.pc = "admit", !.msg = m]]
      BY <1>0, <1>4 DEF Receive
    <3>2. [handler[h] EXCEPT !.pc = "admit", !.msg = m].pc = "admit"
      BY <1>0 DEF HandlerType
    <3> QED BY <1>0, <3>1, <3>2
  <2> QED BY <1>2, <1>4, <2>1 DEF Receive, At, dedupVars
<1>5. CASE Admit(h)
  <2>1. gmu = None /\ At(h, "admit")
    BY <1>5 DEF Admit
  <2>2. CASE AdmitRefused(h) \/ AdmitIgnored(h) \/ AdmitControl(h)
    BY <1>2, <1>3, <2>1, <2>2 DEF AdmitRefused, AdmitIgnored, AdmitControl
  <2>3. CASE AdmitTask(h)
    <3>1. \A g \in Handlers \ {h} : ~At(g, "enqueue") /\ ~At(g, "remember")
      BY <2>1, AloneInAdmission
    <3>2. handler'[h].pc = "enqueue" /\ handler'[h].msg = handler[h].msg
      BY <1>0, <2>3 DEF AdmitTask, HandlerType
    <3>3. gmu' = h /\ handler[h].msg \notin fresh'
      BY <2>3 DEF AdmitTask, Contains, Msg, dedupVars
    <3> QED BY <1>1, <3>1, <3>2, <3>3 DEF AdmissionOK, At, Msg, Contains
  <2> QED BY <1>5, <2>2, <2>3 DEF Admit
<1>6. CASE Enqueue(h)
  <2>1. At(h, "enqueue") /\ gmu = h
    BY <1>6 DEF Enqueue, AdmissionOK
  <2>2. CASE Refuse(h)
    BY <1>2, <1>3, <2>1, <2>2 DEF Refuse
  <2>3. ASSUME NEW c \in Runtimes, ToRemember(h, c), gmu' = gmu PROVE AdmissionOK'
    <3>1. \A g \in Handlers \ {h} : ~At(g, "enqueue") /\ ~At(g, "remember")
      BY <2>1, AloneInAdmission
    <3>2. handler'[h].pc = "remember"
      BY <1>0, <2>3 DEF ToRemember, HandlerType
    <3> QED BY <1>1, <2>1, <2>3, <3>1, <3>2 DEF AdmissionOK, At
  <2>4. CASE EnqueueCreating(h)
    BY <2>3, <2>4 DEF EnqueueCreating
  <2>5. CASE EnqueueExisting(h)
    <3>1. Target(h) \in Runtimes
      BY <1>6, <2>5, GatewayAssumption
         DEF EnqueueExisting, Enqueue, Target, TypeOK, HandlersTyped, At
    <3> QED BY <2>3, <2>5, <3>1 DEF EnqueueExisting
  <2> QED BY <1>6, <2>2, <2>4, <2>5 DEF Enqueue, EnqueueClosing, EnqueueFull
<1>7. CASE RememberAccepted(h)
  <2>1. At(h, "remember")
    BY <1>7 DEF RememberAccepted
  <2>2. handler'[h].pc \in {"notify", "idle"}
    BY <1>0, <1>3, <1>7 DEF RememberAccepted, HandlerType
  <2> QED BY <1>2, <2>1, <2>2
<1>8. CASE NotifyAccepted(h)
  <2>1. At(h, "notify") /\ gmu' = gmu /\ fresh' = fresh /\ handler'[h].pc = "idle"
    BY <1>3, <1>8 DEF NotifyAccepted, dedupVars
  <2> QED BY <1>2, <2>1 DEF At
<1> QED BY <1>4, <1>5, <1>6, <1>7, <1>8 DEF Handler

\* A worker takes its message from the queue and drops it when it is done.
LEMMA TasksKept ==
    ASSUME TypeOK, TasksOK, NEW c \in Runtimes, Worker(c)
    PROVE  TasksOK'
<1>0. /\ worker \in [Runtimes -> WorkerType] /\ worker[c] \in WorkerType
      /\ conv[c].queue \in Seq(Messages) /\ None \notin Messages
  BY GatewayAssumption DEF TypeOK, ConvsTyped, ConvType
<1> DEFINE busy == {"resolve", "build", "append", "run", "report"}
<1>1. \A d \in Runtimes \ {c} : worker'[d] = worker[d]
  BY <1>0 DEF Worker, Run, LoopTop, SelectCancelled, SelectMessage,
     SelectTick, BeginEviction, Process, Resolve, Build, AppendUser, RunEnds, Report,
     Teardown, CloseRuntime, ReleaseSession, FinishEviction, WorkerDone, Goto, Drop
<1>2. worker'[c].task # None <=> worker'[c].pc \in busy
  <2>0. worker[c].task # None <=> worker[c].pc \in busy
    BY DEF TasksOK
  <2>1. CASE SelectMessage(c)
    <3>1. Head(conv[c].queue) \in Messages
      BY <1>0, <2>1 DEF SelectMessage
    <3>2. worker'[c].task = Head(conv[c].queue) /\ worker'[c].pc = "resolve"
      BY <1>0, <2>1 DEF SelectMessage, WorkerType
    <3> QED BY <1>0, <3>1, <3>2
  <2>2. CASE LoopTop(c) \/ SelectCancelled(c) \/ SelectTick(c) \/ BeginEviction(c)
    <3>1. worker'[c].task = worker[c].task /\ worker[c].pc \in {"loop", "select", "tick"}
      BY <1>0, <2>2 DEF LoopTop, SelectCancelled, SelectTick, BeginEviction, Goto, WorkerAt,
         WorkerType
    <3>2. worker'[c].pc \in {"loop", "select", "tick", "close"}
      BY <1>0, <2>2 DEF LoopTop, SelectCancelled, SelectTick, BeginEviction, Goto, WorkerAt,
         WorkerType
    <3> QED BY <2>0, <3>1, <3>2
  <2>3. CASE Process(c)
    <3>1. CASE Drop(c)
      BY <1>0, <3>1 DEF Drop, WorkerType
    <3>2. CASE ~Drop(c)
      <4>1. worker[c].pc \in busy
        BY <2>3 DEF Process, Resolve, Build, AppendUser, RunEnds, Report, WorkerAt
      <4>2. worker'[c].task = worker[c].task /\ worker'[c].pc \in busy
        BY <1>0, <2>3, <3>2 DEF Process, Resolve, Build, AppendUser, RunEnds, Report, Goto,
           WorkerType
      <4> QED BY <2>0, <4>1, <4>2
    <3> QED BY <3>1, <3>2
  <2>4. CASE CloseRuntime(c) \/ ReleaseSession(c) \/ FinishEviction(c)
    <3>1. worker'[c].task = worker[c].task /\ worker[c].pc \in {"close", "release", "finish"}
      BY <1>0, <2>4 DEF CloseRuntime, ReleaseSession, FinishEviction, Goto, WorkerAt, WorkerType
    <3>2. worker'[c].pc \in {"release", "finish", "done"}
      BY <1>0, <2>4 DEF CloseRuntime, ReleaseSession, FinishEviction, Goto, WorkerAt, WorkerType
    <3> QED BY <2>0, <3>1, <3>2
  <2>5. CASE WorkerDone(c)
    BY <1>0, <2>5 DEF WorkerDone, NewWorker
  <2> QED BY <2>1, <2>2, <2>3, <2>4, <2>5 DEF Worker, Run, Teardown
<1> QED BY <1>1, <1>2 DEF TasksOK

\* The invariant of admission and of tasks.
THEOREM IntakeInvariantHolds == Spec => []IntakeInvariant
<1>1. Init => IntakeInvariant
  BY DEF Init, IntakeInvariant, AdmissionOK, TasksOK, At, IdleHandler, NewWorker
<1>2. TypeOK /\ IntakeInvariant /\ [Next]_vars => IntakeInvariant'
  <2> SUFFICES ASSUME TypeOK, AdmissionOK, TasksOK, [Next]_vars
               PROVE  AdmissionOK' /\ TasksOK'
    BY DEF IntakeInvariant
  <2>1. ASSUME NEW h \in Handlers, Handler(h) \/ \E m \in Messages : Receive(h, m)
        PROVE  AdmissionOK' /\ TasksOK'
    <3>1. \A c \in Runtimes :
             worker'[c] = worker[c] \/ worker'[c] = NewWorker("loop")
      BY <2>1 DEF TypeOK, Handler, Receive, Admit, Enqueue, EnqueueCreating, EnqueueExisting,
         EnqueueClosing, EnqueueFull, Refuse, RememberAccepted, NotifyAccepted
    <3> QED BY <2>1, <3>1, AdmissionKept DEF TasksOK, NewWorker
  <2>2. ASSUME NEW c \in Runtimes, Worker(c) PROVE AdmissionOK' /\ TasksOK'
    <3>1. UNCHANGED <<gmu, handler, fresh>>
      BY <2>2 DEF Worker, Run, Process, Teardown, dedupVars
    <3> QED BY <2>2, <3>1, AdmissionStays, TasksKept
  <2>3. ASSUME NEW n \in 1 .. MaxSeen, Expire(n) PROVE AdmissionOK' /\ TasksOK'
    BY <2>3, AdmissionStays DEF Expire, TasksOK
  <2>4. CASE Shutdown \/ UNCHANGED vars
    BY <2>4, AdmissionStays DEF Shutdown, TasksOK, vars, dedupVars
  <2> QED BY <2>1, <2>2, <2>3, <2>4 DEF Next, Terminated
<1> QED BY <1>1, <1>2, TypeCorrect, PTL DEF Spec

-----------------------------------------------------------------------------
(* The gateway implements TaskIntake: what every step does to a chat's      *)
(* queue, its task, the memory and the admission of new work.               *)

\* A step that leaves the map, the queues and the tasks alone changes nothing a
\* chat's users see.
LEMMA SameViews ==
    ASSUME TypeOK, conversations' = conversations,
           \A c \in Runtimes : conv'[c].queue = conv[c].queue /\ worker'[c].task = worker[c].task
    PROVE  Pendings' = Pendings /\ Currents' = Currents
<1>1. \A r \in Routes : conversations[r] # None => conversations[r] \in Runtimes
  BY DEF TypeOK
<1>2. \A r \in Routes : Pending(r)' = Pending(r) /\ Current(r)' = Current(r)
  BY <1>1 DEF Pending, Current
<1> QED BY <1>2 DEF Pendings, Currents

\* A step that changes one chat only.
LEMMA OneView ==
    ASSUME NEW r \in Routes, NEW q, NEW t,
           Pending(r)' = q, Current(r)' = t,
           \A x \in Routes \ {r} : Pending(x)' = Pending(x) /\ Current(x)' = Current(x)
    PROVE  Pendings' = [Pendings EXCEPT ![r] = q] /\ Currents' = [Currents EXCEPT ![r] = t]
BY DEF Pendings, Currents

\* A worker's chat, as long as the worker is in the map.
LEMMA LiveView ==
    ASSUME TypeOK, MapAndWorkersAgree, NEW c \in Runtimes, Live(c)
    PROVE  /\ conv[c].route \in Routes /\ conversations[conv[c].route] = c
           /\ Pendings[conv[c].route] = conv[c].queue
           /\ Currents[conv[c].route] = worker[c].task
<1>1. conv[c].route \in Routes /\ conversations[conv[c].route] = c /\ c # None
  BY GatewayAssumption DEF MapAndWorkersAgree
<1> QED BY <1>1 DEF Pendings, Currents, Pending, Current

\* A step of a worker that stays in the map.
LEMMA WorkerView ==
    ASSUME TypeOK, MapAndWorkersAgree, NEW c \in Runtimes, Live(c),
           conversations' = conversations,
           \A d \in Runtimes \ {c} : conv'[d].queue = conv[d].queue /\ worker'[d].task = worker[d].task
    PROVE  /\ Pendings' = [Pendings EXCEPT ![conv[c].route] = conv'[c].queue]
           /\ Currents' = [Currents EXCEPT ![conv[c].route] = worker'[c].task]
<1>0. PICK r : r = conv[c].route
  OBVIOUS
<1>a. PICK q, t : q = conv'[c].queue /\ t = worker'[c].task
  OBVIOUS
<1>1. r \in Routes /\ conversations[r] = c /\ c # None
  BY <1>0, LiveView, GatewayAssumption
<1>2. Pending(r)' = q /\ Current(r)' = t
  BY <1>1, <1>a DEF Pending, Current
<1>3. ASSUME NEW x \in Routes \ {r}
      PROVE  Pending(x)' = Pending(x) /\ Current(x)' = Current(x)
  <2>1. conversations[x] # None => conversations[x] \in Runtimes \ {c}
    BY <1>0, <1>3 DEF TypeOK, MapAndWorkersAgree
  <2> QED BY <2>1 DEF Pending, Current
<1>4. /\ Pendings' = [Pendings EXCEPT ![r] = q]
      /\ Currents' = [Currents EXCEPT ![r] = t]
  BY <1>1, <1>2, <1>3, OneView
<1> QED BY <1>0, <1>a, <1>4

\* A handler's step that moves no handler to or from remembering.
LEMMA SameMemory ==
    ASSUME fresh' = fresh,
           \A g \in Handlers : handler'[g] # handler[g] =>
               handler[g].pc # "remember" /\ handler'[g].pc # "remember"
    PROVE  Remembered' = Remembered
BY DEF Remembered, At, Msg

\* Admission by handlers: a reply is consumed, a task accepted, and the rest is
\* not seen.
LEMMA HandlerImplements ==
    ASSUME TypeOK, RuntimeInvariant, IntakeInvariant, NEW h \in Handlers,
           Handler(h) \/ \E m \in Messages : Receive(h, m)
    PROVE  \/ \E m \in Messages : Intake!Accept(m) \/ Intake!Consume(m)
           \/ Intake!Forget
           \/ UNCHANGED <<Pendings, Currents, Remembered, ~cancelled>>
<1>0. /\ handler \in [Handlers -> HandlerType] /\ conv \in [Runtimes -> ConvType]
      /\ None \notin Handlers /\ AdmissionOK /\ MapAndWorkersAgree
      /\ worker \in [Runtimes -> WorkerType]
  BY GatewayAssumption
     DEF TypeOK, HandlersTyped, ConvsTyped, IntakeInvariant, RuntimeInvariant
<1>1. \A g \in Handlers \ {h} : handler'[g] = handler[g]
  BY <1>0 DEF Handler, Receive, Admit, AdmitRefused, AdmitIgnored, AdmitControl, AdmitTask,
     Enqueue, EnqueueCreating, EnqueueExisting, EnqueueClosing, EnqueueFull, Refuse, ToRemember,
     RememberAccepted, NotifyAccepted, Return
<1>2. Return(h) => handler'[h].pc = "idle"
  BY <1>0 DEF Return, IdleHandler
<1>3. cancelled' = cancelled
  BY DEF Handler, Receive, Admit, Enqueue, RememberAccepted, NotifyAccepted
<1>4. ASSUME UNCHANGED <<conversations, conv, worker>>
      PROVE  Pendings' = Pendings /\ Currents' = Currents
  BY <1>4, SameViews
<1>5. ASSUME fresh' = fresh, handler[h].pc # "remember", handler'[h].pc # "remember"
      PROVE  Remembered' = Remembered
  BY <1>1, <1>5, SameMemory
<1>6. ASSUME NEW m \in Messages, Receive(h, m)
      PROVE  UNCHANGED <<Pendings, Currents, Remembered, ~cancelled>>
  <2>1. handler[h].pc = "idle" /\ handler'[h].pc = "admit" /\ fresh' = fresh
    <3>1. handler' = [handler EXCEPT ![h] = [handler[h] EXCEPT !.pc = "admit", !.msg = m]]
      BY <1>0, <1>6 DEF Receive
    <3>2. [handler[h] EXCEPT !.pc = "admit", !.msg = m].pc = "admit"
      BY <1>0 DEF HandlerType
    <3>3. handler'[h].pc = "admit"
      BY <1>0, <3>1, <3>2
    <3> QED BY <1>6, <3>3 DEF Receive, At, dedupVars
  <2>2. Pendings' = Pendings /\ Currents' = Currents
    BY <1>4, <1>6 DEF Receive, mapVars
  <2> QED BY <1>3, <1>5, <2>1, <2>2
<1>7. CASE Admit(h)
  <2>1. handler[h].pc = "admit" /\ gmu = None /\ handler[h].msg \in Messages
    BY <1>7 DEF Admit, At, Msg, TypeOK, HandlersTyped
  <2>2. Pendings' = Pendings /\ Currents' = Currents
    BY <1>4, <1>7 DEF Admit, mapVars
  <2>3. CASE AdmitRefused(h) \/ AdmitIgnored(h)
    BY <1>2, <1>3, <1>5, <2>1, <2>2, <2>3 DEF AdmitRefused, AdmitIgnored, dedupVars
  <2>4. CASE AdmitTask(h)
    <3>1. handler'[h].pc = "enqueue" /\ fresh' = fresh
      BY <1>0, <2>4 DEF AdmitTask, HandlerType, dedupVars
    <3> QED BY <1>3, <1>5, <2>1, <2>2, <3>1
  <2>5. CASE AdmitControl(h)
    <3> DEFINE m == handler[h].msg
    <3>1. \A g \in Handlers : handler[g].pc # "remember" /\ handler'[g].pc # "remember"
      <4>1. \A g \in Handlers \ {h} : ~At(g, "remember")
        BY <1>0, <2>1, AloneInAdmission
      <4> QED BY <1>1, <1>2, <2>1, <2>5, <4>1 DEF AdmitControl, At
    <3>2. Remembered = fresh /\ Remembered' = fresh'
      BY <3>1 DEF Remembered, At
    <3>3. m \notin fresh /\ m \in fresh' /\ fresh' \subseteq fresh \cup {m}
      BY <2>5, FreshAfter DEF AdmitControl, Contains, Msg
    <3>4. Intake!Remember(m)
      <4>1. fresh' \ {m} \in SUBSET Remembered /\ Remembered' = (fresh' \ {m}) \cup {m}
        BY <3>2, <3>3
      <4> QED BY <3>2, <3>3, <4>1 DEF Intake!Remember
    <3>5. Intake!Consume(m)
      BY <1>3, <2>2, <2>5, <3>4 DEF Intake!Consume, AdmitControl
    <3> QED BY <2>1, <3>5
  <2> QED BY <1>7, <2>3, <2>4, <2>5 DEF Admit
<1>8. CASE Enqueue(h)
  <2>0. PICK m, r : m = handler[h].msg /\ r = RouteOf[m]
    OBVIOUS
  <2>1. /\ handler[h].pc = "enqueue" /\ gmu = h /\ m \in Messages /\ r \in Routes
        /\ m \notin fresh /\ fresh' = fresh
    BY <2>0, <1>0, <1>8, GatewayAssumption
       DEF Enqueue, AdmissionOK, Contains, At, Msg, TypeOK, HandlersTyped, dedupVars
  <2>2. \A g \in Handlers \ {h} : handler[g].pc # "remember"
    BY <1>0, <2>1, AloneInAdmission DEF At
  <2>3. CASE Refuse(h)
    BY <1>2, <1>3, <1>4, <1>5, <2>1, <2>3 DEF Refuse
  <2>4. ASSUME NEW c \in Runtimes, ToRemember(h, c), ~cancelled,
               Len(Pendings[r]) < QueueSize,
               Pendings' = [Pendings EXCEPT ![r] = Append(Pendings[r], m)],
               Currents' = Currents
        PROVE  Intake!Accept(m)
    <3>1. handler'[h].pc = "remember" /\ handler'[h].msg = m
      BY <2>0, <1>0, <2>4 DEF ToRemember, HandlerType
    <3>2. Remembered = fresh
      BY <2>1, <2>2 DEF Remembered, At
    <3>3. Remembered' = fresh \cup {m}
      BY <1>1, <2>1, <2>2, <3>1 DEF Remembered, At, Msg
    <3> QED BY <2>0, <1>3, <2>1, <2>4, <3>2, <3>3 DEF Intake!Accept
  <2>5. CASE ~cancelled /\ EnqueueCreating(h)
    <3>1. PICK c \in Runtimes :
             /\ conversations[r] = None /\ Free(c)
             /\ conversations' = [conversations EXCEPT ![r] = c]
             /\ conv' = [conv EXCEPT ![c] = Pushed(h, NewConv(r))]
             /\ worker' = [worker EXCEPT ![c] = NewWorker("loop")]
             /\ ToRemember(h, c)
      BY <2>0, <2>5 DEF EnqueueCreating, Msg
    <3>2. c # None /\ worker[c].pc = "free"
      BY <3>1, GatewayAssumption DEF Free
    <3>3. conversations'[r] = c /\ \A x \in Routes \ {r} : conversations'[x] = conversations[x]
      BY <2>1, <3>1 DEF TypeOK
    <3>4. conv'[c].queue = Append(<<>>, m) /\ worker'[c].task = None
      <4>1. NewConv(r) \in ConvType /\ NewConv(r).queue = <<>>
        BY <2>1, NewConvFacts
      <4>2. Pushed(h, NewConv(r)).queue = Append(NewConv(r).queue, m)
        BY <2>0, <2>1, <4>1, PushedFacts DEF Msg
      <4>3. conv'[c] = Pushed(h, NewConv(r)) /\ worker'[c] = NewWorker("loop")
        BY <1>0, <3>1
      <4>4. conv'[c].queue = Append(<<>>, m)
        BY <4>1, <4>2, <4>3
      <4> QED BY <4>3, <4>4 DEF NewWorker
    <3>5. Pendings[r] = <<>> /\ Currents[r] = None
      BY <2>1, <3>1 DEF Pendings, Currents, Pending, Current
    <3>6. Pending(r)' = Append(<<>>, m) /\ Current(r)' = None
      BY <3>2, <3>3, <3>4 DEF Pending, Current
    <3>7. ASSUME NEW x \in Routes \ {r}
          PROVE  Pending(x)' = Pending(x) /\ Current(x)' = Current(x)
      <4>1. conversations[x] # None => conversations[x] \in Runtimes \ {c}
        BY <1>0, <3>2 DEF MapAndWorkersAgree, Live, TypeOK
      <4>2. \A d \in Runtimes \ {c} : conv'[d] = conv[d] /\ worker'[d] = worker[d]
        BY <1>0, <3>1
      <4> QED BY <3>3, <4>1, <4>2 DEF Pending, Current
    <3>8. /\ Pendings' = [Pendings EXCEPT ![r] = Append(<<>>, m)]
          /\ Currents' = [Currents EXCEPT ![r] = None]
      BY <2>1, <3>6, <3>7, OneView
    <3>9. Currents' = Currents
      BY <3>5, <3>8 DEF Currents
    <3>10. Len(Pendings[r]) < QueueSize
      BY <3>5, GatewayAssumption
    <3> QED BY <2>1, <2>4, <2>5, <3>1, <3>5, <3>8, <3>9, <3>10
  <2>6. CASE ~cancelled /\ EnqueueExisting(h)
    <3>1. PICK c \in Runtimes :
             /\ conversations[r] = c /\ c # None
             /\ Len(conv[c].queue) < QueueSize
             /\ conv' = [conv EXCEPT ![c] = Pushed(h, conv[c])]
             /\ ToRemember(h, c)
      BY <2>0, <2>1, <2>6 DEF EnqueueExisting, Target, Msg, TypeOK
    <3>2. UNCHANGED <<conversations, worker>>
      BY <2>6 DEF EnqueueExisting
    <3>3. Live(c) /\ conv[c].route = r
      BY <1>0, <2>1, <3>1 DEF MapAndWorkersAgree
    <3>4. conv'[c].queue = Append(conv[c].queue, m)
      BY <2>0, <1>0, <2>1, <3>1, PushedFacts DEF Msg
    <3>5. \A d \in Runtimes \ {c} : conv'[d] = conv[d]
      BY <1>0, <3>1
    <3>6. /\ Pendings' = [Pendings EXCEPT ![r] = conv'[c].queue]
          /\ Currents' = [Currents EXCEPT ![r] = worker[c].task]
      BY <1>0, <3>2, <3>3, <3>5, WorkerView
    <3>7. Pendings[r] = conv[c].queue /\ Currents[r] = worker[c].task
      BY <1>0, <3>3, LiveView
    <3>8. Currents' = Currents
      BY <3>6, <3>7 DEF Currents
    <3> QED BY <2>1, <2>4, <2>6, <3>1, <3>4, <3>6, <3>7, <3>8
  <2> QED BY <1>8, <2>3, <2>5, <2>6 DEF Enqueue, EnqueueClosing, EnqueueFull
<1>9. CASE RememberAccepted(h)
  <2>1. Pendings' = Pendings /\ Currents' = Currents
    BY <1>4, <1>9 DEF RememberAccepted, mapVars
  <2>2. handler[h].pc = "remember" /\ handler'[h].pc # "remember"
    BY <1>0, <1>2, <1>9 DEF RememberAccepted, At, HandlerType
  <2>3. fresh' \subseteq fresh \cup {handler[h].msg}
    BY <1>9, FreshAfter DEF RememberAccepted, Msg
  <2>4. Remembered' \in SUBSET Remembered
    BY <1>1, <2>2, <2>3 DEF Remembered, At, Msg
  <2>5. Intake!Forget
    BY <1>3, <2>1, <2>4 DEF Intake!Forget
  <2> QED BY <2>5
<1>10. CASE NotifyAccepted(h)
  <2>1. \A c \in Runtimes : conv'[c].queue = conv[c].queue
    BY <1>0, <1>10 DEF NotifyAccepted, ConvType
  <2>2. Pendings' = Pendings /\ Currents' = Currents
    BY <1>10, <2>1, SameViews DEF NotifyAccepted, mapVars
  <2>3. handler[h].pc = "notify" /\ handler'[h].pc = "idle" /\ fresh' = fresh
    BY <1>2, <1>10 DEF NotifyAccepted, At, dedupVars
  <2> QED BY <1>3, <1>5, <2>2, <2>3
<1> QED BY <1>6, <1>7, <1>8, <1>9, <1>10 DEF Handler

\* A worker starts the head of its queue, finishes, and when it leaves the map,
\* loses only what cancellation lets it lose.
LEMMA WorkerImplements ==
    ASSUME TypeOK, RuntimeInvariant, IntakeInvariant, NEW c \in Runtimes, Worker(c)
    PROVE  \/ \E r \in Routes : Intake!Start(r) \/ Intake!Finish(r) \/ Intake!Discard(r)
           \/ UNCHANGED <<Pendings, Currents, Remembered, ~cancelled>>
<1>0. /\ worker \in [Runtimes -> WorkerType] /\ worker[c] \in WorkerType
      /\ conv \in [Runtimes -> ConvType] /\ conv[c] \in ConvType
      /\ None \notin Messages /\ MapAndWorkersAgree /\ TasksOK
  BY GatewayAssumption DEF TypeOK, ConvsTyped, RuntimeInvariant, IntakeInvariant
<1>1. cancelled' = cancelled /\ Remembered' = Remembered
  <2>1. UNCHANGED <<cancelled, handler, fresh>>
    BY DEF Worker, Run, Process, Teardown, dedupVars
  <2> QED BY <2>1 DEF Remembered, At, Msg
<1>2. \A d \in Runtimes \ {c} : worker'[d] = worker[d] /\ conv'[d] = conv[d]
  BY <1>0 DEF Worker, Run, LoopTop, SelectCancelled, SelectMessage,
     SelectTick, BeginEviction, Process, Resolve, Build, AppendUser, RunEnds, Report,
     Teardown, CloseRuntime, ReleaseSession, FinishEviction, WorkerDone, Goto, Drop
<1>3. ASSUME conversations' = conversations, conv'[c].queue = conv[c].queue,
             worker'[c].task = worker[c].task
      PROVE  UNCHANGED <<Pendings, Currents, Remembered, ~cancelled>>
  BY <1>1, <1>2, <1>3, SameViews
<1> DEFINE r == conv[c].route
<1>4. ASSUME Live(c) PROVE r \in Routes /\ Pendings[r] = conv[c].queue /\ Currents[r] = worker[c].task
  BY <1>0, <1>4, LiveView
<1>5. CASE SelectMessage(c)
  <2>1. Live(c) /\ conv[c].queue # <<>> /\ worker[c].task = None /\ conversations' = conversations
    BY <1>0, <1>5 DEF SelectMessage, WorkerAt, Live, TasksOK, Worker, Run, Process, Teardown,
       mapVars, Resolve, Build, AppendUser, RunEnds, Report, CloseRuntime, ReleaseSession,
       FinishEviction, WorkerDone
  <2>2. conv'[c].queue = Tail(conv[c].queue) /\ worker'[c].task = Head(conv[c].queue)
    BY <1>0, <1>5 DEF SelectMessage, ConvType, WorkerType
  <2>3. /\ Pendings' = [Pendings EXCEPT ![r] = conv'[c].queue]
        /\ Currents' = [Currents EXCEPT ![r] = worker'[c].task]
    BY <1>0, <1>2, <2>1, WorkerView
  <2>4. Intake!Start(r)
    BY <1>1, <1>4, <2>1, <2>2, <2>3 DEF Intake!Start
  <2> QED BY <1>4, <2>1, <2>4
<1>6. CASE Run(c) /\ ~SelectMessage(c)
  <2>1. conversations' = conversations /\ conv'[c].queue = conv[c].queue
    BY <1>0, <1>6 DEF Run, LoopTop, SelectCancelled, SelectTick, BeginEviction, mapVars, ConvType
  <2>2. worker'[c].task = worker[c].task
    BY <1>0, <1>6 DEF Run, LoopTop, SelectCancelled, SelectTick, BeginEviction, Goto, WorkerType
  <2> QED BY <1>3, <2>1, <2>2
<1>7. CASE Process(c)
  <2>1. conversations' = conversations /\ conv' = conv
    BY <1>7 DEF Process, mapVars
  <2>2. worker[c].pc \in {"resolve", "build", "append", "run", "report"}
    BY <1>7 DEF Process, Resolve, Build, AppendUser, RunEnds, Report, WorkerAt
  <2>3. CASE Drop(c)
    <3>1. Live(c) /\ worker[c].task # None
      BY <1>0, <2>2 DEF Live, TasksOK
    <3>2. worker'[c].task = None
      BY <1>0, <2>3 DEF Drop, WorkerType
    <3>3. Currents' = [Currents EXCEPT ![r] = None]
      BY <1>0, <1>2, <2>1, <3>1, <3>2, WorkerView
    <3>4. Pendings' = Pendings
      BY <2>1 DEF Pendings, Pending
    <3>5. Intake!Finish(r)
      BY <1>1, <1>4, <3>1, <3>3, <3>4 DEF Intake!Finish
    <3> QED BY <1>4, <3>1, <3>5
  <2>4. CASE ~Drop(c)
    <3>1. worker'[c].task = worker[c].task
      BY <1>0, <1>7, <2>4 DEF Process, Resolve, Build, AppendUser, RunEnds, Report, Goto,
         WorkerType
    <3> QED BY <1>3, <2>1, <3>1
  <2> QED BY <2>3, <2>4
<1>8. CASE CloseRuntime(c) \/ ReleaseSession(c)
  <2>1. conversations' = conversations /\ conv'[c].queue = conv[c].queue
    BY <1>0, <1>8 DEF CloseRuntime, ReleaseSession, mapVars, ConvType
  <2>2. worker'[c].task = worker[c].task
    BY <1>0, <1>8 DEF CloseRuntime, ReleaseSession, Goto, WorkerType
  <2> QED BY <1>3, <2>1, <2>2
<1>9. CASE FinishEviction(c)
  <2>0. PICK s : s = r
    OBVIOUS
  <2>1. Live(c) /\ worker[c].task = None /\ worker[c].pc = "finish"
    BY <1>0, <1>9 DEF FinishEviction, WorkerAt, Live, TasksOK
  <2>2. s \in Routes /\ conversations[s] = c /\ Pendings[s] = conv[c].queue /\ Currents[s] = None
    BY <2>0, <1>0, <2>1, LiveView
  <2>3. conversations'[s] = None /\ \A x \in Routes \ {s} : conversations'[x] = conversations[x]
    BY <2>0, <1>9, <2>2 DEF FinishEviction, TypeOK
  <2>4. Pending(s)' = <<>> /\ Current(s)' = None
    BY <2>3 DEF Pending, Current
  <2>5. ASSUME NEW x \in Routes \ {s}
        PROVE  Pending(x)' = Pending(x) /\ Current(x)' = Current(x)
    <3>1. conversations[x] # None => conversations[x] \in Runtimes \ {c}
      BY <2>0, <1>0, <2>5 DEF TypeOK, MapAndWorkersAgree
    <3> QED BY <1>2, <2>3, <3>1 DEF Pending, Current
  <2>6. /\ Pendings' = [Pendings EXCEPT ![s] = <<>>]
        /\ Currents' = [Currents EXCEPT ![s] = None]
    BY <2>2, <2>4, <2>5, OneView
  <2>7. Currents' = Currents
    BY <2>2, <2>6 DEF Currents
  <2>8. CASE cancelled
    <3>1. Intake!Discard(s)
      BY <1>1, <2>6, <2>7, <2>8 DEF Intake!Discard
    <3> QED BY <2>2, <3>1
  <2>9. CASE ~cancelled
    <3>1. conv[c].queue = <<>>
      BY <2>1, <2>9 DEF RuntimeInvariant, LeavingIsJustified, Leaving
    <3>2. Pendings' = Pendings
      BY <2>2, <2>6, <3>1 DEF Pendings
    <3> QED BY <1>1, <2>7, <3>2
  <2> QED BY <2>8, <2>9
<1>10. CASE WorkerDone(c)
  <2>1. conversations' = conversations /\ worker[c].pc = "done"
    BY <1>10 DEF WorkerDone, WorkerAt
  <2>2. \A x \in Routes : conversations[x] # None => conversations[x] \in Runtimes \ {c}
    BY <1>0, <2>1 DEF MapAndWorkersAgree, Live, TypeOK
  <2>3. \A x \in Routes : Pending(x)' = Pending(x) /\ Current(x)' = Current(x)
    BY <1>2, <2>1, <2>2 DEF Pending, Current
  <2> QED BY <1>1, <2>3 DEF Pendings, Currents
<1> QED BY <1>5, <1>6, <1>7, <1>8, <1>9, <1>10 DEF Worker, Teardown

\* Every step of the gateway is a step of TaskIntake or is not seen.
LEMMA StepImplements ==
    ASSUME TypeOK, RuntimeInvariant, IntakeInvariant, [Next]_vars
    PROVE  Intake!Next \/ UNCHANGED <<Pendings, Currents, Remembered, ~cancelled>>
<1>1. ASSUME NEW h \in Handlers, Handler(h) \/ \E m \in Messages : Receive(h, m)
      PROVE  Intake!Next \/ UNCHANGED <<Pendings, Currents, Remembered, ~cancelled>>
  BY <1>1, HandlerImplements DEF Intake!Next
<1>2. ASSUME NEW c \in Runtimes, Worker(c)
      PROVE  Intake!Next \/ UNCHANGED <<Pendings, Currents, Remembered, ~cancelled>>
  BY <1>2, WorkerImplements DEF Intake!Next
<1>3. ASSUME NEW n \in 1 .. MaxSeen, Expire(n)
      PROVE  Intake!Next
  <2>1. Pendings' = Pendings /\ Currents' = Currents
    BY <1>3, SameViews DEF Expire, mapVars
  <2>2. fresh' \subseteq fresh /\ handler' = handler /\ cancelled' = cancelled
    BY <1>3 DEF Expire
  <2>3. Remembered' \in SUBSET Remembered
    BY <2>2 DEF Remembered, At, Msg
  <2> QED BY <2>1, <2>2, <2>3 DEF Intake!Next, Intake!Forget
<1>4. CASE Shutdown
  <2>1. Pendings' = Pendings /\ Currents' = Currents
    BY <1>4, SameViews DEF Shutdown, mapVars
  <2>2. Remembered' = Remembered
    BY <1>4 DEF Shutdown, dedupVars, Remembered, At, Msg
  <2>3. cancelled' = cancelled \/ (~cancelled /\ cancelled' = TRUE)
    BY <1>4 DEF Shutdown, Cancel, ShutdownStarts, ShutdownBarrier, ShutdownReturns, TypeOK
  <2>4. CASE ~cancelled /\ cancelled' = TRUE
    BY <2>1, <2>2, <2>4 DEF Intake!Next, Intake!Close
  <2>5. CASE cancelled' = cancelled
    BY <2>1, <2>2, <2>5
  <2> QED BY <2>3, <2>4, <2>5
<1>5. CASE UNCHANGED vars
  BY <1>5 DEF vars, dedupVars, mapVars, Pendings, Currents, Remembered, Pending, Current, At, Msg
<1> QED BY <1>1, <1>2, <1>3, <1>4, <1>5 DEF Next, Terminated

\* The gateway implements a serial executor per chat that accepts a message at
\* most once while it remembers it and loses accepted ones only when closed
\* (Gateway.admit, Conversation.run).
THEOREM IntakeIsSafe == Spec => Intake!SafeSpec
<1>1. Init => Intake!Init
  BY DEF Init, Intake!Init, Pendings, Currents, Remembered, Pending, Current, At, IdleHandler
<1>2. TypeOK /\ RuntimeInvariant /\ IntakeInvariant /\ [Next]_vars
      => [Intake!Next]_<<Pendings, Currents, Remembered, ~cancelled>>
  BY StepImplements
<1> QED BY <1>1, <1>2, TypeCorrect, InvariantHolds, IntakeInvariantHolds, PTL
        DEF Spec, Intake!SafeSpec, Intake!vars
=============================================================================
