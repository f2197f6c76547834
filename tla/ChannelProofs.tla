---------------------------- MODULE ChannelProofs ----------------------------
(***************************************************************************)
(* Three facts about channels, for any adapters, updates, errors, delays   *)
(* and restarts: Receive takes every update once and in order, one failing *)
(* adapter does not end the others, and each waits as long as it should.   *)
(***************************************************************************)
EXTENDS Channel, SequenceTheorems, TLAPS

\* What the platform may ask for is a natural number.
LEMMA HintsTyped == \A code \in Nat : Hints(code) \subseteq Nat
BY ChannelAssumption DEF Hints, Smaller, Larger

\* The delays of one, two and three failures in a row.
LEMMA DoubledValues ==
    /\ Doubled(1) = Initial
    /\ Doubled(2) = Smaller(2 * Initial, MaxDelay)
    /\ Doubled(3) = Smaller(4 * Initial, MaxDelay)
<1>1. 2^(1 - 1) = 1 /\ 2^(2 - 1) = 2 /\ 2^(3 - 1) = 4
  OBVIOUS
<1>2. Doubled(1) = Smaller(Initial * 1, MaxDelay)
  BY <1>1 DEF Doubled
<1>3. Doubled(2) = Smaller(Initial * 2, MaxDelay)
  BY <1>1 DEF Doubled
<1>4. Doubled(3) = Smaller(Initial * 4, MaxDelay)
  BY <1>1 DEF Doubled
<1> QED BY <1>2, <1>3, <1>4, ChannelAssumption DEF Smaller

\* Jitter keeps within a tenth of the delay and below the maximum.
LEMMA JitterWithin ==
    ASSUME NEW b \in 1..MaxDelay, NEW d \in Jittered(b)
    PROVE  d \in Nat /\ 10 * d >= 9 * b /\ 10 * d <= 11 * b /\ d <= MaxDelay
<1>1. MaxDelay \in Nat /\ b \in Nat /\ b >= 1 /\ b <= MaxDelay
  BY ChannelAssumption
<1>2. PICK j \in {(9 * b + 9) \div 10, (11 * b) \div 10} : d = Smaller(j, MaxDelay)
  BY DEF Jittered
<1>3. j \in Nat /\ 10 * j >= 9 * b /\ 10 * j <= 11 * b
  <2>1. CASE j = (9 * b + 9) \div 10
    <3>1. j \in Nat /\ 10 * j <= 9 * b + 9 /\ 10 * j + 10 > 9 * b + 9
      BY <1>1, <2>1
    <3>2. j <= b
      BY <1>1, <3>1
    <3> QED BY <1>1, <3>1, <3>2
  <2>2. CASE j = (11 * b) \div 10
    <3>1. j \in Nat /\ 10 * j <= 11 * b /\ 10 * j + 10 > 11 * b
      BY <1>1, <2>2
    <3>2. j >= b
      BY <1>1, <3>1
    <3> QED BY <1>1, <3>1, <3>2
  <2> QED BY <1>2, <2>1, <2>2
<1> QED BY <1>1, <1>2, <1>3 DEF Smaller

\* The next backoff is the initial one, or twice the last within the maximum,
\* which keeps up with the count of failures.
LEMMA BackoffKeepsUp ==
    ASSUME NEW s \in Supervisors, Paced(s), NEW stable \in BOOLEAN,
           NEW b, b = NextBackoff(s.backoff, stable),
           NEW n, n = IF stable THEN 1 ELSE Smaller(s.short + 1, 3)
    PROVE  n \in 1..3 /\ b \in 1..MaxDelay /\ b >= Doubled(n) /\ (n = 1 => b = Initial)
<1>1. /\ Initial \in Nat /\ Initial >= 1 /\ MaxDelay \in Nat /\ Initial <= MaxDelay
  BY ChannelAssumption
<1>2. PICK p \in Nat, k \in 0..3 : p = s.backoff /\ k = s.short
  BY DEF Supervisors, Paced
<1>3. /\ k = 0 => p = 0
      /\ k > 0 => p \in 1..MaxDelay /\ p >= Doubled(k)
      /\ k = 1 => p = Initial
  BY <1>2 DEF Paced
<1>4. CASE stable \/ k = 0
  <2>1. n = 1 /\ b = Initial
    BY <1>1, <1>2, <1>3, <1>4 DEF NextBackoff, Smaller
  <2> QED BY <1>1, <2>1, DoubledValues
<1>5. CASE ~stable /\ k # 0
  <2>1. p \in 1..MaxDelay /\ b = Smaller(2 * p, MaxDelay) /\ n = Smaller(k + 1, 3)
    BY <1>2, <1>3, <1>5 DEF NextBackoff
  <2>2. b \in 1..MaxDelay /\ n \in {2, 3}
    BY <1>1, <1>5, <2>1 DEF Smaller
  <2>3. CASE k = 1
    <3>1. n = 2 /\ p = Initial
      BY <1>3, <2>1, <2>3 DEF Smaller
    <3>2. b = Doubled(2)
      BY <2>1, <3>1, DoubledValues
    <3> QED BY <2>2, <3>1, <3>2
  <2>4. CASE k # 1
    <3>1. n = 3 /\ k \in {2, 3}
      BY <1>5, <2>1, <2>4 DEF Smaller
    <3>2. p >= Smaller(2 * Initial, MaxDelay)
      BY <1>1, <1>3, <3>1, <2>1, DoubledValues DEF Smaller
    <3>3. b >= Smaller(4 * Initial, MaxDelay)
      BY <1>1, <2>1, <3>2 DEF Smaller
    <3> QED BY <2>2, <3>1, <3>3, DoubledValues
  <2> QED BY <2>3, <2>4
<1> QED BY <1>4, <1>5

\* A supervisor that begins to wait.
LEMMA WaitingPaced ==
    ASSUME NEW s \in Supervisors, Paced(s), NEW stable \in BOOLEAN, NEW hint \in Nat,
           NEW d \in Jittered(NextBackoff(s.backoff, stable)),
           NEW r, r = Waiting(s, NextBackoff(s.backoff, stable), d, hint, stable)
    PROVE  r \in Supervisors /\ r.pc = "waiting" /\ Paced(r)
<1>1. PICK b : b = NextBackoff(s.backoff, stable)
  OBVIOUS
<1>2. PICK n : n = IF stable THEN 1 ELSE Smaller(s.short + 1, 3)
  OBVIOUS
<1>3. n \in 1..3 /\ b \in 1..MaxDelay /\ b >= Doubled(n) /\ (n = 1 => b = Initial)
  BY <1>1, <1>2, BackoffKeepsUp
<1>4. d \in Nat /\ 10 * d >= 9 * b /\ 10 * d <= 11 * b /\ d <= MaxDelay
  BY <1>1, <1>3, JitterWithin
<1>5. b \in Nat /\ n \in Nat /\ MaxDelay \in Nat
  BY <1>3, ChannelAssumption
<1>6. PICK e : e = Larger(d, hint)
  OBVIOUS
<1>7. /\ e \in Nat /\ e >= hint /\ e <= Larger(MaxDelay, hint) /\ 10 * e >= 9 * b
      /\ hint = 0 => 10 * e <= 11 * b
  BY <1>4, <1>5, <1>6 DEF Larger
<1>8. r = [s EXCEPT !.pc = "waiting", !.backoff = b, !.hint = hint, !.delay = e, !.short = n]
  BY <1>1, <1>2, <1>6 DEF Waiting
<1>9. r = [pc |-> "waiting", backoff |-> b, delay |-> e, hint |-> hint, short |-> n,
           permanent |-> s.permanent]
  BY <1>8 DEF Supervisors
<1>10. r \in Supervisors
  BY <1>5, <1>7, <1>9 DEF Supervisors
<1>11. /\ r.pc = "waiting" /\ r.backoff = b /\ r.delay = e /\ r.hint = hint /\ r.short = n
  BY <1>9
<1> QED BY <1>3, <1>7, <1>10, <1>11 DEF Paced

\* A supervisor that does not wait keeps to the policy as long as its backoff and
\* its count stay.
LEMMA PacedStays ==
    ASSUME NEW s, Paced(s), NEW r, r.backoff = s.backoff, r.short = s.short, r.pc # "waiting"
    PROVE  Paced(r)
BY DEF Paced

\* What Start's return may do: one supervisor changes, ends only when it is
\* cancelled or failed for good, and waits as the policy says.
LEMMA ReturnKeeps ==
    ASSUME TypeOK, PacedOK, NEW a \in Adapters, NEW code \in Nat, StartReturns(a, code)
    PROVE  /\ sup' \in [Adapters -> Supervisors]
           /\ \A b \in Adapters \ {a} : sup'[b] = sup[b]
           /\ sup'[a].pc = "ended" => cancelled \/ sup'[a].permanent
           /\ Paced(sup'[a])
<1>0. sup[a] \in Supervisors /\ DOMAIN sup = Adapters /\ Paced(sup[a])
  BY DEF TypeOK, PacedOK
<1>1. CASE cancelled /\ sup' = [sup EXCEPT ![a].pc = "ended"]
  <2>1. sup'[a] = [sup[a] EXCEPT !.pc = "ended"]
    BY <1>0, <1>1
  <2>2. sup'[a] \in Supervisors /\ Paced(sup'[a])
    BY <1>0, <2>1, PacedStays DEF Supervisors
  <2> QED BY <1>0, <1>1, <2>2 DEF TypeOK
<1>2. CASE sup' = [sup EXCEPT ![a] = [@ EXCEPT !.pc = "ended", !.permanent = TRUE]]
  <2>1. sup'[a] = [sup[a] EXCEPT !.pc = "ended", !.permanent = TRUE]
    BY <1>0, <1>2
  <2>2. sup'[a] \in Supervisors /\ sup'[a].permanent
    BY <1>0, <2>1 DEF Supervisors
  <2>3. Paced(sup'[a])
    BY <1>0, <2>1, PacedStays DEF Supervisors
  <2> QED BY <1>0, <1>2, <2>2, <2>3 DEF TypeOK
<1>3. ASSUME NEW stable \in {FALSE, sup[a].pc = "serving"}, NEW hint \in Hints(code),
             NEW d \in Jittered(NextBackoff(sup[a].backoff, stable)),
             sup' = [sup EXCEPT ![a] =
                       Waiting(sup[a], NextBackoff(sup[a].backoff, stable), d, hint, stable)]
      PROVE  /\ sup' \in [Adapters -> Supervisors]
             /\ \A b \in Adapters \ {a} : sup'[b] = sup[b]
             /\ sup'[a].pc = "waiting" /\ Paced(sup'[a])
  <2>1. stable \in BOOLEAN /\ hint \in Nat
    BY HintsTyped
  <2>2. PICK r : r = Waiting(sup[a], NextBackoff(sup[a].backoff, stable), d, hint, stable)
    OBVIOUS
  <2>3. r \in Supervisors /\ r.pc = "waiting" /\ Paced(r)
    BY <1>0, <2>1, <2>2, WaitingPaced
  <2>4. sup' = [sup EXCEPT ![a] = r]
    BY <1>3, <2>2
  <2> QED BY <1>0, <2>3, <2>4 DEF TypeOK
<1> QED BY <1>1, <1>2, <1>3 DEF StartReturns

\* The supervisors' steps leave updates and batch alone.
LEMMA SupervisorStep ==
    ASSUME ChannelInvariant, NEW a \in Adapters,
           Loop(a) \/ Started(a) \/ StartFails(a) \/ WaitEnds(a)
    PROVE  ChannelInvariant'
<1>0. sup[a] \in Supervisors /\ DOMAIN sup = Adapters /\ Paced(sup[a])
  BY DEF ChannelInvariant, TypeOK, PacedOK
<1>1. UNCHANGED <<run, cancelled, collected, offset, batch, chat, platform>> /\ sup[a].pc # "ended"
  BY DEF Loop, Started, StartFails, WaitEnds
<1>2. /\ sup' \in [Adapters -> Supervisors]
      /\ \A b \in Adapters \ {a} : sup'[b] = sup[b]
      /\ sup'[a].pc = "ended" => cancelled \/ sup'[a].permanent
      /\ Paced(sup'[a])
  <2>1. CASE Loop(a) \/ Started(a)
    <3>1. PICK p \in {"ended", "starting", "serving"} :
             sup' = [sup EXCEPT ![a].pc = p] /\ (p = "ended" => cancelled)
      BY <2>1 DEF Loop, Started
    <3>2. [sup[a] EXCEPT !.pc = p] \in Supervisors
      BY <1>0 DEF Supervisors
    <3>3. sup'[a] = [sup[a] EXCEPT !.pc = p]
      BY <1>0, <3>1
    <3>4. sup'[a].pc = p /\ Paced(sup'[a])
      BY <1>0, <3>3, PacedStays DEF Supervisors
    <3> QED BY <1>0, <3>1, <3>2, <3>4 DEF ChannelInvariant, TypeOK
  <2>2. CASE StartFails(a)
    <3>1. PICK code \in Codes[a] : StartReturns(a, code)
      BY <2>2 DEF StartFails
    <3>2. code \in Nat
      BY ChannelAssumption
    <3> QED BY <3>1, <3>2, ReturnKeeps DEF ChannelInvariant
  <2>3. CASE WaitEnds(a)
    <3>1. PICK p \in {"ended", "loop"} :
             /\ sup' = [sup EXCEPT ![a] = [sup[a] EXCEPT !.pc = p, !.delay = 0, !.hint = 0]]
             /\ p = "ended" => cancelled
      BY <2>3 DEF WaitEnds
    <3>2. PICK r : r = [sup[a] EXCEPT !.pc = p, !.delay = 0, !.hint = 0]
      OBVIOUS
    <3>3. r \in Supervisors /\ r.pc = p /\ r.backoff = sup[a].backoff /\ r.short = sup[a].short
      BY <1>0, <3>2 DEF Supervisors
    <3>4. Paced(r)
      BY <1>0, <3>3, PacedStays
    <3> QED BY <1>0, <3>1, <3>2, <3>3, <3>4 DEF ChannelInvariant, TypeOK
  <2> QED BY <2>1, <2>2, <2>3
<1>3. TypeOK'
  BY <1>1, <1>2 DEF ChannelInvariant, TypeOK, chat, platform
<1>4. NoUpdateLost' /\ BatchOK'
  BY <1>1 DEF ChannelInvariant, NoUpdateLost, BatchOK, chat, platform
<1>5. EndedOK'
  <2>1. a \notin collected /\ collected \subseteq Adapters /\ UNCHANGED <<cancelled, collected>>
    BY <1>1 DEF ChannelInvariant, EndedOK, TypeOK
  <2>2. \A b \in Adapters : sup'[b].pc = "ended" => cancelled' \/ sup'[b].permanent
    BY <1>2, <2>1 DEF ChannelInvariant, EndedOK
  <2>3. \A b \in collected' : sup'[b].pc = "ended"
    BY <1>2, <2>1 DEF ChannelInvariant, EndedOK
  <2> QED BY <2>2, <2>3 DEF EndedOK
<1>6. PacedOK'
  BY <1>2 DEF ChannelInvariant, PacedOK
<1> QED BY <1>3, <1>4, <1>5, <1>6 DEF ChannelInvariant

\* The next updates the platform has for the offset are those Receive has not
\* taken.
LEMMA PollStep ==
    ASSUME ChannelInvariant, Poll
    PROVE  ChannelInvariant'
<1> DEFINE next == base + Len(handled) + 1
           to   == Smaller(next + Limit - 1, Len(sent))
           n    == (to + 1) - Smaller(next, to + 1)
<1>1. /\ Len(handled) \in Nat /\ Len(sent) \in Nat /\ next \in Nat /\ Limit \in Nat \ {0}
      /\ confirmed \in Nat /\ base \in Nat /\ offset \in Nat
  BY ChannelAssumption DEF ChannelInvariant, TypeOK
<1>2. handled = <<>> <=> Len(handled) = 0
  BY EmptySeq DEF ChannelInvariant, TypeOK
<1>3. Larger(confirmed + 1, offset) = next
  BY <1>1, <1>2 DEF Larger, ChannelInvariant, NoUpdateLost, BatchOK
<1>4. batch' = [i \in 1..n |-> next + i - 1]
  BY <1>3 DEF Poll
<1>5. n \in Nat /\ base + Len(handled) <= Len(sent) /\ next + n - 1 <= Len(sent)
  <2>1. Len(batch) = 0
    BY EmptySeq DEF Poll
  <2>2. base + Len(handled) <= Len(sent)
    BY <1>1, <2>1 DEF ChannelInvariant, BatchOK
  <2>3. to \in Int /\ to <= Len(sent)
    BY <1>1 DEF Smaller
  <2>4. CASE next < to + 1
    <3>1. n = (to + 1) - next
      BY <2>4 DEF Smaller
    <3> QED BY <1>1, <2>2, <2>3, <2>4, <3>1
  <2>5. CASE ~(next < to + 1)
    <3>1. n = 0
      BY <2>3, <2>5 DEF Smaller
    <3> QED BY <1>1, <2>2, <3>1
  <2> QED BY <2>4, <2>5
<1>6. batch' \in Seq(Nat) /\ Len(batch') = n
  <2>1. \A i \in 1..n : next + i - 1 \in Nat
    BY <1>1, <1>5
  <2> QED BY <1>4, <1>5, <2>1
<1>7. confirmed' \in Nat /\ base <= confirmed' /\ confirmed' <= base + Len(handled)
  BY <1>1, <1>2 DEF Poll, Larger, ChannelInvariant, NoUpdateLost, BatchOK
<1>8. TypeOK'
  BY <1>6, <1>7 DEF Poll, ChannelInvariant, TypeOK, chat
<1>9. NoUpdateLost'
  BY <1>7 DEF Poll, ChannelInvariant, NoUpdateLost, chat
<1>10. BatchOK'
  <2>1. batch' = [i \in 1..Len(batch') |-> base + Len(handled) + i]
    BY <1>1, <1>4, <1>5, <1>6
  <2>2. base + Len(handled) + Len(batch') <= Len(sent)
    BY <1>1, <1>5, <1>6
  <2>3. UNCHANGED <<base, handled, sent>>
    BY DEF Poll, chat
  <2> QED BY <1>7, <2>1, <2>2, <2>3 DEF BatchOK
<1>11. EndedOK'
  BY DEF Poll, ChannelInvariant, EndedOK
<1>12. PacedOK'
  BY DEF Poll, ChannelInvariant, PacedOK
<1> QED BY <1>8, <1>9, <1>10, <1>11, <1>12 DEF ChannelInvariant

\* An update is taken, or the batch goes and the offset stays.
LEMMA HandleStep ==
    ASSUME ChannelInvariant, Handle
    PROVE  ChannelInvariant'
<1> DEFINE u == Head(batch)
<1>1. /\ Len(handled) \in Nat /\ Len(sent) \in Nat /\ Len(batch) \in Nat \ {0}
      /\ base \in Nat /\ offset \in Nat
  BY EmptySeq DEF ChannelInvariant, TypeOK, Handle
<1>2. u = base + Len(handled) + 1 /\ u \in Nat /\ u \in DOMAIN sent
  <2>1. u = batch[1] /\ 1 \in 1..Len(batch)
    BY <1>1 DEF ChannelInvariant, TypeOK
  <2>2. batch[1] = base + Len(handled) + 1
    BY <1>1, <2>1 DEF ChannelInvariant, BatchOK
  <2>3. base + Len(handled) + 1 <= Len(sent)
    BY <1>1 DEF ChannelInvariant, BatchOK
  <2> QED BY <1>1, <2>1, <2>2, <2>3 DEF ChannelInvariant, TypeOK
<1>3. CASE batch' = <<>> /\ StartReturns(Telegram, 0) /\ UNCHANGED <<offset, chat, run, cancelled, collected, platform>>
  <2>1. /\ sup' \in [Adapters -> Supervisors]
        /\ \A b \in Adapters \ {Telegram} : sup'[b] = sup[b]
        /\ sup'[Telegram].pc = "ended" => cancelled \/ sup'[Telegram].permanent
        /\ Paced(sup'[Telegram])
    BY <1>3, ReturnKeeps, ChannelAssumption DEF ChannelInvariant
  <2>2. TypeOK'
    BY <1>3, <2>1, EmptySeq DEF ChannelInvariant, TypeOK, chat, platform
  <2>3. NoUpdateLost'
    BY <1>3 DEF ChannelInvariant, NoUpdateLost, chat, platform
  <2>4. BatchOK'
    <3>1. Len(<<>>) = 0 /\ <<>> = [i \in 1..0 |-> base + Len(handled) + i]
      BY EmptySeq
    <3>2. base + Len(handled) + 0 <= Len(sent)
      BY <1>1 DEF ChannelInvariant, BatchOK
    <3> QED BY <1>3, <3>1, <3>2 DEF ChannelInvariant, BatchOK, chat, platform
  <2>5. EndedOK'
    <3>1. Telegram \notin collected /\ collected \subseteq Adapters
      BY DEF ChannelInvariant, EndedOK, TypeOK, Handle
    <3>2. \A b \in Adapters : sup'[b].pc = "ended" => cancelled' \/ sup'[b].permanent
      BY <1>3, <2>1 DEF ChannelInvariant, EndedOK
    <3>3. \A b \in collected' : sup'[b].pc = "ended"
      BY <1>3, <2>1, <3>1 DEF ChannelInvariant, EndedOK
    <3> QED BY <3>2, <3>3 DEF EndedOK
  <2>6. PacedOK'
    BY <2>1 DEF ChannelInvariant, PacedOK
  <2> QED BY <2>2, <2>3, <2>4, <2>5, <2>6 DEF ChannelInvariant
<1>4. CASE /\ batch' = Tail(batch) /\ offset' = Larger(offset, u + 1) /\ Taken(u)
           /\ UNCHANGED <<sup, run, cancelled, collected, platform>>
  <2>1. /\ handled' = Append(handled, u) /\ handled' \in Seq(Nat)
        /\ Len(handled') = Len(handled) + 1
        /\ \A i \in 1..Len(handled) : handled'[i] = handled[i]
        /\ handled'[Len(handled) + 1] = u
    BY <1>2, <1>4, AppendProperties DEF Taken, ChannelInvariant, TypeOK
  <2>2. /\ batch' \in Seq(Nat) /\ Len(batch') = Len(batch) - 1
        /\ \A i \in 1..Len(batch') : batch'[i] = batch[i + 1]
    BY <1>1, <1>4 DEF ChannelInvariant, TypeOK
  <2>3. queue' \in Seq(Nat) /\ Len(queue') <= QueueSize /\ worker' \in {"idle", "working", "asking"}
    <3>1. CASE queue' = Append(queue, u) /\ Len(queue) < QueueSize /\ UNCHANGED worker
      BY <1>2, <3>1, AppendProperties, ChannelAssumption DEF ChannelInvariant, TypeOK
    <3>2. CASE queue' = queue /\ worker' = IF worker = "asking" THEN "working" ELSE worker
      BY <3>2 DEF ChannelInvariant, TypeOK
    <3> QED BY <1>4, <3>1, <3>2 DEF Taken
  <2>4. offset' = base + Len(handled') + 1
    BY <1>1, <1>2, <1>4, <2>1 DEF Larger, ChannelInvariant, NoUpdateLost
  <2>5. TypeOK'
    BY <1>1, <1>4, <2>1, <2>2, <2>3, <2>4 DEF ChannelInvariant, TypeOK, platform
  <2>6. NoUpdateLost'
    <3>1. handled' = [i \in 1..Len(handled') |-> base + i]
      <4>1. \A i \in 1..Len(handled) : handled[i] = base + i
        BY <1>1 DEF ChannelInvariant, NoUpdateLost
      <4>2. \A i \in 1..Len(handled') : handled'[i] = base + i
        BY <1>1, <1>2, <2>1, <4>1
      <4>3. handled' \in [1..Len(handled') -> Nat]
        BY <2>1, LenProperties
      <4> QED BY <4>2, <4>3
    <3>2. handled' # <<>>
      BY <1>1, <2>1, EmptySeq
    <3>3. confirmed <= base + Len(handled')
      BY <1>1, <2>1 DEF ChannelInvariant, NoUpdateLost, TypeOK
    <3> QED BY <1>4, <2>4, <3>1, <3>2, <3>3 DEF NoUpdateLost, platform
  <2>7. BatchOK'
    <3>1. \A i \in 1..Len(batch') : batch'[i] = base + Len(handled') + i
      <4>1. \A i \in 1..Len(batch) : batch[i] = base + Len(handled) + i
        BY DEF ChannelInvariant, BatchOK
      <4> QED BY <1>1, <2>1, <2>2, <4>1
    <3>2. batch' = [i \in 1..Len(batch') |-> batch'[i]]
      BY <2>2
    <3>3. base + Len(handled') + Len(batch') <= Len(sent)
      BY <1>1, <2>1, <2>2 DEF ChannelInvariant, BatchOK
    <3> QED BY <1>4, <3>1, <3>2, <3>3 DEF ChannelInvariant, BatchOK, platform
  <2>8. EndedOK'
    BY <1>4 DEF ChannelInvariant, EndedOK
  <2>9. PacedOK'
    BY <1>4 DEF ChannelInvariant, PacedOK
  <2> QED BY <2>5, <2>6, <2>7, <2>8, <2>9 DEF ChannelInvariant
<1>5. u >= offset
  BY <1>1, <1>2 DEF ChannelInvariant, NoUpdateLost
<1> QED BY <1>3, <1>4, <1>5 DEF Handle

\* The chat, its users, Run and the process.
LEMMA OtherStep ==
    ASSUME ChannelInvariant,
           \/ RunStarts \/ Cancel \/ RunCancelled \/ RunReturns \/ Restart
           \/ \E a \in Adapters : RunCollects(a)
           \/ \E kind \in Kinds : UserSends(kind)
           \/ WorkerTakes \/ WorkerAsks \/ WorkerDone \/ Deadline
           \/ UNCHANGED vars
    PROVE  ChannelInvariant'
<1> USE DEF ChannelInvariant, chat, platform
<1>1. CASE RunStarts \/ Cancel \/ RunCancelled \/ RunReturns \/ UNCHANGED vars
  BY <1>1 DEF RunStarts, Cancel, RunCancelled, RunReturns, vars, TypeOK, NoUpdateLost, BatchOK, EndedOK, PacedOK
<1>2. ASSUME NEW a \in Adapters, RunCollects(a) PROVE ChannelInvariant'
  BY <1>2 DEF RunCollects, TypeOK, NoUpdateLost, BatchOK, EndedOK, PacedOK
<1>3. ASSUME NEW kind \in Kinds, UserSends(kind) PROVE ChannelInvariant'
  <2>1. sent' \in Seq(Kinds) /\ Len(sent') = Len(sent) + 1 /\ Len(sent) \in Nat
    BY <1>3, AppendProperties DEF UserSends, TypeOK
  <2>2. TypeOK'
    BY <1>3, <2>1 DEF UserSends, TypeOK
  <2>3. NoUpdateLost' /\ EndedOK' /\ PacedOK'
    BY <1>3 DEF UserSends, NoUpdateLost, EndedOK, PacedOK
  <2>4. BatchOK'
    BY <1>3, <2>1 DEF UserSends, BatchOK, TypeOK
  <2> QED BY <2>2, <2>3, <2>4
<1>4. CASE WorkerTakes
  <2>1. queue' \in Seq(Nat) /\ Len(queue') <= QueueSize
    BY <1>4, ChannelAssumption, EmptySeq DEF WorkerTakes, TypeOK
  <2>2. TypeOK'
    BY <1>4, <2>1 DEF WorkerTakes, WorkerMoves, TypeOK
  <2> QED BY <1>4, <2>2 DEF WorkerTakes, WorkerMoves, NoUpdateLost, BatchOK, EndedOK, PacedOK
<1>5. CASE WorkerAsks \/ WorkerDone \/ Deadline
  BY <1>5 DEF WorkerAsks, WorkerDone, Deadline, WorkerMoves, TypeOK, NoUpdateLost, BatchOK, EndedOK, PacedOK
<1>6. CASE Restart
  <2>1. NewSup \in Supervisors /\ NewSup.pc = "loop" /\ Paced(NewSup)
    BY DEF NewSup, Supervisors, Paced
  <2>2. TypeOK'
    <3>1. <<>> \in Seq(Nat) /\ Len(<<>>) = 0
      BY EmptySeq
    <3>2. sup' \in [Adapters -> Supervisors]
      BY <1>6, <2>1 DEF Restart
    <3>3. 0 <= QueueSize /\ restarts' \in Nat
      BY <1>6, ChannelAssumption DEF Restart, TypeOK
    <3>4. collected' \subseteq Adapters /\ offset' \in Nat \ {0}
      BY <1>6 DEF Restart
    <3>5. run' = "new" /\ cancelled' = FALSE /\ worker' = "idle"
      BY <1>6 DEF Restart
    <3> QED BY <1>6, <3>1, <3>2, <3>3, <3>4, <3>5 DEF Restart, TypeOK
  <2>3. Len(<<>>) = 0 /\ \A b : <<>> = [i \in 1..0 |-> b + i]
    BY EmptySeq
  <2>4. NoUpdateLost'
    BY <1>6, <2>3 DEF Restart, NoUpdateLost, TypeOK
  <2>5. BatchOK'
    <3>1. confirmed <= Len(sent) /\ Len(sent) \in Nat /\ Len(handled) \in Nat /\ Len(batch) \in Nat
      BY DEF BatchOK, NoUpdateLost, TypeOK
    <3>2. <<>> = [i \in 1..0 |-> confirmed + Len(<<>>) + i]
      BY EmptySeq
    <3> QED BY <1>6, <2>3, <3>1, <3>2 DEF Restart, BatchOK, TypeOK
  <2>6. EndedOK'
    BY <1>6, <2>1 DEF Restart, EndedOK
  <2>7. PacedOK'
    BY <1>6, <2>1 DEF Restart, PacedOK
  <2> QED BY <2>2, <2>4, <2>5, <2>6, <2>7
<1> QED BY <1>1, <1>2, <1>3, <1>4, <1>5, <1>6

\* Types and the inductive invariant (Adapter.Start, Gateway.supervise).
THEOREM ChannelCorrect == Spec => []ChannelInvariant
<1>1. Init => ChannelInvariant
  <2> SUFFICES ASSUME Init PROVE ChannelInvariant
    OBVIOUS
  <2>1. NewSup \in Supervisors /\ NewSup.pc = "loop" /\ Paced(NewSup)
    BY DEF NewSup, Supervisors, Paced
  <2>2. Len(<<>>) = 0 /\ <<>> = [i \in 1..0 |-> 0 + i] /\ <<>> = [i \in 1..0 |-> 0 + 0 + i]
    BY EmptySeq
  <2>3. TypeOK
    <3>1. <<>> \in Seq(Nat) /\ <<>> \in Seq(Kinds) /\ Len(<<>>) = 0
      BY EmptySeq
    <3>2. sup \in [Adapters -> Supervisors]
      BY <2>1 DEF Init
    <3>3. 0 <= QueueSize
      BY ChannelAssumption
    <3>4. cancelled \in BOOLEAN /\ collected \subseteq Adapters
      BY DEF Init
    <3>5. batch \in Seq(Nat) /\ queue \in Seq(Nat) /\ handled \in Seq(Nat) /\ sent \in Seq(Kinds)
      BY <3>1 DEF Init
    <3>6. Len(queue) <= QueueSize
      BY <3>1, <3>3 DEF Init
    <3>7. offset \in Nat \ {0} /\ confirmed \in Nat /\ base \in Nat /\ restarts \in Nat
      BY DEF Init
    <3>8. run = "new" /\ worker = "idle"
      BY DEF Init
    <3> QED BY <3>2, <3>4, <3>5, <3>6, <3>7, <3>8 DEF TypeOK
  <2>4. NoUpdateLost /\ BatchOK
    BY <2>2 DEF Init, NoUpdateLost, BatchOK
  <2>5. EndedOK
    BY <2>1 DEF Init, EndedOK
  <2>6. PacedOK
    BY <2>1 DEF Init, PacedOK
  <2> QED BY <2>3, <2>4, <2>5, <2>6 DEF ChannelInvariant
<1>2. ChannelInvariant /\ [Next]_vars => ChannelInvariant'
  BY SupervisorStep, PollStep, HandleStep, OtherStep DEF Next, Stopped
<1> QED BY <1>1, <1>2, PTL DEF Spec

\* Receive takes every update of the platform once, in order, whatever fails
\* (Adapter.Start).
THEOREM EachUpdateOnce == Spec => []NoUpdateLost
<1>1. ChannelInvariant => NoUpdateLost
  BY DEF ChannelInvariant
<1> QED BY <1>1, ChannelCorrect, PTL

\* A supervisor waits at least 0.9 of the doubled delay and what the platform asks
\* for, and not longer than it should (adapterRetryPolicy.next, Gateway.supervise).
THEOREM WaitsAsItShould == Spec => []RetryIsPaced
<1>1. ChannelInvariant => RetryIsPaced
  <2> SUFFICES ASSUME ChannelInvariant, NEW a \in Adapters, sup[a].pc = "waiting"
               PROVE  /\ 10 * sup[a].delay >= 9 * Doubled(sup[a].short)
                      /\ sup[a].delay >= sup[a].hint
                      /\ sup[a].delay <= Larger(MaxDelay, sup[a].hint)
                      /\ sup[a].short = 1 /\ sup[a].hint = 0 => 10 * sup[a].delay <= 11 * Initial
    BY DEF RetryIsPaced
  <2>1. sup[a] \in Supervisors /\ Paced(sup[a])
    BY DEF ChannelInvariant, TypeOK, PacedOK
  <2>2. PICK b \in Nat, d \in Nat, n \in 1..3 :
           b = sup[a].backoff /\ d = sup[a].delay /\ n = sup[a].short
    BY <2>1 DEF Supervisors, Paced
  <2>3. b >= Doubled(n) /\ Doubled(n) \in Nat /\ 10 * d >= 9 * b
    <3>1. Doubled(n) \in Nat
      BY DoubledValues, ChannelAssumption DEF Smaller
    <3> QED BY <2>1, <2>2, <3>1 DEF Paced
  <2>4. 10 * d >= 9 * Doubled(n)
    <3>1. PICK m \in Nat : m = Doubled(n)
      BY <2>3
    <3>2. b >= m /\ 10 * d >= 9 * b
      BY <2>3, <3>1
    <3>3. 10 * d >= 9 * m
      BY <3>2
    <3> QED BY <3>1, <3>3
  <2> QED BY <2>1, <2>2, <2>4 DEF Paced
<1> QED BY <1>1, ChannelCorrect, PTL

\* Run and each supervisor end only when cancelled or failed for good
\* (Gateway.Run, Gateway.supervise).
THEOREM OthersKeepRunning == Spec => OneFailureIsNotAll
<1>1. ChannelInvariant /\ ChannelInvariant' /\ [Next]_vars =>
        [ /\ run = "running" /\ run' = "draining" =>
               cancelled \/ \A a \in Adapters : sup[a].permanent
          /\ \A a \in Adapters : sup[a].pc # "ended" /\ sup'[a].pc = "ended" =>
               cancelled \/ sup'[a].permanent ]_vars
  <2> SUFFICES ASSUME ChannelInvariant, ChannelInvariant', Next
               PROVE  /\ run = "running" /\ run' = "draining" =>
                               cancelled \/ \A a \in Adapters : sup[a].permanent
                      /\ \A a \in Adapters : sup[a].pc # "ended" /\ sup'[a].pc = "ended" =>
                               cancelled \/ sup'[a].permanent
    OBVIOUS
  <2>1. ASSUME run = "running", run' = "draining"
        PROVE  cancelled \/ \A a \in Adapters : sup[a].permanent
    <3>1. RunCancelled \/ \E a \in Adapters : RunCollects(a)
      BY <2>1 DEF Next, Loop, Started, StartFails, WaitEnds, Poll, Handle, UserSends, WorkerTakes,
         WorkerAsks, WorkerDone, Deadline, WorkerMoves, RunStarts, Cancel, RunReturns, Restart,
         Stopped, vars
    <3>2. CASE RunCancelled
      BY <3>2 DEF RunCancelled
    <3>3. ASSUME NEW a \in Adapters, RunCollects(a), ~cancelled
          PROVE  \A b \in Adapters : sup[b].permanent
      <4>1. collected' = Adapters /\ sup' = sup
        BY <2>1, <3>3 DEF RunCollects
      <4>2. \A b \in Adapters : sup[b].pc = "ended"
        BY <4>1 DEF ChannelInvariant, EndedOK
      <4> QED BY <3>3, <4>2 DEF ChannelInvariant, EndedOK
    <3> QED BY <3>1, <3>2, <3>3
  <2>2. ASSUME NEW a \in Adapters, sup[a].pc # "ended", sup'[a].pc = "ended"
        PROVE  cancelled \/ sup'[a].permanent
    <3>1. cancelled' \/ sup'[a].permanent
      BY <2>2 DEF ChannelInvariant, EndedOK
    <3>2. ~(cancelled' /\ ~cancelled)
      BY <2>2 DEF Next, Loop, Started, StartFails, WaitEnds, Poll, Handle, UserSends, WorkerTakes,
         WorkerAsks, WorkerDone, Deadline, WorkerMoves, RunStarts, Cancel, RunCancelled, RunReturns,
         RunCollects, Restart, NewSup, Stopped, vars
    <3> QED BY <3>1, <3>2 DEF ChannelInvariant, TypeOK
  <2> QED BY <2>1, <2>2
<1> QED BY <1>1, ChannelCorrect, PTL DEF Spec, OneFailureIsNotAll
=============================================================================
