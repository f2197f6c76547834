--------------------------- MODULE ApprovalProofs ---------------------------
(***************************************************************************)
(* The safety of human approval, for any number of calls, keys and         *)
(* replies. The invariant says that a pending entry points at the one      *)
(* unanswered call of its key; each step of a call touches only its own    *)
(* entry, and Resolve only the entry it consumes.                          *)
(***************************************************************************)
EXTENDS Approval, SequenceTheorems, TLAPS

\* A channel of capacity 1 is empty or holds one reply.
LEMMA AtMostOne ==
    ASSUME NEW r \in Seq(Replies), Len(r) <= 1, r # <<>>
    PROVE  \E y \in Replies : r = <<y>>
<1> DEFINE n == Len(r)
<1>1. n = 1
  <2>1. n \in Nat /\ n # 0
    BY EmptySeq
  <2>2. n <= 1
    OBVIOUS
  <2> HIDE DEF n
  <2> QED BY <2>1, <2>2
<1>2. r[1] \in Replies
  BY <1>1, ElementOfSeq
<1>3. r = <<r[1]>>
  BY <1>1, <1>2, SeqEqual
<1> QED BY <1>2, <1>3

\* Every variable keeps its type along a step of a waiting call.
LEMMA WaitTyped ==
    ASSUME TypeOK, ApprovalInvariant, NEW c \in Calls, Wait(c)
    PROVE  TypeOK'
<1>1. CASE Check(c)
  BY <1>1 DEF Check, Goto, TypeOK, PC
<1>2. CASE Register(c)
  BY <1>2 DEF Register, Goto, TypeOK, PC
<1>3. CASE Notify(c)
  BY <1>3 DEF Notify, Goto, TypeOK, PC
<1>4. CASE Decide(c)
  <2>1. pc' \in [Calls -> PC] /\ UNCHANGED <<pendingTasks, done, answers>>
    BY <1>4 DEF Decide, Goto, TypeOK, PC
  <2>2. CASE UNCHANGED <<result, allowed>>
    BY <2>1, <2>2 DEF TypeOK
  <2>3. CASE /\ result[c] # <<>>
             /\ result' = [result EXCEPT ![c] = Tail(@)]
             /\ allowed' = [allowed EXCEPT ![c] = c \notin done /\ Head(result[c]) = "approve"]
    <3>1. result[c] \in Seq(Replies) /\ Len(result[c]) <= 1
      BY DEF TypeOK
    <3>2. Tail(result[c]) = <<>>
      <4>1. PICK y \in Replies : result[c] = <<y>>
        BY <3>1, <2>3, AtMostOne
      <4> QED BY <4>1
    <3>3. result' \in [Calls -> Seq(Replies)] /\ \A d \in Calls : Len(result'[d]) <= 1
      BY <2>3, <3>2 DEF TypeOK
    <3>4. allowed' \in [Calls -> BOOLEAN]
      BY <2>3 DEF TypeOK
    <3> QED BY <2>1, <3>3, <3>4 DEF TypeOK
  <2> QED BY <1>4, <2>2, <2>3 DEF Decide
<1>5. CASE Cleanup(c)
  BY <1>5 DEF Cleanup, Goto, TypeOK, PC
<1> QED BY <1>1, <1>2, <1>3, <1>4, <1>5 DEF Wait

Active == {"notify", "wait", "cleanup"}

\* A step that concerns one call and at most its own entry keeps the invariant
\* when it does so for that call.
LEMMA CallLocal ==
    ASSUME TypeOK, ApprovalInvariant, NEW c \in Calls,
           UNCHANGED <<done, answers>>,
           \A d \in Calls \ {c} :
              pc'[d] = pc[d] /\ result'[d] = result[d] /\ allowed'[d] = allowed[d],
           \A k \in Keys : \/ pendingTasks'[k] = pendingTasks[k]
                           \/ k = KeyOf[c] /\ pendingTasks[k] = None /\ pendingTasks'[k] = c
                           \/ k = KeyOf[c] /\ pendingTasks[k] = c /\ pendingTasks'[k] = None,
           pendingTasks'[KeyOf[c]] = c => pc'[c] \in Active /\ answers[c] = <<>>,
           pc'[c] \in {"new", "register"} => answers[c] = <<>>,
           result'[c] # <<>> => result'[c] = answers[c],
           c \in Dangerous /\ allowed'[c] => answers[c] = <<"approve">>,
           pc'[c] \in {"notify", "wait"} /\ answers[c] = <<>> /\ c \notin done
              => pendingTasks'[KeyOf[c]] = c
    PROVE  ApprovalInvariant'
<1> USE ApprovalAssumption
<1>1. PendingIsUnanswered'
  <2> SUFFICES ASSUME NEW k \in Keys, pendingTasks'[k] # None
               PROVE  /\ KeyOf[pendingTasks'[k]] = k
                      /\ pc'[pendingTasks'[k]] \in {"notify", "wait", "cleanup"}
                      /\ answers[pendingTasks'[k]] = <<>>
    BY DEF PendingIsUnanswered
  <2>1. CASE pendingTasks'[k] = c
    <3>1. KeyOf[c] = k
      BY <2>1 DEF ApprovalInvariant, PendingIsUnanswered
    <3> QED BY <2>1, <3>1 DEF Active
  <2>2. CASE pendingTasks'[k] # c
    BY <2>2 DEF ApprovalInvariant, PendingIsUnanswered, TypeOK
  <2> QED BY <2>1, <2>2
<1>2. AnswersFlow'
  BY DEF ApprovalInvariant, AnswersFlow
<1>3. AllowedOnlyIfApproved'
  BY DEF ApprovalInvariant, AllowedOnlyIfApproved
<1>4. ShownIsPending'
  <2> SUFFICES ASSUME NEW d \in Calls, pc'[d] \in {"notify", "wait"}, answers[d] = <<>>,
                      d \notin done
               PROVE  pendingTasks'[KeyOf[d]] = d
    BY DEF ShownIsPending
  <2>1. CASE d # c
    <3>1. pendingTasks[KeyOf[d]] = d
      BY <2>1 DEF ApprovalInvariant, ShownIsPending
    <3> QED BY <2>1, <3>1
  <2> QED BY <2>1
<1> QED BY <1>1, <1>2, <1>3, <1>4 DEF ApprovalInvariant

\* The invariant is preserved by each step of a waiting call.
LEMMA WaitKeepsInvariant ==
    ASSUME TypeOK, ApprovalInvariant, NEW c \in Calls, Wait(c)
    PROVE  ApprovalInvariant'
<1> USE ApprovalAssumption
<1>0. /\ pc \in [Calls -> PC] /\ KeyOf[c] \in Keys
      /\ result[c] # <<>> => result[c] = answers[c]
      /\ pc[c] \in {"new", "register"} => answers[c] = <<>>
      /\ c \in Dangerous /\ allowed[c] => answers[c] = <<"approve">>
      /\ pendingTasks[KeyOf[c]] = c => pc[c] \in Active /\ answers[c] = <<>>
      /\ pc[c] \in {"notify", "wait"} /\ answers[c] = <<>> /\ c \notin done
            => pendingTasks[KeyOf[c]] = c
  <2>1. pc \in [Calls -> PC] /\ KeyOf[c] \in Keys
    BY DEF TypeOK
  <2>2. /\ result[c] # <<>> => result[c] = answers[c]
        /\ pc[c] \in {"new", "register"} => answers[c] = <<>>
    BY DEF ApprovalInvariant, AnswersFlow
  <2>3. c \in Dangerous /\ allowed[c] => answers[c] = <<"approve">>
    BY DEF ApprovalInvariant, AllowedOnlyIfApproved
  <2>4. pendingTasks[KeyOf[c]] = c => pc[c] \in Active /\ answers[c] = <<>>
    BY <2>1 DEF ApprovalInvariant, PendingIsUnanswered, Active
  <2>5. pc[c] \in {"notify", "wait"} /\ answers[c] = <<>> /\ c \notin done
            => pendingTasks[KeyOf[c]] = c
    BY DEF ApprovalInvariant, ShownIsPending
  <2> QED BY <2>1, <2>2, <2>3, <2>4, <2>5
<1>1. CASE Check(c)
  <2>1. /\ pc'[c] \in {"register", "returned"} /\ pc[c] = "new" /\ UNCHANGED <<pendingTasks, result>>
        /\ c \in Dangerous => allowed'[c] = allowed[c]
    BY <1>1, <1>0 DEF Check, Goto, At
  <2>2. \A d \in Calls \ {c} : pc'[d] = pc[d] /\ allowed'[d] = allowed[d]
    BY <1>1, <1>0 DEF Check, Goto, TypeOK
  <2>3. UNCHANGED <<done, answers>>
    BY <1>1 DEF Check
  <2> QED BY <1>0, <2>1, <2>2, <2>3, CallLocal DEF Active
<1>2. CASE Register(c)
  <2>1. pc[c] = "register" /\ UNCHANGED <<result, allowed, done, answers>>
    BY <1>2 DEF Register, At
  <2>2. \A d \in Calls \ {c} : pc'[d] = pc[d]
    BY <1>2, <1>0 DEF Register, Goto
  <2>3. CASE pendingTasks[KeyOf[c]] = None
    <3>1. pc'[c] = "notify" /\ pendingTasks' = [pendingTasks EXCEPT ![KeyOf[c]] = c]
      BY <1>2, <1>0, <2>3 DEF Register, Goto
    <3>2. pendingTasks'[KeyOf[c]] = c /\ \A k \in Keys \ {KeyOf[c]} : pendingTasks'[k] = pendingTasks[k]
      BY <1>0, <3>1 DEF TypeOK
    <3> QED BY <1>0, <2>1, <2>2, <2>3, <3>1, <3>2, CallLocal DEF Active
  <2>4. CASE pendingTasks[KeyOf[c]] # None
    <3>1. pc'[c] = "returned" /\ pendingTasks' = pendingTasks
      BY <1>2, <1>0, <2>4 DEF Register, Goto
    <3> QED BY <1>0, <2>1, <2>2, <3>1, CallLocal DEF Active
  <2> QED BY <2>3, <2>4
<1>3. CASE Notify(c)
  <2>1. /\ pc[c] = "notify" /\ pc'[c] \in {"wait", "cleanup"}
        /\ UNCHANGED <<pendingTasks, result, allowed, done, answers>>
        /\ \A d \in Calls \ {c} : pc'[d] = pc[d]
    BY <1>3, <1>0 DEF Notify, At, Goto
  <2> QED BY <1>0, <2>1, CallLocal DEF Active
<1>4. CASE Decide(c)
  <2>1. /\ pc[c] = "wait" /\ pc'[c] = "cleanup" /\ UNCHANGED <<pendingTasks, done, answers>>
        /\ \A d \in Calls \ {c} : pc'[d] = pc[d]
    BY <1>4, <1>0 DEF Decide, At, Goto
  <2>2. CASE UNCHANGED <<result, allowed>>
    BY <1>0, <2>1, <2>2, CallLocal DEF Active
  <2>3. CASE /\ result[c] # <<>>
             /\ result' = [result EXCEPT ![c] = Tail(@)]
             /\ allowed' = [allowed EXCEPT ![c] = c \notin done /\ Head(result[c]) = "approve"]
    <3>1. result[c] = answers[c] /\ answers[c] \in Seq(Replies) /\ Len(answers[c]) <= 1
      BY <1>0, <2>3 DEF ApprovalInvariant, AnswersFlow, TypeOK
    <3>2. PICK y \in Replies : result[c] = <<y>>
      BY <3>1, <2>3, AtMostOne
    <3>3. result'[c] = <<>> /\ (allowed'[c] => y = "approve")
      <4>1. result'[c] = Tail(result[c]) /\ (allowed'[c] = (c \notin done /\ Head(result[c]) = "approve"))
        BY <2>3 DEF TypeOK
      <4>2. Tail(<<y>>) = <<>> /\ Head(<<y>>) = y
        OBVIOUS
      <4> QED BY <3>2, <4>1, <4>2
    <3>4. \A d \in Calls \ {c} : result'[d] = result[d] /\ allowed'[d] = allowed[d]
      BY <2>3 DEF TypeOK
    <3>5. allowed'[c] => answers[c] = <<"approve">>
      BY <3>1, <3>2, <3>3
    <3> QED BY <1>0, <2>1, <3>3, <3>4, <3>5, CallLocal DEF Active
  <2> QED BY <1>4, <2>2, <2>3 DEF Decide
<1>5. CASE Cleanup(c)
  <2>1. /\ pc[c] = "cleanup" /\ pc'[c] = "returned" /\ UNCHANGED <<result, allowed, done, answers>>
        /\ \A d \in Calls \ {c} : pc'[d] = pc[d]
    BY <1>5, <1>0 DEF Cleanup, At, Goto
  <2>2. /\ pendingTasks'[KeyOf[c]] # c
        /\ \A k \in Keys : \/ pendingTasks'[k] = pendingTasks[k]
                           \/ k = KeyOf[c] /\ pendingTasks[k] = c /\ pendingTasks'[k] = None
    BY <1>5, <1>0 DEF Cleanup, TypeOK
  <2> QED BY <1>0, <2>1, <2>2, CallLocal DEF Active
<1> QED BY <1>1, <1>2, <1>3, <1>4, <1>5 DEF Wait

\* A reply consumes the entry of its key and reaches at most the call behind it.
LEMMA ResolveKeepsInvariant ==
    ASSUME TypeOK, ApprovalInvariant, NEW k \in Keys, NEW reply \in Replies, Resolve(k, reply)
    PROVE  TypeOK' /\ ApprovalInvariant'
<1> USE ApprovalAssumption
<1> DEFINE c == pendingTasks[k]
<1>1. /\ c \in Calls /\ KeyOf[c] = k /\ pc[c] \in Active /\ answers[c] = <<>> /\ result[c] = <<>>
      /\ UNCHANGED <<pc, done, allowed>>
      /\ pendingTasks' = [pendingTasks EXCEPT ![k] = None]
  BY DEF Resolve, TypeOK, ApprovalInvariant, PendingIsUnanswered, AnswersFlow, Active
<1>2. \/ c \in done /\ UNCHANGED <<result, answers>>
      \/ /\ result' = [result EXCEPT ![c] = <<reply>>]
         /\ answers' = [answers EXCEPT ![c] = Append(@, reply)]
  BY <1>1 DEF Resolve
<1>3. \/ c \in done /\ UNCHANGED <<result, answers>>
      \/ /\ result' = [result EXCEPT ![c] = <<reply>>]
         /\ answers' = [answers EXCEPT ![c] = <<reply>>]
  BY <1>1, <1>2
<1>4. /\ \A d \in Calls \ {c} : result'[d] = result[d] /\ answers'[d] = answers[d]
      /\ \/ c \in done /\ UNCHANGED <<result, answers>>
         \/ result'[c] = <<reply>> /\ answers'[c] = <<reply>>
      /\ pendingTasks'[k] = None
      /\ \A q \in Keys \ {k} : pendingTasks'[q] = pendingTasks[q]
  BY <1>1, <1>3 DEF TypeOK
<1>5. TypeOK'
  <2>1. pendingTasks' \in [Keys -> Calls \cup {None}]
    BY <1>1 DEF TypeOK
  <2>2. <<reply>> \in Seq(Replies) /\ Len(<<reply>>) = 1
    OBVIOUS
  <2>3. result' \in [Calls -> Seq(Replies)] /\ answers' \in [Calls -> Seq(Replies)]
    <3>1. CASE UNCHANGED <<result, answers>>
      BY <3>1 DEF TypeOK
    <3>2. CASE /\ result' = [result EXCEPT ![c] = <<reply>>]
               /\ answers' = [answers EXCEPT ![c] = <<reply>>]
      <4> HIDE DEF c
      <4> QED BY <3>2, <1>1, <2>2 DEF TypeOK
    <3> QED BY <3>1, <3>2, <1>3
  <2>4. ASSUME NEW d \in Calls PROVE Len(result'[d]) <= 1
    <3>1. CASE d = c
      <4>1. CASE UNCHANGED <<result, answers>>
        BY <4>1 DEF TypeOK
      <4>2. CASE result'[c] = <<reply>>
        BY <3>1, <4>2, <2>2
      <4> QED BY <1>4, <4>1, <4>2
    <3>2. CASE d # c
      BY <3>2, <1>4 DEF TypeOK
    <3> QED BY <3>1, <3>2
  <2> QED BY <1>1, <2>1, <2>3, <2>4 DEF TypeOK
<1>6. PendingIsUnanswered'
  BY <1>1, <1>4 DEF ApprovalInvariant, PendingIsUnanswered, TypeOK
<1>7. AnswersFlow'
  <2>1. ASSUME NEW d \in Calls
        PROVE  /\ pc[d] \in {"new", "register"} => answers'[d] = <<>>
               /\ result'[d] # <<>> => result'[d] = answers'[d]
               /\ Len(answers'[d]) <= 1
    <3>1. CASE d = c
      <4>1. pc[c] \notin {"new", "register"} /\ Len(<<>>) = 0 /\ Len(<<reply>>) = 1
        BY <1>1 DEF Active
      <4>2. CASE UNCHANGED <<result, answers>>
        BY <3>1, <1>1, <4>1, <4>2
      <4>3. CASE result'[c] = <<reply>> /\ answers'[c] = <<reply>>
        BY <3>1, <4>1, <4>3
      <4> QED BY <1>4, <4>2, <4>3
    <3>2. CASE d # c
      BY <3>2, <1>4 DEF ApprovalInvariant, AnswersFlow
    <3> QED BY <3>1, <3>2
  <2> QED BY <1>1, <2>1 DEF AnswersFlow
<1>8. AllowedOnlyIfApproved'
  <2>1. c \in Dangerous => ~allowed[c]
    <3>1. <<>> # <<"approve">>
      OBVIOUS
    <3> QED BY <1>1, <3>1 DEF ApprovalInvariant, AllowedOnlyIfApproved
  <2> QED BY <1>1, <1>4, <2>1 DEF ApprovalInvariant, AllowedOnlyIfApproved
<1>9. ShownIsPending'
  <2> SUFFICES ASSUME NEW d \in Calls, pc[d] \in {"notify", "wait"}, answers'[d] = <<>>,
                      d \notin done
               PROVE  pendingTasks'[KeyOf[d]] = d
    BY <1>1 DEF ShownIsPending
  <2>1. d # c
    BY <1>4
  <2>2. pendingTasks[KeyOf[d]] = d
    BY <2>1, <1>4 DEF ApprovalInvariant, ShownIsPending
  <2> QED BY <2>1, <2>2, <1>4
<1> QED BY <1>5, <1>6, <1>7, <1>8, <1>9 DEF ApprovalInvariant

\* Types and invariant together, in every reachable state.
THEOREM ApprovalCorrect == Spec => [](TypeOK /\ ApprovalInvariant)
<1>1. Init => TypeOK /\ ApprovalInvariant
  BY ApprovalAssumption DEF Init, TypeOK, PC, ApprovalInvariant, PendingIsUnanswered, AnswersFlow,
     AllowedOnlyIfApproved, ShownIsPending
<1>2. TypeOK /\ ApprovalInvariant /\ [Next]_vars => TypeOK' /\ ApprovalInvariant'
  <2> SUFFICES ASSUME TypeOK, ApprovalInvariant, [Next]_vars
               PROVE  TypeOK' /\ ApprovalInvariant'
    OBVIOUS
  <2>1. ASSUME NEW c \in Calls, Cancelled(c) PROVE TypeOK' /\ ApprovalInvariant'
    BY <2>1 DEF Cancelled, TypeOK, ApprovalInvariant, PendingIsUnanswered, AnswersFlow,
       AllowedOnlyIfApproved, ShownIsPending
  <2>2. CASE UNCHANGED vars
    BY <2>2 DEF vars, TypeOK, ApprovalInvariant, PendingIsUnanswered, AnswersFlow,
       AllowedOnlyIfApproved, ShownIsPending
  <2> QED BY <2>1, <2>2, WaitTyped, WaitKeepsInvariant, ResolveKeepsInvariant
          DEF Next, Deadline, Terminated
<1> QED BY <1>1, <1>2, PTL DEF Spec

\* A dangerous call runs only when exactly one matched reply approved it.
THEOREM DenyByDefault == Spec => []AllowedOnlyIfApproved
<1>1. ApprovalInvariant => AllowedOnlyIfApproved
  BY DEF ApprovalInvariant
<1> QED BY <1>1, ApprovalCorrect, PTL

\* A visible request that is open and in time can always be answered.
THEOREM NoReplyLost == Spec => []ShownIsPending
<1>1. ApprovalInvariant => ShownIsPending
  BY DEF ApprovalInvariant
<1> QED BY <1>1, ApprovalCorrect, PTL

\* No entry outlives its call, and no request is answered twice.
THEOREM ConsumedOnce == Spec => [](NoStaleEntry /\ AnsweredOnce)
<1>1. ApprovalInvariant => NoStaleEntry /\ AnsweredOnce
  BY DEF ApprovalInvariant, PendingIsUnanswered, AnswersFlow, NoStaleEntry, AnsweredOnce
<1> QED BY <1>1, ApprovalCorrect, PTL
=============================================================================
