---------------------------- MODULE EngineProofs ----------------------------
(***************************************************************************)
(* The context builder, for every history, system prompt and budget, and   *)
(* the turn loop that uses it, for any replies, actions and budgets.       *)
(*                                                                         *)
(* The builder: units accepts exactly the histories whose tool chains are  *)
(* complete and cuts them without loss; Build selects the longest view     *)
(* that begins at a request and fits.                                      *)
(*                                                                         *)
(* The loop: what is sent is such a view, with the request being answered; *)
(* the model is never asked on a broken chain; a third failure in a row is *)
(* answered by a reminder; the tools of a reply are started at most once   *)
(* and only when the reply is saved.                                       *)
(***************************************************************************)
EXTENDS Engine, SequenceTheorems, FiniteSetTheorems, TLAPS

-----------------------------------------------------------------------------
(* Induction and recursion up to a number.                                  *)

\* A set of numbers has a least one.
LEMMA Least ==
    ASSUME NEW S \in SUBSET Nat, S # {}
    PROVE  \E n \in S : \A m \in S : n <= m
<1> DEFINE R == {ss \in Nat \X Nat : ss[1] < ss[2]}
<1>1. IsWellFoundedOn(R, Nat)
  BY NatLessThanWellFounded DEF OpToRel
<1> HIDE DEF R
<1>2. \E n \in S : \A m \in S : <<m, n>> \notin R
  BY <1>1, WFMin
<1>3. \A n, m \in Nat : <<m, n>> \in R <=> m < n
  BY DEF R
<1>4. PICK n \in S : \A m \in S : <<m, n>> \notin R
  BY <1>2
<1>5. \A m \in S : ~(m < n)
  BY <1>3, <1>4
<1> QED BY <1>5

\* Induction up to n, for a property given as the set of those that have it.
LEMMA Induction ==
    ASSUME NEW n \in Nat, NEW P, 0 \in P, \A i \in 0 .. n - 1 : i \in P => i + 1 \in P
    PROVE  \A i \in 0 .. n : i \in P
<1> DEFINE S == {i \in 0 .. n : i \notin P}
<1>1. CASE S = {}
  BY <1>1
<1>2. CASE S # {}
  <2>1. S \in SUBSET Nat
    OBVIOUS
  <2> HIDE DEF S
  <2>2. PICK k \in S : \A m \in S : k <= m
    BY <1>2, <2>1, Least
  <2>3. k \in 0 .. n /\ k \notin P
    BY <2>2 DEF S
  <2>4. k # 0
    BY <2>3
  <2>5. k - 1 \in 0 .. n - 1 /\ (k - 1) + 1 = k
    BY <2>3, <2>4
  <2>6. k - 1 \notin P
    BY <2>3, <2>5
  <2>7. k - 1 \in S
    BY <2>5, <2>6 DEF S
  <2> QED BY <2>2, <2>3, <2>7
<1> QED BY <1>1, <1>2

\* f begins with base and follows step, up to n.
Follows(f, S, n, base, step) ==
    f \in [0 .. n -> S] /\ f[0] = base /\ \A i \in 1 .. n : f[i] = step[<<i, f[i - 1]>>]

\* There is such a function, whatever is to be followed.
LEMMA Recursion ==
    ASSUME NEW n \in Nat, NEW S, NEW base \in S, NEW step \in [(1 .. n) \X S -> S]
    PROVE  \E f : Follows(f, S, n, base, step)
<1> DEFINE P == {k \in 0 .. n : \E f : Follows(f, S, k, base, step)}
<1>1. 0 \in P
  <2> DEFINE f == [i \in 0 .. 0 |-> base]
  <2>1. Follows(f, S, 0, base, step)
    BY DEF Follows
  <2> HIDE DEF f
  <2> QED BY <2>1
<1>2. \A k \in 0 .. n - 1 : k \in P => k + 1 \in P
  <2> TAKE k \in 0 .. n - 1
  <2> HAVE k \in P
  <2>1. PICK f : Follows(f, S, k, base, step)
    OBVIOUS
  <2> DEFINE g == [i \in 0 .. k + 1 |-> IF i = k + 1 THEN step[<<k + 1, f[k]>>] ELSE f[i]]
  <2>2. f[k] \in S /\ step[<<k + 1, f[k]>>] \in S
    BY <2>1 DEF Follows
  <2>3. g \in [0 .. k + 1 -> S] /\ g[0] = base
    BY <2>1, <2>2 DEF Follows
  <2>4. \A i \in 1 .. k + 1 : g[i] = step[<<i, g[i - 1]>>]
    <3> TAKE i \in 1 .. k + 1
    <3>1. CASE i = k + 1
      <4>1. i - 1 = k /\ k \in 0 .. k + 1 /\ k # k + 1 /\ i \in 0 .. k + 1
        BY <3>1
      <4>2. g[i - 1] = f[k] /\ g[i] = step[<<k + 1, f[k]>>]
        BY <3>1, <4>1
      <4> QED BY <3>1, <4>2
    <3>2. CASE i # k + 1
      <4>1. i \in 1 .. k /\ i \in 0 .. k + 1 /\ i - 1 \in 0 .. k + 1 /\ i - 1 # k + 1
        BY <3>2
      <4>2. g[i] = f[i] /\ g[i - 1] = f[i - 1]
        BY <3>2, <4>1
      <4> QED BY <2>1, <4>1, <4>2 DEF Follows
    <3> QED BY <3>1, <3>2
  <2>5. Follows(g, S, k + 1, base, step)
    BY <2>3, <2>4 DEF Follows
  <2> HIDE DEF g
  <2> QED BY <2>5
<1> HIDE DEF P
<1>3. n \in P
  BY <1>1, <1>2, Induction
<1> QED BY <1>3 DEF P

-----------------------------------------------------------------------------
(* units reads a history from left to right.                                *)

\* Messages of whatever kind, with calls among ids.
AnyMessages(ids) ==
    [kind : {"request", "reminder", "reply", "result"}, answers : ids, calls : Seq(ids),
     tokens : Nat]

\* What units may have read.
GroupsOf(ids) == Seq(Seq(AnyMessages(ids)) \ {<<>>})
\* All of it: a chain being read has its group.
Accs(ids) ==
    {acc \in [legal : BOOLEAN, pending : SUBSET ids, groups : GroupsOf(ids)] :
        acc.pending # {} => acc.groups # <<>>}

\* The last group with a message more.
LEMMA LastGroup ==
    ASSUME NEW ids, NEW groups \in GroupsOf(ids), groups # <<>>, NEW m \in AnyMessages(ids)
    PROVE  LET more == ToLastGroup(groups, m)
               n == Len(groups)
           IN /\ more \in GroupsOf(ids) /\ n \in Nat /\ n >= 1 /\ Len(more) = n
              /\ \A i \in 1 .. n - 1 : more[i] = groups[i]
              /\ more[n] = Append(groups[n], m)
<1> DEFINE M == AnyMessages(ids)
           G == Seq(M) \ {<<>>}
<1> HIDE DEF M, G
<1>1. groups \in Seq(G) /\ m \in M
  BY DEF G, M, GroupsOf
<1>2. PICK n : n = Len(groups)
  OBVIOUS
<1>3. n \in Nat /\ n >= 1 /\ groups[n] \in G
  BY <1>1, <1>2
<1>4. /\ Front(groups) \in Seq(G) /\ Len(Front(groups)) = n - 1
      /\ \A i \in 1 .. n - 1 : Front(groups)[i] = groups[i]
  <2>1. \A i \in 1 .. n - 1 : groups[i] \in G
    BY <1>1, <1>2, <1>3
  <2> QED BY <1>2, <1>3, <2>1, SubSeqProperties DEF Front
<1>5. Append(groups[n], m) \in G
  BY <1>1, <1>3, AppendProperties DEF G
<1>6. PICK f \in Seq(G) : f = Front(groups)
  BY <1>4
<1>7. PICK x \in G : x = Append(groups[n], m)
  BY <1>5
<1>8. /\ Append(f, x) \in Seq(G) /\ Len(Append(f, x)) = n
      /\ \A i \in 1 .. n - 1 : Append(f, x)[i] = f[i]
      /\ Append(f, x)[n] = x
  BY <1>3, <1>4, <1>6, AppendProperties
<1>9. ToLastGroup(groups, m) = Append(f, x)
  BY <1>2, <1>6, <1>7 DEF ToLastGroup, Last
<1> QED BY <1>2, <1>3, <1>4, <1>6, <1>7, <1>8, <1>9 DEF G, M, GroupsOf

\* The groups with one more.
LEMMA OneMoreGroup ==
    ASSUME NEW ids, NEW groups \in GroupsOf(ids), NEW m \in AnyMessages(ids)
    PROVE  LET more == Append(groups, <<m>>)
               n == Len(groups)
           IN /\ more \in GroupsOf(ids) /\ n \in Nat /\ Len(more) = n + 1
              /\ \A i \in 1 .. n : more[i] = groups[i]
              /\ more[n + 1] = <<m>>
<1> DEFINE M == AnyMessages(ids)
           G == Seq(M) \ {<<>>}
<1> HIDE DEF M, G
<1>1. groups \in Seq(G) /\ m \in M
  BY DEF G, M, GroupsOf
<1>2. <<m>> \in G
  BY <1>1 DEF G
<1>3. PICK x \in G : x = <<m>>
  BY <1>2
<1>4. /\ Append(groups, x) \in Seq(G) /\ Len(Append(groups, x)) = Len(groups) + 1
      /\ \A i \in 1 .. Len(groups) : Append(groups, x)[i] = groups[i]
      /\ Append(groups, x)[Len(groups) + 1] = x /\ Len(groups) \in Nat
  BY <1>1, AppendProperties
<1> QED BY <1>3, <1>4 DEF G, M, GroupsOf

\* One step of units keeps to that.
LEMMA ReadTyped ==
    ASSUME NEW ids, NEW acc \in Accs(ids), NEW m \in AnyMessages(ids)
    PROVE  Read(acc, m) \in Accs(ids)
<1>1. /\ acc.legal \in BOOLEAN /\ acc.pending \in SUBSET ids /\ acc.groups \in GroupsOf(ids)
      /\ acc.pending # {} => acc.groups # <<>>
  BY DEF Accs
<1>2. /\ m.calls \in Seq(ids) /\ ToSet(m.calls) \in SUBSET ids
  <2>1. m.calls \in Seq(ids)
    BY DEF AnyMessages
  <2> QED BY <2>1 DEF ToSet
<1>3. ASSUME acc.groups # <<>>
      PROVE  ToLastGroup(acc.groups, m) \in GroupsOf(ids) /\ ToLastGroup(acc.groups, m) # <<>>
  <2>1. PICK more : more = ToLastGroup(acc.groups, m)
    OBVIOUS
  <2>2. more \in GroupsOf(ids) /\ Len(more) >= 1
    BY <1>1, <1>3, <2>1, LastGroup
  <2>3. more # <<>>
    BY <2>2
  <2> QED BY <2>1, <2>2, <2>3
<1>4. Append(acc.groups, <<m>>) \in GroupsOf(ids) /\ Append(acc.groups, <<m>>) # <<>>
  <2>1. PICK more : more = Append(acc.groups, <<m>>)
    OBVIOUS
  <2>2. more \in GroupsOf(ids) /\ Len(more) = Len(acc.groups) + 1 /\ Len(acc.groups) \in Nat
    BY <1>1, <2>1, OneMoreGroup
  <2>3. more # <<>>
    BY <2>2
  <2> QED BY <2>1, <2>2, <2>3
<1>5. (acc.legal /\ Answers(m, acc.pending)) \in BOOLEAN /\ (acc.legal /\ Opens(m)) \in BOOLEAN
  OBVIOUS
<1>6. CASE acc.pending # {}
  <2>1. /\ Read(acc, m).groups = ToLastGroup(acc.groups, m)
        /\ Read(acc, m) = [legal |-> acc.legal /\ Answers(m, acc.pending),
                           pending |-> acc.pending \ {m.answers},
                           groups |-> ToLastGroup(acc.groups, m)]
    BY <1>6 DEF Read
  <2> QED BY <1>1, <1>3, <1>5, <1>6, <2>1 DEF Accs
<1>7. CASE acc.pending = {}
  <2>1. PICK groups : groups = IF Role(m) = "user" \/ acc.groups = <<>>
                               THEN Append(acc.groups, <<m>>)
                               ELSE ToLastGroup(acc.groups, m)
    OBVIOUS
  <2>2. groups \in GroupsOf(ids) /\ groups # <<>>
    BY <1>3, <1>4, <2>1
  <2>3. Read(acc, m) = [legal |-> acc.legal /\ Opens(m), pending |-> ToSet(m.calls),
                        groups |-> groups]
    BY <1>7, <2>1 DEF Read
  <2> QED BY <1>2, <1>5, <2>2, <2>3 DEF Accs
<1> QED BY <1>6, <1>7

\* Reading is what its definition says: a fold from the left.
LEMMA ReadingUnrolled ==
    ASSUME NEW ids, NEW h \in Seq(AnyMessages(ids))
    PROVE  /\ Reading(h)[0] = Start
           /\ \A n \in 1 .. Len(h) : Reading(h)[n] = Read(Reading(h)[n - 1], h[n])
           /\ \A n \in 0 .. Len(h) : Reading(h)[n] \in Accs(ids)
<1>1. PICK A : A = Accs(ids)
  OBVIOUS
<1>2. Len(h) \in Nat /\ \A i \in 1 .. Len(h), acc \in A : Read(acc, h[i]) \in A
  BY <1>1, ReadTyped
<1>3. Start \in A
  BY <1>1 DEF Accs, Start, GroupsOf
<1>4. PICK step : step = [x \in (1 .. Len(h)) \X A |-> Read(x[2], h[x[1]])]
  OBVIOUS
<1>5. PICK f \in [0 .. Len(h) -> A] :
          f[0] = Start /\ \A i \in 1 .. Len(h) : f[i] = Read(f[i - 1], h[i])
  <2>1. PICK n \in Nat : n = Len(h)
    BY <1>2
  <2>2. step \in [(1 .. n) \X A -> A]
    BY <1>2, <1>4, <2>1
  <2>3. PICK f : Follows(f, A, n, Start, step)
    BY <1>3, <2>2, Recursion
  <2>4. \A i \in 1 .. n : f[i] = Read(f[i - 1], h[i])
    <3> TAKE i \in 1 .. n
    <3>1. i - 1 \in 0 .. n /\ f[i - 1] \in A
      BY <2>3 DEF Follows
    <3>2. <<i, f[i - 1]>> \in (1 .. n) \X A
      BY <3>1
    <3> QED BY <1>4, <2>1, <2>3, <3>2 DEF Follows
  <2> QED BY <2>1, <2>3, <2>4 DEF Follows
<1>6. f = [i \in 0 .. Len(h) |-> IF i = 0 THEN Start ELSE Read(f[i - 1], h[i])]
  <2>1. \A i \in 0 .. Len(h) : f[i] = IF i = 0 THEN Start ELSE Read(f[i - 1], h[i])
    BY <1>2, <1>5
  <2>2. f = [i \in 0 .. Len(h) |-> f[i]]
    BY <1>5
  <2>3. PICK e : e = [i \in 0 .. Len(h) |-> IF i = 0 THEN Start ELSE Read(f[i - 1], h[i])]
    OBVIOUS
  <2> QED BY <2>1, <2>2, <2>3
<1>7. PICK r : r = Reading(h)
  OBVIOUS
<1>8. r = [i \in 0 .. Len(h) |-> IF i = 0 THEN Start ELSE Read(r[i - 1], h[i])]
  BY <1>6, <1>7 DEF Reading
<1>9. r[0] = Start /\ \A i \in 1 .. Len(h) : r[i] = Read(r[i - 1], h[i])
  BY <1>2, <1>8
<1>10. \A i \in 0 .. Len(h) : r[i] \in A
  <2> DEFINE P == {i \in 0 .. Len(h) : r[i] \in A}
  <2>1. 0 \in P
    BY <1>2, <1>3, <1>9
  <2>2. \A i \in 0 .. Len(h) - 1 : i \in P => i + 1 \in P
    <3> TAKE i \in 0 .. Len(h) - 1
    <3> HAVE i \in P
    <3>1. i + 1 \in 1 .. Len(h) /\ i + 1 \in 0 .. Len(h) /\ (i + 1) - 1 = i
      BY <1>2
    <3>2. r[i + 1] = Read(r[i], h[i + 1])
      BY <1>9, <3>1
    <3> QED BY <1>2, <3>1, <3>2
  <2> HIDE DEF P
  <2>3. \A i \in 0 .. Len(h) : i \in P
    BY <1>2, <2>1, <2>2, Induction
  <2> QED BY <2>3 DEF P
<1> QED BY <1>1, <1>7, <1>9, <1>10

\* Whether a message is answered depends on what comes after it, as far as its
\* calls reach.
LEMMA AnsweredThere ==
    ASSUME NEW ids, NEW h \in Seq(AnyMessages(ids)), NEW g \in Seq(AnyMessages(ids)),
           NEW i \in 1 .. Len(h), NEW j \in 1 .. Len(g), Answered(h, i), h[i] = g[j],
           \A x \in 1 .. Len(h[i].calls) : i + x <= Len(h) =>
                j + x <= Len(g) /\ g[j + x] = h[i + x]
    PROVE  Answered(g, j)
<1> SUFFICES ASSUME g[j].calls # <<>> PROVE Answered(g, j)
  BY DEF Answered
<1> DEFINE m == h[i]
           n == Len(m.calls)
<1>1. /\ m \in AnyMessages(ids) /\ m.calls \in Seq(ids) /\ n \in Nat /\ n >= 1
      /\ Len(h) \in Nat /\ Len(g) \in Nat /\ i \in Nat /\ j \in Nat
  <2>1. m \in AnyMessages(ids)
    OBVIOUS
  <2>2. m.calls \in Seq(ids)
    BY <2>1 DEF AnyMessages
  <2> QED BY <2>1, <2>2
<1>2. /\ Role(m) = "assistant" /\ m.answers = NoCall
      /\ NoCall \notin ToSet(m.calls) /\ IsInjective(m.calls)
      /\ i + n <= Len(h)
      /\ {h[l].answers : l \in i + 1 .. i + n} = ToSet(m.calls)
      /\ \A l \in i + 1 .. i + n : Role(h[l]) = "user" /\ h[l].calls = <<>>
  BY DEF Answered
<1>3. \A x \in 1 .. n : j + x <= Len(g) /\ g[j + x] = h[i + x]
  BY <1>1, <1>2
<1>4. j + n <= Len(g)
  BY <1>1, <1>3
<1>5. \A l \in j + 1 .. j + n : i + (l - j) \in i + 1 .. i + n /\ g[l] = h[i + (l - j)]
  <2> TAKE l \in j + 1 .. j + n
  <2>1. l - j \in 1 .. n /\ j + (l - j) = l
    BY <1>1
  <2>2. g[j + (l - j)] = h[i + (l - j)]
    BY <1>3, <2>1
  <2> QED BY <1>1, <2>1, <2>2
<1>6. \A l \in i + 1 .. i + n : j + (l - i) \in j + 1 .. j + n /\ h[l] = g[j + (l - i)]
  <2> TAKE l \in i + 1 .. i + n
  <2>1. l - i \in 1 .. n /\ i + (l - i) = l
    BY <1>1
  <2>2. g[j + (l - i)] = h[i + (l - i)]
    BY <1>3, <2>1
  <2> QED BY <1>1, <2>1, <2>2
<1>7. {g[l].answers : l \in j + 1 .. j + n} = {h[l].answers : l \in i + 1 .. i + n}
  <2>1. \A l \in j + 1 .. j + n : g[l].answers \in {h[k].answers : k \in i + 1 .. i + n}
    BY <1>5
  <2>2. \A l \in i + 1 .. i + n : h[l].answers \in {g[k].answers : k \in j + 1 .. j + n}
    BY <1>6
  <2> QED BY <2>1, <2>2
<1>8. \A l \in j + 1 .. j + n : Role(g[l]) = "user" /\ g[l].calls = <<>>
  BY <1>2, <1>5
<1> HIDE DEF n
<1> QED BY <1>2, <1>4, <1>7, <1>8 DEF Answered, n

\* Appending a message without calls that answers nothing.
LEMMA PlainAppended ==
    ASSUME NEW ids, NEW h \in Seq(AnyMessages(ids)), Legal(h),
           NEW m \in AnyMessages(ids), m.calls = <<>>, m.answers = NoCall
    PROVE  Legal(Append(h, m))
<1> DEFINE g == Append(h, m)
<1>1. /\ g \in Seq(AnyMessages(ids)) /\ Len(g) = Len(h) + 1 /\ Len(h) \in Nat
      /\ g[Len(h) + 1] = m /\ \A i \in 1 .. Len(h) : g[i] = h[i]
  BY AppendProperties
<1> HIDE DEF g
<1>2. ASSUME NEW i \in 1 .. Len(h) PROVE Answered(g, i) /\ Wanted(g, i)
  <2>1. Answered(h, i) /\ Wanted(h, i)
    BY DEF Legal
  <2>2. i \in 1 .. Len(g) /\ h[i] = g[i]
    BY <1>1
  <2>3. \A x \in 1 .. Len(h[i].calls) : i + x <= Len(h) => i + x <= Len(g) /\ g[i + x] = h[i + x]
    BY <1>1
  <2>4. Answered(g, i)
    BY <1>1, <2>1, <2>2, <2>3, AnsweredThere
  <2>5. Wanted(g, i)
    BY <1>1, <2>1 DEF Wanted
  <2> QED BY <2>4, <2>5
<1>3. Answered(g, Len(h) + 1) /\ Wanted(g, Len(h) + 1)
  BY <1>1 DEF Answered, Wanted
<1> QED BY <1>1, <1>2, <1>3 DEF Legal, g

\* Appending a reply with calls and exactly their results.
LEMMA ChainAppended ==
    ASSUME NEW ids, NEW g \in Seq(AnyMessages(ids)), NEW k \in 1 .. Len(g),
           Legal(SubSeq(g, 1, k - 1)), Answered(g, k), g[k].calls # <<>>,
           Len(g) = k + Len(g[k].calls)
    PROVE  Legal(g)
<1> DEFINE h == SubSeq(g, 1, k - 1)
<1>1. /\ h \in Seq(AnyMessages(ids)) /\ Len(h) = k - 1 /\ \A i \in 1 .. k - 1 : h[i] = g[i]
      /\ Len(g) \in Nat /\ k \in Nat
  <2>1. k - 1 \in Nat /\ k - 1 <= Len(g)
    OBVIOUS
  <2> QED BY <2>1, SubSeqProperties
<1> HIDE DEF h
<1>2. ASSUME NEW i \in 1 .. k - 1 PROVE Answered(g, i) /\ Wanted(g, i)
  <2>1. Answered(h, i) /\ Wanted(h, i)
    BY <1>1 DEF Legal, h
  <2>2. i \in 1 .. Len(g) /\ i \in 1 .. Len(h) /\ h[i] = g[i]
    BY <1>1
  <2>3. \A x \in 1 .. Len(h[i].calls) : i + x <= Len(h) => i + x <= Len(g) /\ g[i + x] = h[i + x]
    BY <1>1
  <2>4. Answered(g, i)
    BY <1>1, <2>1, <2>2, <2>3, AnsweredThere
  <2>5. \A l \in 1 .. i - 1 : h[l] = g[l]
    BY <1>1
  <2>6. Wanted(g, i)
    BY <2>1, <2>2, <2>5 DEF Wanted
  <2> QED BY <2>4, <2>6
<1>3. Wanted(g, k)
  BY DEF Answered, Wanted
<1>4. ASSUME NEW i \in k + 1 .. Len(g) PROVE Answered(g, i) /\ Wanted(g, i)
  <2>1. g[i].calls = <<>>
    BY <1>1, <1>4 DEF Answered
  <2>2. k \in 1 .. i - 1 /\ i <= k + Len(g[k].calls)
    BY <1>1, <1>4
  <2> QED BY <2>1, <2>2 DEF Answered, Wanted
<1> QED BY <1>1, <1>2, <1>3, <1>4 DEF Legal

-----------------------------------------------------------------------------
(* What units accepts.                                                      *)

\* A sequence without repetition has as many elements as it is long.
LEMMA DistinctCalls ==
    ASSUME NEW S, NEW calls \in Seq(S), IsInjective(calls)
    PROVE  /\ IsFiniteSet(ToSet(calls)) /\ Cardinality(ToSet(calls)) = Len(calls)
           /\ Len(calls) \in Nat
<1>1. PICK n \in Nat : n = Len(calls)
  OBVIOUS
<1>2. calls \in [1 .. n -> S] /\ DOMAIN calls = 1 .. n
  BY <1>1
<1>3. calls \in Bijection(1 .. n, ToSet(calls))
  BY <1>2 DEF Bijection, Injection, Surjection, ToSet, IsInjective
<1>4. IsFiniteSet(1 .. n) /\ Cardinality(1 .. n) = n
  <2>1. 1 \in Int /\ n \in Int
    OBVIOUS
  <2>2. Cardinality(1 .. n) = IF 1 > n THEN 0 ELSE n - 1 + 1
    BY <2>1, FS_Interval
  <2> QED BY <2>1, <2>2, FS_Interval
<1>5. ExistsBijection(1 .. n, ToSet(calls))
  BY <1>3 DEF ExistsBijection
<1>6. IsFiniteSet(ToSet(calls)) /\ Cardinality(ToSet(calls)) = Cardinality(1 .. n)
  BY <1>4, <1>5, FS_Bijection
<1> QED BY <1>1, <1>4, <1>6

\* Message k began a chain that the messages up to n have not completed.
OpenChain(h, k, n, pending) ==
    /\ k \in 1 .. n /\ h[k].calls # <<>> /\ n < k + Len(h[k].calls)
    /\ Role(h[k]) = "assistant" /\ h[k].answers = NoCall
    /\ NoCall \notin ToSet(h[k].calls) /\ IsInjective(h[k].calls)
    /\ \A j \in k + 1 .. n : /\ Role(h[j]) = "user" /\ h[j].calls = <<>>
                             /\ h[j].answers \in ToSet(h[k].calls)
    /\ pending = ToSet(h[k].calls) \ {h[j].answers : j \in k + 1 .. n}
    /\ IsFiniteSet(pending) /\ Cardinality(pending) = Len(h[k].calls) - (n - k)

\* Some of its calls are pending.
LEMMA OpenIsPending ==
    ASSUME NEW ids, NEW h \in Seq(AnyMessages(ids)), NEW n \in 0 .. Len(h),
           NEW k, NEW pending, OpenChain(h, k, n, pending)
    PROVE  pending # {} /\ Len(h[k].calls) \in Nat
<1>1. h[k] \in AnyMessages(ids) /\ n \in Nat
  BY DEF OpenChain
<1>2. Len(h[k].calls) \in Nat
  BY <1>1 DEF AnyMessages
<1>3. Cardinality(pending) # 0
  BY <1>1, <1>2 DEF OpenChain
<1> QED BY <1>2, <1>3, FS_EmptySet

\* A reply with calls begins one.
LEMMA ChainOpens ==
    ASSUME NEW ids, NEW h \in Seq(AnyMessages(ids)), NEW k \in 1 .. Len(h),
           Opens(h[k]), h[k].calls # <<>>
    PROVE  OpenChain(h, k, k, ToSet(h[k].calls))
<1>1. h[k] \in AnyMessages(ids) /\ k \in Nat
  OBVIOUS
<1>2. h[k].calls \in Seq(ids)
  BY <1>1 DEF AnyMessages
<1>3. IsInjective(h[k].calls) /\ Role(h[k]) = "assistant" /\ h[k].answers = NoCall
      /\ NoCall \notin ToSet(h[k].calls)
  BY DEF Opens
<1>4. IsFiniteSet(ToSet(h[k].calls)) /\ Cardinality(ToSet(h[k].calls)) = Len(h[k].calls)
      /\ Len(h[k].calls) \in Nat
  BY <1>2, <1>3, DistinctCalls
<1>5. Len(h[k].calls) # 0
  BY <1>2
<1>6. ToSet(h[k].calls) \ {h[j].answers : j \in k + 1 .. k} = ToSet(h[k].calls)
  BY <1>1
<1>7. k < k + Len(h[k].calls) /\ k \in 1 .. k /\ Cardinality(ToSet(h[k].calls)) = Len(h[k].calls) - (k - k)
  BY <1>1, <1>4, <1>5
<1> QED BY <1>1, <1>3, <1>4, <1>6, <1>7 DEF OpenChain

\* An answer brings it to its end or leaves it open.
LEMMA ChainGoesOn ==
    ASSUME NEW ids, NEW h \in Seq(AnyMessages(ids)), NEW n \in 0 .. Len(h) - 1,
           NEW k, NEW pending, OpenChain(h, k, n, pending), Answers(h[n + 1], pending)
    PROVE  LET left == pending \ {h[n + 1].answers}
           IN \/ left # {} /\ OpenChain(h, k, n + 1, left)
              \/ /\ left = {} /\ n + 1 = k + Len(h[k].calls) /\ k \in 1 .. n
                 /\ h[k].calls # <<>> /\ Answered(SubSeq(h, 1, n + 1), k)
<1>1. PICK m, calls, N, left : /\ m = h[n + 1] /\ calls = h[k].calls /\ N = Len(calls)
                               /\ left = pending \ {m.answers}
  OBVIOUS
<1>2. /\ k \in 1 .. n /\ calls # <<>> /\ n < k + N
      /\ Role(h[k]) = "assistant" /\ h[k].answers = NoCall
      /\ NoCall \notin ToSet(calls) /\ IsInjective(calls)
      /\ \A j \in k + 1 .. n : Role(h[j]) = "user" /\ h[j].calls = <<>> /\ h[j].answers \in ToSet(calls)
      /\ pending = ToSet(calls) \ {h[j].answers : j \in k + 1 .. n}
      /\ IsFiniteSet(pending) /\ Cardinality(pending) = N - (n - k)
  BY <1>1, Zenon DEF OpenChain
<1>3. Len(h) \in Nat /\ n \in Nat /\ k \in Nat /\ N \in Nat
  BY <1>1, <1>2, OpenIsPending
<1>4. m.answers \in pending /\ Role(m) = "user" /\ m.calls = <<>>
  BY <1>1 DEF Answers
<1>5. \A j \in k + 1 .. n + 1 : Role(h[j]) = "user" /\ h[j].calls = <<>> /\ h[j].answers \in ToSet(calls)
  <2> TAKE j \in k + 1 .. n + 1
  <2>1. CASE j = n + 1
    BY <1>1, <1>2, <1>4, <2>1
  <2>2. CASE j # n + 1
    <3>1. j \in k + 1 .. n
      BY <1>3, <2>2
    <3> QED BY <1>2, <3>1
  <2> QED BY <2>1, <2>2
<1>6. left = ToSet(calls) \ {h[j].answers : j \in k + 1 .. n + 1}
  <2>1. \A j \in k + 1 .. n + 1 : j \in k + 1 .. n \/ j = n + 1
    BY <1>3
  <2>2. \A j \in k + 1 .. n : j \in k + 1 .. n + 1
    BY <1>3
  <2>3. n + 1 \in k + 1 .. n + 1
    BY <1>2, <1>3
  <2> QED BY <1>1, <1>2, <2>1, <2>2, <2>3
<1>7. IsFiniteSet(left) /\ Cardinality(left) = N - ((n + 1) - k)
  <2>1. IsFiniteSet(left) /\ Cardinality(left) = Cardinality(pending) - 1
    BY <1>1, <1>2, <1>4, FS_RemoveElement
  <2> QED BY <1>2, <1>3, <2>1
<1>8. CASE left # {}
  <2>1. Cardinality(left) # 0 /\ Cardinality(left) \in Nat
    BY <1>7, <1>8, FS_EmptySet, FS_CardinalityType
  <2>2. n + 1 < k + N /\ k \in 1 .. n + 1
    BY <1>2, <1>3, <1>7, <2>1
  <2>3. OpenChain(h, k, n + 1, left)
    BY <1>1, <1>2, <1>5, <1>6, <1>7, <2>2, Zenon DEF OpenChain
  <2> QED BY <1>1, <1>8, <2>3
<1>9. CASE left = {}
  <2>1. Cardinality(left) = 0
    BY <1>9, FS_EmptySet
  <2>2. n + 1 = k + N
    BY <1>3, <1>7, <2>1
  <2>3. PICK g : g = SubSeq(h, 1, n + 1)
    OBVIOUS
  <2>4. /\ Len(g) = n + 1 /\ \A i \in 1 .. n + 1 : g[i] = h[i]
    BY <1>3, <2>3, SubSeqProperties
  <2>5. \A i \in k + 1 .. k + N : g[i] = h[i] /\ i \in k + 1 .. n + 1
    BY <1>2, <1>3, <2>2, <2>4
  <2>6. g[k] = h[k] /\ k + N <= Len(g)
    BY <1>2, <1>3, <2>2, <2>4
  <2>7. {g[j].answers : j \in k + 1 .. k + N} = ToSet(calls)
    <3>1. \A j \in k + 1 .. k + N : g[j].answers \in ToSet(calls)
      BY <1>5, <2>5
    <3>2. \A c \in ToSet(calls) : \E j \in k + 1 .. n + 1 : c = h[j].answers
      BY <1>6, <1>9
    <3>3. \A c \in ToSet(calls) : \E j \in k + 1 .. k + N : c = g[j].answers
      BY <2>2, <2>5, <3>2
    <3> QED BY <3>1, <3>3
  <2>8. \A j \in k + 1 .. k + N : Role(g[j]) = "user" /\ g[j].calls = <<>>
    BY <1>5, <2>5
  <2>9. Answered(g, k)
    BY <1>1, <1>2, <2>6, <2>7, <2>8, Zenon DEF Answered
  <2> QED BY <1>1, <1>2, <1>9, <2>2, <2>3, <2>9
<1> QED BY <1>8, <1>9

\* A part of a history with one message more.
LEMMA SliceGrows ==
    ASSUME NEW S, NEW h \in Seq(S), NEW n \in 0 .. Len(h) - 1, NEW i \in 1 .. n + 1
    PROVE  /\ SubSeq(h, i, n) \in Seq(S) /\ h[n + 1] \in S
           /\ SubSeq(h, i, n + 1) = Append(SubSeq(h, i, n), h[n + 1])
<1>1. /\ Len(h) \in Nat /\ n \in Nat /\ n + 1 \in 1 .. Len(h) /\ i \in Nat /\ i \in Int /\ n \in Int /\ n + 1 \in Int
      /\ \A j \in i .. n : j \in 1 .. Len(h)
      /\ \A j \in i .. n + 1 : j \in 1 .. Len(h)
  OBVIOUS
<1>2. PICK k \in Nat : k = n - i + 1
  BY <1>1
<1>3. /\ SubSeq(h, i, n) \in Seq(S) /\ Len(SubSeq(h, i, n)) = k
      /\ \A j \in 1 .. k : SubSeq(h, i, n)[j] = h[i + j - 1]
  <2>1. \A j \in i .. n : h[j] \in S
    BY <1>1
  <2>2. SubSeq(h, i, n) \in Seq(S) /\ Len(SubSeq(h, i, n)) = IF i <= n THEN n - i + 1 ELSE 0
    BY <1>1, <2>1, SubSeqProperties
  <2>3. \A j \in 1 .. n - i + 1 : SubSeq(h, i, n)[j] = h[i + j - 1]
    BY <1>1, <2>1, SubSeqProperties
  <2> QED BY <1>1, <1>2, <2>2, <2>3
<1>4. /\ SubSeq(h, i, n + 1) \in Seq(S) /\ Len(SubSeq(h, i, n + 1)) = k + 1
      /\ \A j \in 1 .. k + 1 : SubSeq(h, i, n + 1)[j] = h[i + j - 1]
  <2>1. \A j \in i .. n + 1 : h[j] \in S
    BY <1>1
  <2>2. SubSeq(h, i, n + 1) \in Seq(S) /\ Len(SubSeq(h, i, n + 1)) = IF i <= n + 1 THEN (n + 1) - i + 1 ELSE 0
    BY <1>1, <2>1, SubSeqProperties
  <2>3. \A j \in 1 .. (n + 1) - i + 1 : SubSeq(h, i, n + 1)[j] = h[i + j - 1]
    BY <1>1, <2>1, SubSeqProperties
  <2> QED BY <1>1, <1>2, <2>2, <2>3
<1>5. PICK f \in Seq(S) : f = SubSeq(h, i, n)
  BY <1>3
<1>6. /\ Append(f, h[n + 1]) \in Seq(S) /\ Len(Append(f, h[n + 1])) = k + 1
      /\ \A j \in 1 .. k : Append(f, h[n + 1])[j] = h[i + j - 1]
      /\ Append(f, h[n + 1])[k + 1] = h[n + 1]
  BY <1>1, <1>3, <1>5, AppendProperties
<1>7. i + (k + 1) - 1 = n + 1
  BY <1>1, <1>2
<1>8. \A j \in 1 .. k + 1 : Append(f, h[n + 1])[j] = h[i + j - 1]
  BY <1>6, <1>7
<1>9. PICK s, t : s = SubSeq(h, i, n + 1) /\ t = Append(f, h[n + 1])
  OBVIOUS
<1>10. s \in Seq(S) /\ t \in Seq(S) /\ Len(s) = Len(t) /\ \A j \in 1 .. Len(s) : s[j] = t[j]
  BY <1>4, <1>6, <1>8, <1>9
<1>11. s = t
  BY <1>10, SeqEqual
<1> QED BY <1>1, <1>3, <1>5, <1>9, <1>11

\* A beginning of a history with one message more.
LEMMA PrefixGrows ==
    ASSUME NEW S, NEW h \in Seq(S), NEW n \in 0 .. Len(h) - 1
    PROVE  /\ SubSeq(h, 1, n) \in Seq(S) /\ h[n + 1] \in S
           /\ SubSeq(h, 1, n + 1) = Append(SubSeq(h, 1, n), h[n + 1])
<1>1. 1 \in 1 .. n + 1
  OBVIOUS
<1> QED BY <1>1, SliceGrows

\* What has been read up to n without an error is legal, but for the chain
\* that is open.
SoundAt(h, n) ==
    Reading(h)[n].legal =>
        \/ Reading(h)[n].pending = {} /\ Legal(SubSeq(h, 1, n))
        \/ \E k \in 1 .. n : /\ OpenChain(h, k, n, Reading(h)[n].pending)
                             /\ Legal(SubSeq(h, 1, k - 1))

\* So it is at every message.
LEMMA ReadingSound ==
    ASSUME NEW ids, NEW h \in Seq(AnyMessages(ids))
    PROVE  \A n \in 0 .. Len(h) : SoundAt(h, n)
<1> DEFINE P == {n \in 0 .. Len(h) : SoundAt(h, n)}
<1>1. Len(h) \in Nat
  OBVIOUS
<1>2. 0 \in P
  <2>1. SubSeq(h, 1, 0) = <<>>
    BY SubSeqEmpty
  <2>2. Legal(SubSeq(h, 1, 0))
    BY <2>1 DEF Legal
  <2> QED BY <1>1, <2>2, ReadingUnrolled DEF SoundAt, Start
<1>3. ASSUME NEW n \in 0 .. Len(h) - 1, SoundAt(h, n) PROVE SoundAt(h, n + 1)
  <2>1. PICK acc, m : acc = Reading(h)[n] /\ m = h[n + 1]
    OBVIOUS
  <2>2. n + 1 \in 1 .. Len(h) /\ (n + 1) - 1 = n /\ n \in 0 .. Len(h) /\ n + 1 \in 0 .. Len(h)
    BY <1>1
  <2>3. Reading(h)[n + 1] = Read(acc, m) /\ m \in AnyMessages(ids)
    BY <2>1, <2>2, ReadingUnrolled
  <2> SUFFICES ASSUME Read(acc, m).legal
               PROVE  \/ Read(acc, m).pending = {} /\ Legal(SubSeq(h, 1, n + 1))
                      \/ \E k \in 1 .. n + 1 : /\ OpenChain(h, k, n + 1, Read(acc, m).pending)
                                               /\ Legal(SubSeq(h, 1, k - 1))
    BY <2>3 DEF SoundAt
  <2>4. acc.legal
    BY DEF Read
  <2>5. CASE acc.pending = {}
    <3>1. Opens(m) /\ Read(acc, m).pending = ToSet(m.calls)
      BY <2>5 DEF Read
    <3>2. Legal(SubSeq(h, 1, n))
      BY <1>3, <2>1, <2>2, <2>4, <2>5, OpenIsPending DEF SoundAt
    <3>3. CASE m.calls = <<>>
      <4>1. m.answers = NoCall /\ ToSet(m.calls) = {}
        BY <3>1, <3>3 DEF Opens, ToSet
      <4>2. SubSeq(h, 1, n) \in Seq(AnyMessages(ids)) /\ SubSeq(h, 1, n + 1) = Append(SubSeq(h, 1, n), m)
        BY <2>1, PrefixGrows
      <4>3. Legal(SubSeq(h, 1, n + 1))
        BY <2>3, <3>2, <3>3, <4>1, <4>2, PlainAppended
      <4> QED BY <3>1, <4>1, <4>3
    <3>4. CASE m.calls # <<>>
      <4>1. OpenChain(h, n + 1, n + 1, ToSet(m.calls))
        BY <2>1, <2>2, <3>1, <3>4, ChainOpens
      <4> QED BY <2>2, <3>1, <3>2, <4>1
    <3> QED BY <3>3, <3>4
  <2>6. CASE acc.pending # {}
    <3>1. Answers(m, acc.pending) /\ Read(acc, m).pending = acc.pending \ {m.answers}
      BY <2>6 DEF Read
    <3>2. PICK k \in 1 .. n : OpenChain(h, k, n, acc.pending) /\ Legal(SubSeq(h, 1, k - 1))
      BY <1>3, <2>1, <2>4, <2>6 DEF SoundAt
    <3>3. k \in 1 .. n + 1
      BY <2>2
    <3>4. CASE OpenChain(h, k, n + 1, acc.pending \ {m.answers})
      BY <3>1, <3>2, <3>3, <3>4
    <3>5. CASE /\ acc.pending \ {m.answers} = {} /\ n + 1 = k + Len(h[k].calls)
               /\ h[k].calls # <<>> /\ Answered(SubSeq(h, 1, n + 1), k)
      <4>1. PICK g : g = SubSeq(h, 1, n + 1)
        OBVIOUS
      <4>2. /\ g \in Seq(AnyMessages(ids)) /\ Len(g) = n + 1
            /\ \A i \in 1 .. n + 1 : g[i] = h[i]
        BY <1>1, <2>2, <4>1, SubSeqProperties
      <4>3. /\ SubSeq(g, 1, k - 1) = SubSeq(h, 1, k - 1)
        <5>1. k - 1 \in 0 .. n /\ k - 1 <= Len(g) /\ k - 1 <= Len(h) /\ k - 1 \in Int
          BY <1>1, <2>2, <4>2
        <5>2. /\ SubSeq(g, 1, k - 1) \in Seq(AnyMessages(ids)) /\ Len(SubSeq(g, 1, k - 1)) = k - 1
              /\ \A i \in 1 .. k - 1 : SubSeq(g, 1, k - 1)[i] = g[i]
          BY <4>2, <5>1, SubSeqProperties
        <5>3. /\ SubSeq(h, 1, k - 1) \in Seq(AnyMessages(ids)) /\ Len(SubSeq(h, 1, k - 1)) = k - 1
              /\ \A i \in 1 .. k - 1 : SubSeq(h, 1, k - 1)[i] = h[i]
          BY <1>1, <5>1, SubSeqProperties
        <5>4. \A i \in 1 .. k - 1 : SubSeq(g, 1, k - 1)[i] = SubSeq(h, 1, k - 1)[i]
          BY <2>2, <4>2, <5>2, <5>3
        <5> QED BY <5>2, <5>3, <5>4, SeqEqual
      <4>4. g[k] = h[k] /\ k \in 1 .. Len(g)
        BY <3>3, <4>2
      <4>5. Legal(g)
        BY <3>2, <3>5, <4>1, <4>2, <4>3, <4>4, ChainAppended
      <4> QED BY <3>1, <3>5, <4>1, <4>5
    <3>6. Answers(h[n + 1], acc.pending)
      BY <2>1, <3>1
    <3>7. \/ OpenChain(h, k, n + 1, acc.pending \ {h[n + 1].answers})
          \/ /\ acc.pending \ {h[n + 1].answers} = {} /\ n + 1 = k + Len(h[k].calls)
             /\ h[k].calls # <<>> /\ Answered(SubSeq(h, 1, n + 1), k)
      BY <3>2, <3>6, ChainGoesOn
    <3> QED BY <2>1, <3>4, <3>5, <3>7
  <2> QED BY <2>5, <2>6
<1>4. \A n \in 0 .. Len(h) - 1 : n \in P => n + 1 \in P
  BY <1>1, <1>3
<1> HIDE DEF P
<1>5. \A n \in 0 .. Len(h) : n \in P
  BY <1>1, <1>2, <1>4, Induction
<1> QED BY <1>5 DEF P

\* The results of a complete chain answer different calls.
LEMMA DistinctAnswers ==
    ASSUME NEW ids, NEW h \in Seq(AnyMessages(ids)), NEW k \in 1 .. Len(h),
           h[k].calls # <<>>, Answered(h, k),
           NEW i \in k + 1 .. k + Len(h[k].calls), NEW j \in k + 1 .. k + Len(h[k].calls),
           h[i].answers = h[j].answers
    PROVE  i = j
<1>1. PICK calls, n : calls = h[k].calls /\ n = Len(calls)
  OBVIOUS
<1>2. h[k] \in AnyMessages(ids) /\ k \in Nat
  OBVIOUS
<1>3. calls \in Seq(ids)
  BY <1>1, <1>2 DEF AnyMessages
<1>4. IsInjective(calls) /\ {h[l].answers : l \in k + 1 .. k + n} = ToSet(calls)
  BY <1>1 DEF Answered
<1>5. Cardinality(ToSet(calls)) = n /\ n \in Nat
  BY <1>1, <1>3, <1>4, DistinctCalls
<1>6. IsFiniteSet(k + 1 .. k + n) /\ Cardinality(k + 1 .. k + n) = n
  <2>1. k + 1 \in Int /\ k + n \in Int
    BY <1>2, <1>5
  <2>2. Cardinality(k + 1 .. k + n) = IF k + 1 > k + n THEN 0 ELSE (k + n) - (k + 1) + 1
    BY <2>1, FS_Interval
  <2>3. IsFiniteSet(k + 1 .. k + n)
    BY <2>1, FS_Interval
  <2> QED BY <1>2, <1>5, <2>2, <2>3
<1>7. PICK D, f : D = k + 1 .. k + n /\ f = [l \in D |-> h[l].answers]
  OBVIOUS
<1>8. f \in Surjection(D, ToSet(calls))
  BY <1>4, <1>7 DEF Surjection
<1>9. f \in Injection(D, ToSet(calls))
  BY <1>5, <1>6, <1>7, <1>8, FS_SurjSameCardinalityImpliesInj
<1>10. i \in D /\ j \in D /\ f[i] = f[j] /\ DOMAIN f = D
  BY <1>1, <1>7
<1> QED BY <1>9, <1>10 DEF Injection, IsInjective

\* Of a legal history all is read without an error; a chain is open at n only
\* while its results are being read.
CompleteAt(h, n) ==
    /\ Reading(h)[n].legal
    /\ \/ /\ Reading(h)[n].pending = {}
          /\ \A k \in 1 .. n : k + Len(h[k].calls) <= n
       \/ \E k \in 1 .. n : /\ OpenChain(h, k, n, Reading(h)[n].pending)
                            /\ \A l \in 1 .. k - 1 : l + Len(h[l].calls) < k

\* So it is at every message.
LEMMA ReadingComplete ==
    ASSUME NEW ids, NEW h \in Seq(AnyMessages(ids)), Legal(h)
    PROVE  \A n \in 0 .. Len(h) : CompleteAt(h, n)
<1> DEFINE P == {n \in 0 .. Len(h) : CompleteAt(h, n)}
<1>1. Len(h) \in Nat /\ \A i \in 1 .. Len(h) : Len(h[i].calls) \in Nat
  <2>1. \A i \in 1 .. Len(h) : h[i] \in AnyMessages(ids)
    OBVIOUS
  <2>2. \A m \in AnyMessages(ids) : m.calls \in Seq(ids)
    BY DEF AnyMessages
  <2> QED BY <2>1, <2>2
<1>2. 0 \in P
  BY <1>1, ReadingUnrolled DEF CompleteAt, Start
<1>3. ASSUME NEW n \in 0 .. Len(h) - 1, CompleteAt(h, n) PROVE CompleteAt(h, n + 1)
  <2>1. PICK acc, m : acc = Reading(h)[n] /\ m = h[n + 1]
    OBVIOUS
  <2>2. /\ n + 1 \in 1 .. Len(h) /\ (n + 1) - 1 = n /\ n \in 0 .. Len(h) /\ n + 1 \in 0 .. Len(h)
        /\ n \in Nat
    BY <1>1
  <2>3. Reading(h)[n + 1] = Read(acc, m) /\ m \in AnyMessages(ids)
    BY <2>1, <2>2, ReadingUnrolled
  <2>4. Answered(h, n + 1) /\ Wanted(h, n + 1) /\ acc.legal
    BY <1>3, <2>1, <2>2 DEF Legal, CompleteAt
  <2>5. CASE acc.pending = {}
    <3>1. \A k \in 1 .. n : k + Len(h[k].calls) <= n
      BY <1>3, <2>1, <2>2, <2>5, OpenIsPending DEF CompleteAt
    <3>2. m.answers = NoCall
      <4>1. ~ \E k \in 1 .. (n + 1) - 1 : n + 1 <= k + Len(h[k].calls)
        BY <1>1, <2>2, <3>1
      <4> QED BY <2>1, <2>4, <4>1 DEF Wanted
    <3>3. Opens(m)
      BY <2>1, <2>4, <3>2 DEF Opens, Answered
    <3>4. Read(acc, m).legal /\ Read(acc, m).pending = ToSet(m.calls)
      BY <2>4, <2>5, <3>3 DEF Read
    <3>5. CASE m.calls = <<>>
      <4>1. ToSet(m.calls) = {} /\ Len(h[n + 1].calls) = 0
        BY <2>1, <3>5 DEF ToSet
      <4>2. \A k \in 1 .. n + 1 : k + Len(h[k].calls) <= n + 1
        <5> TAKE k \in 1 .. n + 1
        <5>1. k \in 1 .. n \/ k = n + 1
          BY <2>2
        <5> QED BY <1>1, <2>2, <3>1, <4>1, <5>1
      <4> QED BY <2>3, <3>4, <4>1, <4>2 DEF CompleteAt
    <3>6. CASE m.calls # <<>>
      <4>1. OpenChain(h, n + 1, n + 1, ToSet(m.calls))
        BY <2>1, <2>2, <3>3, <3>6, ChainOpens
      <4>2. \A l \in 1 .. (n + 1) - 1 : l + Len(h[l].calls) < n + 1
        BY <1>1, <2>2, <3>1
      <4> QED BY <2>2, <2>3, <3>4, <4>1, <4>2 DEF CompleteAt
    <3> QED BY <3>5, <3>6
  <2>6. CASE acc.pending # {}
    <3>1. PICK k \in 1 .. n : /\ OpenChain(h, k, n, acc.pending)
                              /\ \A l \in 1 .. k - 1 : l + Len(h[l].calls) < k
      BY <1>3, <2>1, <2>6 DEF CompleteAt
    <3>2. PICK calls, N : calls = h[k].calls /\ N = Len(calls)
      OBVIOUS
    <3>3. /\ calls # <<>> /\ n < k + N /\ N \in Nat /\ k \in 1 .. Len(h) /\ k \in Nat
          /\ acc.pending = ToSet(calls) \ {h[j].answers : j \in k + 1 .. n}
      BY <1>1, <2>2, <3>1, <3>2 DEF OpenChain
    <3>4. n + 1 \in k + 1 .. k + N /\ \A j \in k + 1 .. n : j \in k + 1 .. k + N /\ j # n + 1
      BY <2>2, <3>3
    <3>5. Answered(h, k)
      BY <3>3 DEF Legal
    <3>6. \A j \in k + 1 .. n : h[j].answers # m.answers
      BY <2>1, <3>2, <3>3, <3>4, <3>5, DistinctAnswers
    <3>7. /\ {h[j].answers : j \in k + 1 .. k + N} = ToSet(calls)
          /\ \A j \in k + 1 .. k + N : Role(h[j]) = "user" /\ h[j].calls = <<>>
      BY <3>2, <3>3, <3>5 DEF Answered
    <3>8. Answers(m, acc.pending)
      BY <2>1, <3>3, <3>4, <3>6, <3>7 DEF Answers
    <3>9. Read(acc, m).legal /\ Read(acc, m).pending = acc.pending \ {m.answers}
      BY <2>4, <2>6, <3>8 DEF Read
    <3>10. CASE OpenChain(h, k, n + 1, acc.pending \ {h[n + 1].answers})
      <4>1. k \in 1 .. n + 1
        BY <2>2
      <4> QED BY <2>1, <2>3, <3>1, <3>9, <3>10, <4>1 DEF CompleteAt
    <3>11. CASE acc.pending \ {h[n + 1].answers} = {} /\ n + 1 = k + Len(h[k].calls)
      <4>1. \A l \in 1 .. n + 1 : l + Len(h[l].calls) <= n + 1
        <5> TAKE l \in 1 .. n + 1
        <5>1. l \in 1 .. Len(h) /\ Len(h[l].calls) \in Nat
          BY <1>1, <2>2
        <5>2. CASE l \in 1 .. k - 1
          BY <2>2, <3>1, <3>3, <5>1, <5>2
        <5>3. CASE l = k
          BY <2>2, <3>11, <5>3
        <5>4. CASE l \in k + 1 .. n + 1
          <6>1. l \in k + 1 .. k + N
            BY <3>2, <3>11, <5>4
          <6>2. Len(h[l].calls) = 0
            BY <3>7, <6>1
          <6> QED BY <2>2, <6>2
        <5> QED BY <2>2, <3>3, <5>2, <5>3, <5>4
      <4> QED BY <2>1, <2>3, <3>9, <3>11, <4>1 DEF CompleteAt
    <3>12. Answers(h[n + 1], acc.pending)
      BY <2>1, <3>8
    <3>13. \/ OpenChain(h, k, n + 1, acc.pending \ {h[n + 1].answers})
           \/ acc.pending \ {h[n + 1].answers} = {} /\ n + 1 = k + Len(h[k].calls)
      BY <3>1, <3>12, ChainGoesOn
    <3> QED BY <3>10, <3>11, <3>13
  <2> QED BY <2>5, <2>6
<1>4. \A n \in 0 .. Len(h) - 1 : n \in P => n + 1 \in P
  BY <1>1, <1>3
<1> HIDE DEF P
<1>5. \A n \in 0 .. Len(h) : n \in P
  BY <1>1, <1>2, <1>4, Induction
<1> QED BY <1>5 DEF P

\* units accepts exactly the legal histories.
LEMMA UnitsAcceptLegal ==
    ASSUME NEW ids, NEW h \in Seq(AnyMessages(ids))
    PROVE  Units(h).legal = Legal(h)
<1>1. PICK n \in Nat : n = Len(h)
  OBVIOUS
<1>2. n \in 0 .. n /\ SubSeq(h, 1, n) = h
  BY <1>1, SubSeqFull
<1>3. SoundAt(h, n)
  BY <1>1, <1>2, ReadingSound
<1>4. Legal(h) => CompleteAt(h, n)
  BY <1>1, <1>2, ReadingComplete
<1>5. PICK acc : acc = Reading(h)[n]
  OBVIOUS
<1>6. acc.legal \in BOOLEAN
  <2>1. acc \in Accs(ids)
    BY <1>1, <1>2, <1>5, ReadingUnrolled
  <2> QED BY <2>1 DEF Accs
<1>7. acc.legal /\ acc.pending = {} => Legal(h)
  BY <1>1, <1>2, <1>3, <1>5, OpenIsPending DEF SoundAt
<1>8. Legal(h) => acc.legal /\ acc.pending = {}
  <2> SUFFICES ASSUME Legal(h) PROVE acc.legal /\ acc.pending = {}
    OBVIOUS
  <2>1. CompleteAt(h, n)
    BY <1>4
  <2>2. ASSUME NEW k \in 1 .. n, OpenChain(h, k, n, acc.pending) PROVE FALSE
    <3>1. h[k].calls # <<>> /\ n < k + Len(h[k].calls)
      BY <2>2 DEF OpenChain
    <3>2. Answered(h, k)
      BY <1>1 DEF Legal
    <3>3. k + Len(h[k].calls) <= n
      BY <1>1, <3>1, <3>2 DEF Answered
    <3>4. Len(h[k].calls) \in Nat
      BY <1>1, <1>2, <2>2, OpenIsPending
    <3> QED BY <1>1, <3>1, <3>3, <3>4
  <2> QED BY <1>5, <2>1, <2>2 DEF CompleteAt
<1>9. Units(h).legal = (acc.legal /\ acc.pending = {})
  BY <1>1, <1>5 DEF Units
<1>10. Legal(h) \in BOOLEAN
  BY DEF Legal
<1>11. (acc.legal /\ acc.pending = {}) <=> Legal(h)
  BY <1>7, <1>8
<1> QED BY <1>6, <1>9, <1>10, <1>11

-----------------------------------------------------------------------------
(* How units cuts the history.                                              *)

\* Where the group that begins at b[i] ends.
EndOf(b, n, i) == IF i = Len(b) THEN n ELSE b[i + 1] - 1

\* The groups are the parts of the first n messages that begin at b.
Cuts(h, n, groups, b) ==
    /\ b \in Seq(1 .. n) /\ Len(b) = Len(groups)
    /\ n > 0 => b # <<>> /\ b[1] = 1
    /\ \A i, j \in 1 .. Len(b) : i < j => b[i] < b[j]
    /\ \A i \in 1 .. Len(b) : groups[i] = SubSeq(h, b[i], EndOf(b, n, i))

\* A message that begins a group.
LEMMA CutBefore ==
    ASSUME NEW ids, NEW h \in Seq(AnyMessages(ids)), NEW n \in 0 .. Len(h) - 1,
           NEW groups \in GroupsOf(ids), NEW b, Cuts(h, n, groups, b)
    PROVE  Cuts(h, n + 1, Append(groups, <<h[n + 1]>>), Append(b, n + 1))
<1>1. PICK m, c, more, g : /\ m = h[n + 1] /\ c = Append(b, n + 1)
                           /\ more = Append(groups, <<m>>) /\ g = Len(groups)
  OBVIOUS
<1>2. n \in Nat /\ n + 1 \in 1 .. Len(h) /\ m \in AnyMessages(ids) /\ Len(h) \in Nat
  BY <1>1
<1>3. /\ more \in GroupsOf(ids) /\ g \in Nat /\ Len(more) = g + 1
      /\ \A i \in 1 .. g : more[i] = groups[i]
      /\ more[g + 1] = <<m>>
  BY <1>1, <1>2, OneMoreGroup
<1>4. /\ b \in Seq(1 .. n) /\ Len(b) = g
      /\ n > 0 => b # <<>> /\ b[1] = 1
      /\ \A i, j \in 1 .. g : i < j => b[i] < b[j]
      /\ \A i \in 1 .. g : groups[i] = SubSeq(h, b[i], EndOf(b, n, i))
  BY <1>1 DEF Cuts
<1>5. \A i \in 1 .. g : b[i] \in 1 .. n
  BY <1>4
<1>6. /\ c \in Seq(1 .. n + 1) /\ Len(c) = g + 1 /\ c[g + 1] = n + 1
      /\ \A i \in 1 .. g : c[i] = b[i]
  <2>1. b \in Seq(1 .. n + 1) /\ n + 1 \in 1 .. n + 1
    BY <1>2, <1>4, SeqMonotonic
  <2> QED BY <1>1, <1>4, <2>1, AppendProperties
<1>7. c # <<>> /\ c[1] = 1
  <2>3. c # <<>>
    BY <1>3, <1>6
  <2>1. CASE n = 0
    <3>1. g = 0
      BY <1>3, <1>5, <2>1
    <3>2. g + 1 = 1 /\ n + 1 = 1
      BY <2>1, <3>1
    <3>3. c[1] = 1
      BY <1>6, <3>2
    <3> QED BY <2>3, <3>3
  <2>2. CASE n # 0
    <3>1. g # 0
      BY <1>2, <1>4, <2>2
    <3> QED BY <1>2, <1>3, <1>4, <1>6, <2>2, <3>1
  <2> QED BY <2>1, <2>2, <2>3
<1>8. \A i, j \in 1 .. g + 1 : i < j => c[i] < c[j]
  <2> TAKE i, j \in 1 .. g + 1
  <2> HAVE i < j
  <2>1. i \in 1 .. g /\ (j \in 1 .. g \/ j = g + 1)
    BY <1>3
  <2> QED BY <1>2, <1>4, <1>5, <1>6, <2>1
<1>9. \A i \in 1 .. g + 1 : more[i] = SubSeq(h, c[i], EndOf(c, n + 1, i))
  <2> TAKE i \in 1 .. g + 1
  <2>1. CASE i = g + 1
    <3>1. SubSeq(h, n + 1, n + 1) = Append(SubSeq(h, n + 1, n), m)
      BY <1>1, <1>2, SliceGrows
    <3>2. SubSeq(h, n + 1, n) = <<>>
      BY <1>2, SubSeqEmpty
    <3>3. SubSeq(h, n + 1, n + 1) = <<m>>
      <4>1. <<>> \in Seq(AnyMessages(ids)) /\ <<m>> \in Seq(AnyMessages(ids))
        BY <1>2
      <4>2. Append(<<>>, m) = <<>> \o <<m>>
        BY <1>2, <4>1, AppendIsConcat
      <4>3. <<>> \o <<m>> = <<m>>
        BY <4>1, ConcatEmptySeq
      <4> QED BY <3>1, <3>2, <4>2, <4>3, Zenon
    <3> QED BY <1>3, <1>6, <2>1, <3>3 DEF EndOf
  <2>2. CASE i \in 1 .. g
    <3>1. EndOf(c, n + 1, i) = EndOf(b, n, i)
      <4>1. CASE i = g
        BY <1>2, <1>3, <1>4, <1>6, <2>2, <4>1 DEF EndOf
      <4>2. CASE i # g
        <5>1. i + 1 \in 1 .. g /\ i # g + 1
          BY <1>3, <2>2, <4>2
        <5> QED BY <1>4, <1>6, <4>2, <5>1 DEF EndOf
      <4> QED BY <4>1, <4>2
    <3> QED BY <1>3, <1>4, <1>6, <2>2, <3>1
  <2> QED BY <1>3, <2>1, <2>2
<1>10. Cuts(h, n + 1, more, c)
  BY <1>3, <1>6, <1>7, <1>8, <1>9 DEF Cuts
<1> QED BY <1>1, <1>10

\* A message that is added to the last group.
LEMMA NotCut ==
    ASSUME NEW ids, NEW h \in Seq(AnyMessages(ids)), NEW n \in 0 .. Len(h) - 1,
           NEW groups \in GroupsOf(ids), groups # <<>>, NEW b, Cuts(h, n, groups, b)
    PROVE  Cuts(h, n + 1, ToLastGroup(groups, h[n + 1]), b)
<1>1. PICK m, more, g : /\ m = h[n + 1] /\ more = ToLastGroup(groups, m) /\ g = Len(groups)
  OBVIOUS
<1>2. n \in Nat /\ n + 1 \in 1 .. Len(h) /\ m \in AnyMessages(ids) /\ Len(h) \in Nat
  BY <1>1
<1>3. /\ more \in GroupsOf(ids) /\ g \in Nat /\ g >= 1 /\ Len(more) = g
      /\ \A i \in 1 .. g - 1 : more[i] = groups[i]
      /\ more[g] = Append(groups[g], m)
  BY <1>1, <1>2, LastGroup
<1>4. /\ b \in Seq(1 .. n) /\ Len(b) = g
      /\ n > 0 => b # <<>> /\ b[1] = 1
      /\ \A i, j \in 1 .. g : i < j => b[i] < b[j]
      /\ \A i \in 1 .. g : groups[i] = SubSeq(h, b[i], EndOf(b, n, i))
  BY <1>1 DEF Cuts
<1>5. \A i \in 1 .. g : b[i] \in 1 .. n
  BY <1>4
<1>6. n > 0 /\ b \in Seq(1 .. n + 1)
  <2>1. b[g] \in 1 .. n
    BY <1>3, <1>5
  <2>2. b \in Seq(1 .. n + 1)
    BY <1>2, <1>4, SeqMonotonic
  <2> QED BY <1>2, <2>1, <2>2
<1>7. \A i \in 1 .. g : more[i] = SubSeq(h, b[i], EndOf(b, n + 1, i))
  <2> TAKE i \in 1 .. g
  <2>1. CASE i = g
    <3>1. groups[g] = SubSeq(h, b[g], n) /\ EndOf(b, n + 1, g) = n + 1
      BY <1>3, <1>4 DEF EndOf
    <3>2. b[g] \in 1 .. n + 1
      BY <1>2, <1>3, <1>5
    <3>3. SubSeq(h, b[g], n + 1) = Append(SubSeq(h, b[g], n), m)
      BY <1>1, <3>2, SliceGrows
    <3> QED BY <1>3, <2>1, <3>1, <3>3
  <2>2. CASE i # g
    <3>1. i \in 1 .. g - 1 /\ EndOf(b, n + 1, i) = EndOf(b, n, i)
      BY <1>3, <1>4, <2>2 DEF EndOf
    <3> QED BY <1>3, <1>4, <3>1
  <2> QED BY <2>1, <2>2
<1>8. Cuts(h, n + 1, more, b)
  BY <1>3, <1>4, <1>6, <1>7 DEF Cuts
<1> QED BY <1>1, <1>8

\* At every message units has cut what it read; without an error it has cut
\* exactly where a view may begin.
CutAt(h, n) ==
    \E b : /\ Cuts(h, n, Reading(h)[n].groups, b)
           /\ Reading(h)[n].legal => ToSet(b) = Beginnings(h) \cap (1 .. n)

\* So it is at every message.
LEMMA ReadingCuts ==
    ASSUME NEW ids, NEW h \in Seq(AnyMessages(ids))
    PROVE  \A n \in 0 .. Len(h) : CutAt(h, n)
<1> DEFINE P == {n \in 0 .. Len(h) : CutAt(h, n)}
<1>1. Len(h) \in Nat
  OBVIOUS
<1>2. 0 \in P
  <2>1. Reading(h)[0].groups = <<>>
    BY ReadingUnrolled DEF Start
  <2>2. Cuts(h, 0, <<>>, <<>>) /\ ToSet(<<>>) = Beginnings(h) \cap (1 .. 0)
    BY DEF Cuts, ToSet
  <2> QED BY <1>1, <2>1, <2>2 DEF CutAt
<1>3. ASSUME NEW n \in 0 .. Len(h) - 1, CutAt(h, n) PROVE CutAt(h, n + 1)
  <2>1. PICK acc, m : acc = Reading(h)[n] /\ m = h[n + 1]
    OBVIOUS
  <2>2. /\ n + 1 \in 1 .. Len(h) /\ (n + 1) - 1 = n /\ n \in 0 .. Len(h) /\ n + 1 \in 0 .. Len(h)
        /\ n \in Nat
    BY <1>1
  <2>3. Reading(h)[n + 1] = Read(acc, m) /\ m \in AnyMessages(ids) /\ acc \in Accs(ids)
    BY <2>1, <2>2, ReadingUnrolled
  <2>4. PICK b : /\ Cuts(h, n, acc.groups, b)
                 /\ acc.legal => ToSet(b) = Beginnings(h) \cap (1 .. n)
    BY <1>3, <2>1 DEF CutAt
  <2>5. acc.groups \in GroupsOf(ids) /\ (acc.pending # {} => acc.groups # <<>>)
    BY <2>3 DEF Accs
  <2>6. b \in Seq(1 .. n) /\ Len(b) = Len(acc.groups) /\ (n > 0 => b # <<>>)
    BY <2>4 DEF Cuts
  <2>7. Read(acc, m).legal => acc.legal
    BY DEF Read
  <2>8. acc.groups = <<>> => n = 0
    BY <2>2, <2>6
  <2>9. acc.groups # <<>> => n + 1 # 1
    <3>1. acc.groups # <<>> => Len(acc.groups) # 0
      BY <2>5 DEF GroupsOf
    <3>2. n = 0 => Len(b) = 0
      <4>1. n = 0 => 1 .. n = {}
        OBVIOUS
      <4>2. Len(b) \in Nat /\ \A i \in 1 .. Len(b) : b[i] \in 1 .. n
        BY <2>6
      <4>3. n = 0 /\ Len(b) # 0 => 1 \in 1 .. Len(b)
        BY <4>2
      <4> QED BY <4>1, <4>2, <4>3
    <3> QED BY <2>2, <2>6, <3>1, <3>2
  <2>10. ASSUME acc.pending # {}, Read(acc, m).legal PROVE m.answers # NoCall
    <3>1. m.answers \in acc.pending
      BY <2>10 DEF Read, Answers
    <3>2. SoundAt(h, n) /\ acc.legal
      BY <2>2, <2>7, <2>10, ReadingSound
    <3>3. PICK k \in 1 .. n : OpenChain(h, k, n, acc.pending)
      BY <2>1, <2>10, <3>2 DEF SoundAt
    <3> QED BY <3>1, <3>3 DEF OpenChain
  <2>11. ASSUME acc.pending = {}, Read(acc, m).legal PROVE m.answers = NoCall
    BY <2>11 DEF Read, Opens
  <2>12. CASE acc.pending = {} /\ (Role(m) = "user" \/ acc.groups = <<>>)
    <3>1. Read(acc, m).groups = Append(acc.groups, <<m>>)
      BY <2>12 DEF Read
    <3>2. Cuts(h, n + 1, Append(acc.groups, <<m>>), Append(b, n + 1))
      BY <2>1, <2>4, <2>5, CutBefore
    <3>3. ToSet(Append(b, n + 1)) = ToSet(b) \cup {n + 1}
      <4>1. b \in Seq(1 .. n + 1) /\ n + 1 \in 1 .. n + 1 /\ Len(b) \in Nat /\ DOMAIN b = 1 .. Len(b)
        BY <2>2, <2>6, SeqMonotonic
      <4>2. PICK c : c = Append(b, n + 1)
        OBVIOUS
      <4>3. /\ c \in Seq(1 .. n + 1) /\ Len(c) = Len(b) + 1 /\ c[Len(b) + 1] = n + 1
            /\ \A i \in 1 .. Len(b) : c[i] = b[i]
        BY <4>1, <4>2, AppendProperties
      <4>4. DOMAIN c = 1 .. Len(b) + 1
        BY <4>3
      <4>5. \A i \in DOMAIN c : i \in DOMAIN b \/ i = Len(b) + 1
        BY <4>1, <4>4
      <4>6. \A i \in DOMAIN b : i \in DOMAIN c /\ c[i] = b[i]
        BY <4>1, <4>3, <4>4
      <4>7. Len(b) + 1 \in DOMAIN c
        BY <4>1, <4>4
      <4> QED BY <4>2, <4>3, <4>5, <4>6, <4>7 DEF ToSet
    <3>4. Read(acc, m).legal => n + 1 \in Beginnings(h)
      BY <2>1, <2>2, <2>8, <2>11, <2>12 DEF Beginnings
    <3>5. \A i \in 1 .. n + 1 : i \in 1 .. n \/ i = n + 1
      BY <2>2
    <3>6. \A i \in 1 .. n : i \in 1 .. n + 1
      BY <2>2
    <3>7. n + 1 \in 1 .. n + 1
      BY <2>2
    <3>8. Read(acc, m).legal => ToSet(Append(b, n + 1)) = Beginnings(h) \cap (1 .. n + 1)
      BY <2>4, <2>7, <3>3, <3>4, <3>5, <3>6, <3>7, Zenon
    <3> QED BY <2>3, <3>1, <3>2, <3>8 DEF CutAt
  <2>13. CASE ~(acc.pending = {} /\ (Role(m) = "user" \/ acc.groups = <<>>))
    <3>1. Read(acc, m).groups = ToLastGroup(acc.groups, m) /\ acc.groups # <<>>
      BY <2>5, <2>13 DEF Read
    <3>2. Cuts(h, n + 1, ToLastGroup(acc.groups, m), b)
      BY <2>1, <2>4, <2>5, <3>1, NotCut
    <3>4. Read(acc, m).legal => n + 1 \notin Beginnings(h)
      BY <2>1, <2>9, <2>10, <2>13, <3>1 DEF Beginnings
    <3>5. \A i \in 1 .. n + 1 : i \in 1 .. n \/ i = n + 1
      BY <2>2
    <3>6. \A i \in 1 .. n : i \in 1 .. n + 1
      BY <2>2
    <3>7. Read(acc, m).legal => ToSet(b) = Beginnings(h) \cap (1 .. n + 1)
      BY <2>4, <2>7, <3>4, <3>5, <3>6
    <3> QED BY <2>3, <3>1, <3>2, <3>7 DEF CutAt
  <2> QED BY <2>12, <2>13
<1>4. \A n \in 0 .. Len(h) - 1 : n \in P => n + 1 \in P
  BY <1>1, <1>3
<1> HIDE DEF P
<1>5. \A n \in 0 .. Len(h) : n \in P
  BY <1>1, <1>2, <1>4, Induction
<1> QED BY <1>5 DEF P

-----------------------------------------------------------------------------
(* Estimates.                                                               *)

\* sum holds the estimates of the beginnings of s.
Sums(sum, s) ==
    /\ sum \in [0 .. Len(s) -> Nat] /\ sum[0] = 0
    /\ \A i \in 1 .. Len(s) : sum[i] = sum[i - 1] + s[i].tokens

\* EstimateMessages is what its definition says: the sum of the tokens.
LEMMA EstimateUnrolled ==
    ASSUME NEW ids, NEW s \in Seq(AnyMessages(ids))
    PROVE  \E sum : Sums(sum, s) /\ EstimateMessages(s) = sum[Len(s)]
<1>1. PICK n \in Nat : n = Len(s)
  OBVIOUS
<1>2. \A i \in 1 .. n : s[i].tokens \in Nat
  <2>1. \A i \in 1 .. n : s[i] \in AnyMessages(ids)
    BY <1>1
  <2> QED BY <2>1 DEF AnyMessages
<1>3. PICK step : step = [x \in (1 .. n) \X Nat |-> x[2] + s[x[1]].tokens]
  OBVIOUS
<1>4. step \in [(1 .. n) \X Nat -> Nat]
  BY <1>2, <1>3
<1>5. PICK f : Follows(f, Nat, n, 0, step)
  BY <1>4, Recursion
<1>6. f \in [0 .. n -> Nat] /\ f[0] = 0 /\ \A i \in 1 .. n : f[i] = f[i - 1] + s[i].tokens
  <2>1. f \in [0 .. n -> Nat] /\ f[0] = 0
    BY <1>5 DEF Follows
  <2>2. \A i \in 1 .. n : f[i] = f[i - 1] + s[i].tokens
    <3> TAKE i \in 1 .. n
    <3>1. f[i - 1] \in Nat
      BY <2>1
    <3>2. <<i, f[i - 1]>> \in (1 .. n) \X Nat
      BY <3>1
    <3> QED BY <1>3, <1>5, <3>2 DEF Follows
  <2> QED BY <2>1, <2>2
<1>7. f = [i \in 0 .. n |-> IF i = 0 THEN 0 ELSE f[i - 1] + s[i].tokens]
  <2>1. \A i \in 0 .. n : f[i] = IF i = 0 THEN 0 ELSE f[i - 1] + s[i].tokens
    BY <1>6
  <2>2. f = [i \in 0 .. n |-> f[i]]
    BY <1>6
  <2>3. PICK e : e = [i \in 0 .. n |-> IF i = 0 THEN 0 ELSE f[i - 1] + s[i].tokens]
    OBVIOUS
  <2> QED BY <2>1, <2>2, <2>3
<1>8. PICK r : r = CHOOSE sum : sum = [i \in 0 .. n |-> IF i = 0 THEN 0 ELSE sum[i - 1] + s[i].tokens]
  OBVIOUS
<1>9. r = [i \in 0 .. n |-> IF i = 0 THEN 0 ELSE r[i - 1] + s[i].tokens]
  BY <1>7, <1>8
<1>10. EstimateMessages(s) = r[n]
  BY <1>1, <1>8 DEF EstimateMessages
<1>11. r[0] = 0 /\ \A i \in 1 .. n : r[i] = r[i - 1] + s[i].tokens
  BY <1>9
<1>12. \A i \in 0 .. n : r[i] \in Nat
  <2> DEFINE P == {i \in 0 .. n : r[i] \in Nat}
  <2>1. 0 \in P
    BY <1>11
  <2>2. \A i \in 0 .. n - 1 : i \in P => i + 1 \in P
    <3> TAKE i \in 0 .. n - 1
    <3> HAVE i \in P
    <3>1. i + 1 \in 1 .. n /\ i + 1 \in 0 .. n /\ (i + 1) - 1 = i
      OBVIOUS
    <3>2. r[i + 1] = r[i] + s[i + 1].tokens
      BY <1>11, <3>1
    <3> QED BY <1>2, <3>1, <3>2
  <2> HIDE DEF P
  <2>3. \A i \in 0 .. n : i \in P
    BY <2>1, <2>2, Induction
  <2> QED BY <2>3 DEF P
<1>13. r \in [0 .. n -> Nat]
  BY <1>9, <1>12
<1> QED BY <1>1, <1>10, <1>11, <1>13 DEF Sums

\* Nothing is estimated at nothing.
LEMMA EstimateOfNone == EstimateMessages(<<>>) = 0
<1>1. <<>> \in Seq(AnyMessages({})) /\ Len(<<>>) = 0
  OBVIOUS
<1>2. PICK sum : Sums(sum, <<>>) /\ EstimateMessages(<<>>) = sum[Len(<<>>)]
  BY <1>1, EstimateUnrolled
<1> QED BY <1>1, <1>2 DEF Sums

\* The estimate of two parts is the sum of theirs.
LEMMA EstimateOfParts ==
    ASSUME NEW ids, NEW s \in Seq(AnyMessages(ids)), NEW t \in Seq(AnyMessages(ids))
    PROVE  /\ EstimateMessages(s) \in Nat /\ EstimateMessages(t) \in Nat
           /\ EstimateMessages(s \o t) = EstimateMessages(s) + EstimateMessages(t)
<1>1. PICK m, n \in Nat : m = Len(s) /\ n = Len(t)
  OBVIOUS
<1>2. PICK c \in Seq(AnyMessages(ids)) : c = s \o t
  BY ConcatProperties
<1>3. /\ Len(c) = m + n /\ \A i \in 1 .. m : c[i] = s[i]
      /\ \A i \in 1 .. n : c[m + i] = t[i]
  <2>1. Len(c) = m + n /\ \A i \in 1 .. m + n : c[i] = IF i <= m THEN s[i] ELSE t[i - m]
    BY <1>1, <1>2, ConcatProperties
  <2>2. \A i \in 1 .. n : m + i \in 1 .. m + n /\ ~(m + i <= m) /\ (m + i) - m = i
    BY <1>1
  <2>3. \A i \in 1 .. m : i \in 1 .. m + n /\ i <= m
    BY <1>1
  <2> QED BY <2>1, <2>2, <2>3
<1>4. PICK f : Sums(f, s) /\ EstimateMessages(s) = f[m]
  BY <1>1, EstimateUnrolled
<1>5. PICK g : Sums(g, t) /\ EstimateMessages(t) = g[n]
  BY <1>1, EstimateUnrolled
<1>6. PICK e : Sums(e, c) /\ EstimateMessages(c) = e[m + n]
  BY <1>2, <1>3, EstimateUnrolled
<1>7. /\ f \in [0 .. m -> Nat] /\ f[0] = 0 /\ \A i \in 1 .. m : f[i] = f[i - 1] + s[i].tokens
      /\ g \in [0 .. n -> Nat] /\ g[0] = 0 /\ \A i \in 1 .. n : g[i] = g[i - 1] + t[i].tokens
      /\ e \in [0 .. m + n -> Nat] /\ e[0] = 0
      /\ \A i \in 1 .. m + n : e[i] = e[i - 1] + c[i].tokens
  BY <1>1, <1>3, <1>4, <1>5, <1>6 DEF Sums
<1>8. \A i \in 0 .. m : e[i] = f[i]
  <2> DEFINE P == {i \in 0 .. m : e[i] = f[i]}
  <2>1. 0 \in P
    BY <1>7
  <2>2. \A i \in 0 .. m - 1 : i \in P => i + 1 \in P
    <3> TAKE i \in 0 .. m - 1
    <3> HAVE i \in P
    <3>1. i + 1 \in 1 .. m /\ i + 1 \in 0 .. m /\ i + 1 \in 1 .. m + n /\ (i + 1) - 1 = i
      OBVIOUS
    <3>2. e[i + 1] = e[i] + s[i + 1].tokens /\ f[i + 1] = f[i] + s[i + 1].tokens
      BY <1>3, <1>7, <3>1
    <3> QED BY <3>1, <3>2
  <2> HIDE DEF P
  <2>3. \A i \in 0 .. m : i \in P
    BY <2>1, <2>2, Induction
  <2> QED BY <2>3 DEF P
<1>9. \A i \in 0 .. n : e[m + i] = f[m] + g[i]
  <2> DEFINE P == {i \in 0 .. n : e[m + i] = f[m] + g[i]}
  <2>1. 0 \in P
    BY <1>7, <1>8
  <2>2. \A i \in 0 .. n - 1 : i \in P => i + 1 \in P
    <3> TAKE i \in 0 .. n - 1
    <3> HAVE i \in P
    <3>1. i + 1 \in 1 .. n /\ i + 1 \in 0 .. n /\ m + (i + 1) \in 1 .. m + n /\ (i + 1) - 1 = i
          /\ (m + (i + 1)) - 1 = m + i
      OBVIOUS
    <3>2. e[m + (i + 1)] = e[m + i] + t[i + 1].tokens /\ g[i + 1] = g[i] + t[i + 1].tokens
      BY <1>3, <1>7, <3>1
    <3>3. t[i + 1].tokens \in Nat /\ f[m] \in Nat /\ g[i] \in Nat
      <4>1. t[i + 1] \in AnyMessages(ids)
        BY <1>1, <3>1
      <4>2. t[i + 1].tokens \in Nat
        BY <4>1 DEF AnyMessages
      <4> QED BY <1>7, <4>2
    <3> QED BY <3>1, <3>2, <3>3
  <2> HIDE DEF P
  <2>3. \A i \in 0 .. n : i \in P
    BY <2>1, <2>2, Induction
  <2> QED BY <2>3 DEF P
<1>10. EstimateMessages(c) = EstimateMessages(s) + EstimateMessages(t)
  BY <1>4, <1>5, <1>6, <1>9
<1>11. f[m] \in Nat /\ g[n] \in Nat
  BY <1>7
<1> QED BY <1>2, <1>4, <1>5, <1>10, <1>11

\* What is left of a history weighs as much as its parts, and less the less
\* is left.
LEMMA EstimateFrom ==
    ASSUME NEW ids, NEW h \in Seq(AnyMessages(ids)),
           NEW i \in 1 .. Len(h) + 1, NEW j \in i .. Len(h) + 1
    PROVE  LET from(l) == EstimateMessages(SubSeq(h, l, Len(h)))
           IN /\ from(i) \in Nat /\ from(j) \in Nat
              /\ EstimateMessages(SubSeq(h, i, j - 1)) \in Nat
              /\ from(i) = EstimateMessages(SubSeq(h, i, j - 1)) + from(j)
<1>1. PICK n \in Nat : n = Len(h)
  OBVIOUS
<1>2. /\ i \in Nat /\ j \in Nat /\ j - 1 \in i - 1 .. n /\ n \in j - 1 .. n /\ (j - 1) + 1 = j
      /\ i \in 1 .. n + 1
  BY <1>1
<1>3. PICK a, c, d : a = SubSeq(h, i, j - 1) /\ c = SubSeq(h, j, n) /\ d = SubSeq(h, i, n)
  OBVIOUS
<1>4. a \in Seq(AnyMessages(ids)) /\ c \in Seq(AnyMessages(ids)) /\ d \in Seq(AnyMessages(ids))
  <2>1. \A l \in 1 .. n : h[l] \in AnyMessages(ids)
    BY <1>1
  <2>2. /\ \A l \in i .. j - 1 : l \in 1 .. n
        /\ \A l \in j .. n : l \in 1 .. n
        /\ \A l \in i .. n : l \in 1 .. n
    BY <1>1, <1>2
  <2>3. i \in Int /\ j \in Int /\ j - 1 \in Int /\ n \in Int
    BY <1>2
  <2> QED BY <1>3, <2>1, <2>2, <2>3, SubSeqProperties
<1>5. a \o c = d
  <2>1. SubSeq(h, i, j - 1) \o SubSeq(h, (j - 1) + 1, n) = SubSeq(h, i, n)
    BY <1>1, <1>2, ConcatAdjacentSubSeq
  <2> QED BY <1>2, <1>3, <2>1
<1>6. /\ EstimateMessages(a) \in Nat /\ EstimateMessages(c) \in Nat
      /\ EstimateMessages(d) = EstimateMessages(a) + EstimateMessages(c)
  BY <1>4, <1>5, EstimateOfParts
<1> QED BY <1>1, <1>3, <1>6

-----------------------------------------------------------------------------
(* The selection of groups.                                                 *)

\* w[k] is the estimate of the view that begins with group k.
Weights(w, groups, system) ==
    LET n == Len(groups)
    IN /\ w \in [1 .. n + 1 -> Nat] /\ w[n + 1] = system
       /\ \A k \in 1 .. n : /\ EstimateMessages(groups[k]) \in Nat
                            /\ w[k] = w[k + 1] + EstimateMessages(groups[k])

\* The groups from k on are selected.
Chosen(w, k, n, stopped, failed) ==
    [used |-> w[k], selected |-> k .. n, stopped |-> stopped, failed |-> failed]

\* The loop, not stopped yet and with groups k to n selected, comes to group i.
TakesOne(groups, w, k, n, i, budget) ==
    LET sum == w[k] + EstimateMessages(groups[i])
        taken == Take(groups, budget, Chosen(w, k, n, FALSE, FALSE), i)
    IN /\ i \in k .. n => taken = Chosen(w, k, n, FALSE, FALSE)
       /\ i \notin k .. n /\ sum > budget =>
              IF i = n THEN taken = Chosen(w, k, n, TRUE, TRUE)
              ELSE taken = Chosen(w, k, n, TRUE, FALSE)
       /\ i \notin k .. n /\ ~(sum > budget) =>
              taken = [used |-> sum, selected |-> (k .. n) \cup {i},
                       stopped |-> FALSE, failed |-> FALSE]

\* One step of the loop before it has stopped.
LEMMA TakeOne ==
    ASSUME NEW groups, NEW n, n = Len(groups), NEW w, NEW k, NEW i, NEW budget
    PROVE  TakesOne(groups, w, k, n, i, budget)
<1>1. PICK u, sel, sum, acc :
          /\ u = w[k] /\ sel = k .. n
          /\ sum = u + EstimateMessages(groups[i])
          /\ acc = [used |-> u, selected |-> sel, stopped |-> FALSE, failed |-> FALSE]
  OBVIOUS
<1>2. acc = Chosen(w, k, n, FALSE, FALSE)
  BY <1>1, Zenon DEF Chosen
<1>3. acc.used = u /\ acc.selected = sel /\ ~acc.stopped
  <2>1. acc.used = u /\ acc.selected = sel
    BY <1>1, Zenon
  <2>2. ~acc.stopped
    BY <1>1, Zenon
  <2> QED BY <2>1, <2>2
<1>4. Take(groups, budget, acc, i) =
          IF acc.stopped \/ i \in acc.selected THEN acc
          ELSE IF acc.used + EstimateMessages(groups[i]) > budget
               THEN [used |-> acc.used, selected |-> acc.selected, stopped |-> TRUE, failed |-> (i = n)]
          ELSE [used |-> acc.used + EstimateMessages(groups[i]), selected |-> acc.selected \cup {i},
                stopped |-> FALSE, failed |-> FALSE]
  BY <1>1, Zenon DEF Take
<1>10. CASE i \in sel
  BY <1>1, <1>2, <1>3, <1>4, <1>10, Zenon DEF TakesOne
<1>11. CASE i \notin sel /\ sum > budget
  <2>1. Take(groups, budget, acc, i) = [used |-> u, selected |-> sel, stopped |-> TRUE, failed |-> (i = n)]
    BY <1>1, <1>3, <1>4, <1>11, Zenon
  <2>2. CASE i = n
    <3>1. (i = n) = TRUE
      BY <2>2
    <3>2. Take(groups, budget, acc, i) = [used |-> u, selected |-> sel, stopped |-> TRUE, failed |-> TRUE]
      BY <2>1, <3>1, Zenon
    <3>3. Take(groups, budget, acc, i) = Chosen(w, k, n, TRUE, TRUE)
      BY <1>1, <3>2, Zenon DEF Chosen
    <3> QED BY <1>1, <1>2, <1>11, <2>2, <3>3, Zenon DEF TakesOne
  <2>3. CASE i # n
    <3>1. (i = n) = FALSE
      BY <2>3
    <3>2. Take(groups, budget, acc, i) = [used |-> u, selected |-> sel, stopped |-> TRUE, failed |-> FALSE]
      BY <2>1, <3>1, Zenon
    <3>3. Take(groups, budget, acc, i) = Chosen(w, k, n, TRUE, FALSE)
      BY <1>1, <3>2, Zenon DEF Chosen
    <3> QED BY <1>1, <1>2, <1>11, <2>3, <3>3, Zenon DEF TakesOne
  <2> QED BY <2>2, <2>3
<1>12. CASE i \notin sel /\ ~(sum > budget)
  <2>1. Take(groups, budget, acc, i) = [used |-> sum, selected |-> sel \cup {i},
                                        stopped |-> FALSE, failed |-> FALSE]
    BY <1>1, <1>3, <1>4, <1>12, Zenon
  <2> QED BY <1>1, <1>2, <1>12, <2>1, Zenon DEF TakesOne
<1> QED BY <1>10, <1>11, <1>12, Zenon DEF TakesOne

\* taken is the loop after each of its steps.
Loops(taken, groups, n, budget, anchored) ==
    /\ taken[0] = anchored
    /\ \A t \in 1 .. n : taken[t] = Take(groups, budget, taken[t - 1], n + 1 - t)

\* The loop, begun with group k0, ends with the groups from k on.
Ended(budget, w, n, k0, k, last) ==
    \/ k = 1 /\ last = Chosen(w, k, n, FALSE, FALSE) /\ (n = 0 \/ w[1] <= budget \/ k0 = 1)
    \/ k \in 2 .. n /\ last = Chosen(w, k, n, TRUE, FALSE) /\ w[k - 1] > budget
         /\ (w[k] <= budget \/ k = k0)
    \/ k = n + 1 /\ n >= 1 /\ last = Chosen(w, k, n, TRUE, TRUE) /\ w[n] > budget

\* With one of them.
Ends(budget, w, n, k0, last) == \E k \in 1 .. k0 : Ended(budget, w, n, k0, k, last)

\* The loop goes on from the newest group to the oldest that fits.
LEMMA TakingStops ==
    ASSUME NEW groups, NEW n \in Nat, n = Len(groups), NEW system, NEW w, Weights(w, groups, system),
           NEW budget \in Nat, NEW k0 \in {n, n + 1}, k0 >= 1,
           NEW taken, Loops(taken, groups, n, budget, Chosen(w, k0, n, FALSE, FALSE))
    PROVE  Ends(budget, w, n, k0, taken[n])
<1>1. /\ taken[0] = Chosen(w, k0, n, FALSE, FALSE)
      /\ \A t \in 1 .. n : taken[t] = Take(groups, budget, taken[t - 1], n + 1 - t)
  BY DEF Loops
<1> DEFINE Going(t, k) == /\ taken[t] = Chosen(w, k, n, FALSE, FALSE)
                          /\ k = n + 1 - t \/ (t = 0 /\ k = k0)
                          /\ w[k] <= budget \/ k = k0
           Stopped(t, k) == /\ \/ k \in 2 .. n /\ taken[t] = Chosen(w, k, n, TRUE, FALSE)
                               \/ k = n + 1 /\ n >= 1 /\ taken[t] = Chosen(w, k, n, TRUE, TRUE)
                            /\ w[k - 1] > budget
                            /\ w[k] <= budget \/ k = k0
           P == {t \in 0 .. n : \E k \in 1 .. k0 : Going(t, k) \/ Stopped(t, k)}
<1>2. /\ w \in [1 .. n + 1 -> Nat]
      /\ \A k \in 1 .. n : /\ EstimateMessages(groups[k]) \in Nat
                           /\ w[k] = w[k + 1] + EstimateMessages(groups[k])
  BY DEF Weights
<1>3. 0 \in P
  <2>1. Going(0, k0) /\ k0 \in 1 .. k0 /\ 0 \in 0 .. n
    BY <1>1
  <2> HIDE DEF Going, Stopped
  <2> QED BY <2>1
<1>4. ASSUME NEW t \in 0 .. n - 1, NEW k \in 1 .. k0, Stopped(t, k)
      PROVE  Stopped(t + 1, k)
  <2>1. t + 1 \in 1 .. n /\ (t + 1) - 1 = t
    OBVIOUS
  <2>2. taken[t + 1] = Take(groups, budget, taken[t], n + 1 - (t + 1))
    BY <1>1, <2>1
  <2>3. taken[t].stopped
    BY <1>4 DEF Chosen
  <2>4. taken[t + 1] = taken[t]
    BY <2>2, <2>3 DEF Take
  <2> QED BY <1>4, <2>4
<1>5. ASSUME NEW t \in 0 .. n - 1, NEW k \in 1 .. k0, Going(t, k)
      PROVE  \E l \in 1 .. k0 : Going(t + 1, l) \/ Stopped(t + 1, l)
  <2>1. t + 1 \in 1 .. n /\ (t + 1) - 1 = t
    OBVIOUS
  <2>2. PICK i : i = n + 1 - (t + 1)
    OBVIOUS
  <2>3. i \in 1 .. n /\ i = n - t
    BY <2>1, <2>2
  <2>4. taken[t + 1] = Take(groups, budget, taken[t], i)
    BY <1>1, <2>1, <2>2
  <2>5. taken[t] = Chosen(w, k, n, FALSE, FALSE)
    BY <1>5
  <2>6. TakesOne(groups, w, k, n, i, budget)
    BY TakeOne, Zenon
  <2>7. CASE i \in k .. n
    <3>1. taken[t + 1] = taken[t]
      BY <2>4, <2>5, <2>7, <2>6, Zenon DEF TakesOne
    <3>2. k = n + 1 - (t + 1)
      BY <1>5, <2>3, <2>7
    <3>3. Going(t + 1, k)
      BY <1>5, <3>1, <3>2
    <3> QED BY <3>3
  <2>8. CASE i \notin k .. n
    <3>1. k = i + 1 /\ i \in 1 .. k0 /\ k \in 1 .. n + 1 /\ i \in 1 .. n + 1 /\ i \in Nat
      BY <1>5, <2>3, <2>8
    <3>2. /\ w[i] = w[k] + EstimateMessages(groups[i]) /\ w[i] \in Nat
      BY <1>2, <2>3, <3>1
    <3>3. CASE w[i] > budget
      <4>1. w[k] + EstimateMessages(groups[i]) > budget
        BY <3>2, <3>3
      <4>2. IF i = n THEN taken[t + 1] = Chosen(w, k, n, TRUE, TRUE)
            ELSE taken[t + 1] = Chosen(w, k, n, TRUE, FALSE)
        BY <2>4, <2>5, <2>8, <4>1, <2>6, Zenon DEF TakesOne
      <4>3. w[k - 1] > budget /\ n >= 1
        BY <2>3, <3>1, <3>3
      <4>4. CASE i = n
        <5>1. k = n + 1
          BY <3>1, <4>4
        <5>2. taken[t + 1] = Chosen(w, k, n, TRUE, TRUE) /\ k = n + 1
          BY <4>2, <4>4, <5>1, Zenon
        <5>3. Stopped(t + 1, k)
          BY <1>5, <4>3, <5>2
        <5> QED BY <5>3
      <4>5. CASE i # n
        <5>1. k \in 2 .. n
          BY <2>3, <3>1, <4>5
        <5>2. taken[t + 1] = Chosen(w, k, n, TRUE, FALSE) /\ k \in 2 .. n
          BY <4>2, <4>5, <5>1, Zenon
        <5>3. Stopped(t + 1, k)
          BY <1>5, <4>3, <5>2
        <5> QED BY <5>3
      <4> QED BY <4>4, <4>5
    <3>4. CASE ~(w[i] > budget)
      <4>1. PICK sum : sum = w[k] + EstimateMessages(groups[i])
        OBVIOUS
      <4>2. w[i] = sum /\ ~(sum > budget)
        BY <3>2, <3>4, <4>1
      <4>3. taken[t + 1] = [used |-> sum, selected |-> (k .. n) \cup {i},
                            stopped |-> FALSE, failed |-> FALSE]
        BY <2>4, <2>5, <2>8, <4>1, <4>2, <2>6, Zenon DEF TakesOne
      <4>4. taken[t + 1] = [used |-> w[i], selected |-> (k .. n) \cup {i},
                            stopped |-> FALSE, failed |-> FALSE]
        BY <4>2, <4>3, Zenon
      <4>5. (k .. n) \cup {i} = i .. n
        <5>1. \A j \in i .. n : j \in k .. n \/ j = i
          BY <3>1
        <5>2. \A j \in k .. n : j \in i .. n
          BY <3>1
        <5>3. i \in i .. n
          BY <2>3
        <5> QED BY <5>1, <5>2, <5>3
      <4>6. taken[t + 1] = Chosen(w, i, n, FALSE, FALSE)
        BY <4>4, <4>5 DEF Chosen
      <4>7. Going(t + 1, i)
        BY <2>2, <3>2, <3>4, <4>6
      <4> QED BY <3>1, <4>7
    <3> QED BY <3>3, <3>4
  <2> QED BY <2>7, <2>8
<1>6. \A t \in 0 .. n - 1 : t \in P => t + 1 \in P
  <2> HIDE DEF Going, Stopped
  <2> TAKE t \in 0 .. n - 1
  <2> HAVE t \in P
  <2>1. PICK k \in 1 .. k0 : Going(t, k) \/ Stopped(t, k)
    OBVIOUS
  <2>2. \E l \in 1 .. k0 : Going(t + 1, l) \/ Stopped(t + 1, l)
    BY <1>4, <1>5, <2>1
  <2>3. t + 1 \in 0 .. n
    OBVIOUS
  <2> QED BY <2>2, <2>3
<1> HIDE DEF P
<1>7. n \in P
  <2>1. \A t \in 0 .. n : t \in P
    BY <1>3, <1>6, Induction
  <2> QED BY <2>1
<1>8. PICK k \in 1 .. k0 : Going(n, k) \/ Stopped(n, k)
  BY <1>7 DEF P
<1>9. CASE Going(n, k)
  <2>1. k = 1
    BY <1>9
  <2>2. Ended(budget, w, n, k0, k, taken[n])
    BY <1>9, <2>1 DEF Ended
  <2> QED BY <2>2 DEF Ends
<1>10. CASE Stopped(n, k)
  <2>1. CASE k \in 2 .. n /\ taken[n] = Chosen(w, k, n, TRUE, FALSE)
    BY <1>10, <2>1 DEF Ends, Ended
  <2>2. CASE k = n + 1 /\ n >= 1 /\ taken[n] = Chosen(w, k, n, TRUE, TRUE)
    <3>1. w[n] > budget
      <4>1. k - 1 = n
        BY <2>2
      <4> QED BY <1>10, <4>1
    <3> QED BY <2>2, <3>1 DEF Ends, Ended
  <2> QED BY <1>10, <2>1, <2>2
<1> QED BY <1>8, <1>9, <1>10

\* What the loop may have taken.
Takings == [used : Nat, selected : SUBSET Nat, stopped : BOOLEAN, failed : BOOLEAN]

\* A step of the loop keeps to that.
LEMMA TakeTyped ==
    ASSUME NEW groups, NEW budget, NEW i \in Nat, EstimateMessages(groups[i]) \in Nat,
           NEW acc \in Takings
    PROVE  Take(groups, budget, acc, i) \in Takings
<1>1. acc.used \in Nat /\ acc.selected \in SUBSET Nat
  BY DEF Takings
<1>2. PICK used \in Nat : used = acc.used + EstimateMessages(groups[i])
  BY <1>1
<1>3. PICK last \in BOOLEAN : last = (i = Len(groups))
  OBVIOUS
<1>4. [used |-> acc.used, selected |-> acc.selected, stopped |-> TRUE, failed |-> last] \in Takings
  BY <1>1 DEF Takings
<1>5. [used |-> used, selected |-> acc.selected \cup {i}, stopped |-> FALSE, failed |-> FALSE] \in Takings
  BY <1>1 DEF Takings
<1>6. Take(groups, budget, acc, i) =
          IF acc.stopped \/ i \in acc.selected THEN acc
          ELSE IF used > budget
               THEN [used |-> acc.used, selected |-> acc.selected, stopped |-> TRUE, failed |-> last]
          ELSE [used |-> used, selected |-> acc.selected \cup {i}, stopped |-> FALSE, failed |-> FALSE]
  BY <1>2, <1>3, Zenon DEF Take
<1> QED BY <1>4, <1>5, <1>6, Zenon

\* Taking is what its definition says: the loop over the groups.
LEMMA TakingUnrolled ==
    ASSUME NEW groups, NEW n \in Nat, n = Len(groups),
           \A i \in 1 .. n : EstimateMessages(groups[i]) \in Nat,
           NEW budget, NEW anchored \in Takings
    PROVE  Loops(Taking(groups, budget, anchored), groups, n, budget, anchored)
<1>1. PICK A : A = Takings
  OBVIOUS
<1>2. \A t \in 1 .. n, acc \in A : Take(groups, budget, acc, n + 1 - t) \in A
  <2> TAKE t \in 1 .. n, acc \in A
  <2>1. n + 1 - t \in 1 .. n /\ n + 1 - t \in Nat
    OBVIOUS
  <2> QED BY <1>1, <2>1, TakeTyped
<1>3. PICK step : step = [x \in (1 .. n) \X A |-> Take(groups, budget, x[2], n + 1 - x[1])]
  OBVIOUS
<1>4. step \in [(1 .. n) \X A -> A]
  BY <1>2, <1>3
<1>5. PICK f : Follows(f, A, n, anchored, step)
  BY <1>1, <1>4, Recursion
<1>6. /\ f \in [0 .. n -> A] /\ f[0] = anchored
      /\ \A t \in 1 .. n : f[t] = Take(groups, budget, f[t - 1], n + 1 - t)
  <2>1. f \in [0 .. n -> A] /\ f[0] = anchored
    BY <1>5 DEF Follows
  <2>2. \A t \in 1 .. n : f[t] = Take(groups, budget, f[t - 1], n + 1 - t)
    <3> TAKE t \in 1 .. n
    <3>1. t - 1 \in 0 .. n /\ f[t - 1] \in A
      BY <2>1
    <3>2. <<t, f[t - 1]>> \in (1 .. n) \X A
      BY <3>1
    <3> QED BY <1>3, <1>5, <3>2 DEF Follows
  <2> QED BY <2>1, <2>2
<1>7. f = [t \in 0 .. n |-> IF t = 0 THEN anchored ELSE Take(groups, budget, f[t - 1], n + 1 - t)]
  <2>1. \A t \in 0 .. n :
            f[t] = IF t = 0 THEN anchored ELSE Take(groups, budget, f[t - 1], n + 1 - t)
    BY <1>6
  <2>2. f = [t \in 0 .. n |-> f[t]]
    BY <1>6
  <2>3. PICK e : e = [t \in 0 .. n |->
            IF t = 0 THEN anchored ELSE Take(groups, budget, f[t - 1], n + 1 - t)]
    OBVIOUS
  <2> QED BY <2>1, <2>2, <2>3
<1>8. PICK r : r = CHOOSE taken : taken = [t \in 0 .. n |->
          IF t = 0 THEN anchored ELSE Take(groups, budget, taken[t - 1], n + 1 - t)]
  OBVIOUS
<1>9. r = [t \in 0 .. n |-> IF t = 0 THEN anchored ELSE Take(groups, budget, r[t - 1], n + 1 - t)]
  BY <1>7, <1>8
<1>10. r[0] = anchored /\ \A t \in 1 .. n : r[t] = Take(groups, budget, r[t - 1], n + 1 - t)
  BY <1>9
<1>11. r = Taking(groups, budget, anchored)
  BY <1>8 DEF Taking
<1> QED BY <1>10, <1>11 DEF Loops

-----------------------------------------------------------------------------
(* The weights of the groups of a history.                                  *)

\* b are the beginnings of the groups of h, and w the weights of what begins there.
Weighed(h, groups, system, b, w) ==
    /\ Cuts(h, Len(h), groups, b)
    /\ Weights(w, groups, system)
    /\ \A k \in 1 .. Len(groups) : w[k] = system + EstimateMessages(SubSeq(h, b[k], Len(h)))

\* There are such weights.
LEMMA GroupsWeighed ==
    ASSUME NEW ids, NEW h \in Seq(AnyMessages(ids)), NEW groups, NEW system \in Nat,
           Len(groups) \in Nat, NEW b, Cuts(h, Len(h), groups, b)
    PROVE  \E w : Weighed(h, groups, system, b, w)
<1>1. PICK N, n \in Nat : N = Len(h) /\ n = Len(groups)
  OBVIOUS
<1>2. /\ b \in Seq(1 .. N) /\ Len(b) = n
      /\ \A i, j \in 1 .. n : i < j => b[i] < b[j]
      /\ \A i \in 1 .. n : groups[i] = SubSeq(h, b[i], EndOf(b, N, i))
  BY <1>1 DEF Cuts
<1>3. \A i \in 1 .. n : b[i] \in 1 .. N
  BY <1>2
<1>4. PICK from : from = [l \in 1 .. N + 1 |-> EstimateMessages(SubSeq(h, l, N))]
  OBVIOUS
<1>5. \A i \in 1 .. N + 1, j \in 1 .. N + 1 : i <= j =>
          /\ from[i] \in Nat /\ from[j] \in Nat
          /\ EstimateMessages(SubSeq(h, i, j - 1)) \in Nat
          /\ from[i] = EstimateMessages(SubSeq(h, i, j - 1)) + from[j]
  <2> TAKE i \in 1 .. N + 1, j \in 1 .. N + 1
  <2> HAVE i <= j
  <2>1. i \in 1 .. Len(h) + 1 /\ j \in i .. Len(h) + 1
    BY <1>1
  <2> QED BY <1>1, <1>4, <2>1, EstimateFrom
<1>6. from[N + 1] = 0
  <2>1. SubSeq(h, N + 1, N) = <<>>
    BY <1>1, SubSeqEmpty
  <2>2. N + 1 \in 1 .. N + 1
    OBVIOUS
  <2>3. from[N + 1] = EstimateMessages(SubSeq(h, N + 1, N))
    BY <1>4, <2>2
  <2> QED BY <2>1, <2>3, EstimateOfNone, Zenon
<1>7. PICK next : next = [k \in 1 .. n |-> IF k = n THEN N + 1 ELSE b[k + 1]]
  OBVIOUS
<1>8. \A k \in 1 .. n : /\ next[k] \in 1 .. N + 1 /\ b[k] \in 1 .. N + 1 /\ b[k] <= next[k]
                        /\ next[k] - 1 = EndOf(b, N, k)
  <2> TAKE k \in 1 .. n
  <2>1. CASE k = n
    BY <1>2, <1>3, <1>7, <2>1 DEF EndOf
  <2>2. CASE k # n
    <3>1. k + 1 \in 1 .. n /\ k < k + 1
      BY <2>2
    <3>2. b[k] \in 1 .. N /\ b[k + 1] \in 1 .. N /\ b[k] < b[k + 1]
      BY <1>2, <1>3, <3>1
    <3>3. EndOf(b, N, k) = b[k + 1] - 1
      BY <1>2, <2>2 DEF EndOf
    <3> QED BY <1>7, <2>2, <3>2, <3>3
  <2> QED BY <2>1, <2>2
<1>9. PICK w : w = [k \in 1 .. n + 1 |-> system + (IF k = n + 1 THEN 0 ELSE from[b[k]])]
  OBVIOUS
<1>10. \A k \in 1 .. n : /\ EstimateMessages(groups[k]) \in Nat /\ from[b[k]] \in Nat
                         /\ from[next[k]] \in Nat
                         /\ from[b[k]] = EstimateMessages(groups[k]) + from[next[k]]
  <2> TAKE k \in 1 .. n
  <2>1. groups[k] = SubSeq(h, b[k], next[k] - 1)
    BY <1>2, <1>8
  <2> QED BY <1>5, <1>8, <2>1
<1>11. \A k \in 1 .. n : w[k] = system + from[b[k]] /\ w[k + 1] = system + from[next[k]]
  <2> TAKE k \in 1 .. n
  <2>1. k \in 1 .. n + 1 /\ k # n + 1 /\ k + 1 \in 1 .. n + 1
    OBVIOUS
  <2>2. w[k] = system + from[b[k]]
    BY <1>9, <2>1
  <2>3. CASE k = n
    <3>1. k + 1 = n + 1 /\ next[k] = N + 1
      BY <1>7, <2>3
    <3> QED BY <1>6, <1>9, <2>1, <2>2, <3>1
  <2>4. CASE k # n
    <3>1. k + 1 # n + 1 /\ next[k] = b[k + 1]
      BY <1>7, <2>4
    <3> QED BY <1>9, <2>1, <2>2, <3>1
  <2> QED BY <2>3, <2>4
<1>12. w \in [1 .. n + 1 -> Nat] /\ w[n + 1] = system
  <2>1. \A k \in 1 .. n + 1 : w[k] \in Nat
    <3> TAKE k \in 1 .. n + 1
    <3>1. CASE k = n + 1
      <4>1. w[k] = system + 0
        BY <1>9, <3>1, Zenon
      <4> QED BY <4>1
    <3>2. CASE k \in 1 .. n
      <4>1. PICK x \in Nat : x = from[b[k]]
        BY <1>10, <3>2
      <4>2. w[k] = system + x
        BY <1>11, <3>2, <4>1
      <4> QED BY <4>2
    <3> QED BY <3>1, <3>2
  <2>2. w[n + 1] = system
    BY <1>9
  <2> QED BY <1>9, <2>1, <2>2
<1>13. \A k \in 1 .. n : w[k] = w[k + 1] + EstimateMessages(groups[k])
  <2> TAKE k \in 1 .. n
  <2>1. PICK e, x, y \in Nat : e = EstimateMessages(groups[k]) /\ x = from[b[k]] /\ y = from[next[k]]
    BY <1>10
  <2>2. x = e + y /\ w[k] = system + x /\ w[k + 1] = system + y
    BY <1>10, <1>11, <2>1
  <2>3. w[k] = w[k + 1] + e
    BY <2>2
  <2> QED BY <2>1, <2>3
<1>14. \A k \in 1 .. n : w[k] = system + EstimateMessages(SubSeq(h, b[k], N))
  BY <1>4, <1>8, <1>11
<1>15. Weights(w, groups, system)
  BY <1>1, <1>10, <1>12, <1>13 DEF Weights
<1> QED BY <1>1, <1>14, <1>15 DEF Weighed

\* The weights grow from the newest group to the oldest.
LEMMA WeightsGrow ==
    ASSUME NEW w, NEW groups, NEW system, NEW n \in Nat, n = Len(groups), Weights(w, groups, system),
           NEW i \in 1 .. n + 1, NEW j \in i .. n + 1
    PROVE  w[j] <= w[i] /\ w[i] \in Nat /\ w[j] \in Nat
<1>1. /\ w \in [1 .. n + 1 -> Nat]
      /\ \A k \in 1 .. n : /\ EstimateMessages(groups[k]) \in Nat
                           /\ w[k] = w[k + 1] + EstimateMessages(groups[k])
  BY DEF Weights
<1> DEFINE P == {l \in 0 .. n + 1 - i : w[i + l] <= w[i]}
<1>2. 0 \in P
  BY <1>1
<1>3. \A l \in 0 .. (n + 1 - i) - 1 : l \in P => l + 1 \in P
  <2> TAKE l \in 0 .. (n + 1 - i) - 1
  <2> HAVE l \in P
  <2>1. i + l \in 1 .. n /\ i + (l + 1) = (i + l) + 1 /\ l + 1 \in 0 .. n + 1 - i /\ i + l \in 1 .. n + 1
        /\ (i + l) + 1 \in 1 .. n + 1
    OBVIOUS
  <2>2. w[i + l] = w[(i + l) + 1] + EstimateMessages(groups[i + l])
    BY <1>1, <2>1
  <2>3. w[i + l] \in Nat /\ w[(i + l) + 1] \in Nat /\ w[i] \in Nat /\ EstimateMessages(groups[i + l]) \in Nat
    BY <1>1, <2>1
  <2>4. w[(i + l) + 1] <= w[i]
    BY <2>2, <2>3
  <2> QED BY <2>1, <2>4
<1> HIDE DEF P
<1>4. n + 1 - i \in Nat
  OBVIOUS
<1>5. \A l \in 0 .. n + 1 - i : l \in P
  BY <1>2, <1>3, <1>4, Induction
<1>6. j - i \in 0 .. n + 1 - i /\ i + (j - i) = j /\ j \in 1 .. n + 1
  OBVIOUS
<1>7. w[i + (j - i)] <= w[i]
  BY <1>5, <1>6 DEF P
<1> QED BY <1>1, <1>6, <1>7

\* A group begins with the message it was cut before.
LEMMA FirstOfGroup ==
    ASSUME NEW ids, NEW h \in Seq(AnyMessages(ids)), NEW groups, Len(groups) \in Nat,
           NEW b, Cuts(h, Len(h), groups, b), NEW k \in 1 .. Len(groups)
    PROVE  groups[k][1] = h[b[k]]
<1>1. PICK N, n \in Nat : N = Len(h) /\ n = Len(groups)
  OBVIOUS
<1>2. /\ b \in Seq(1 .. N) /\ Len(b) = n
      /\ \A i, j \in 1 .. n : i < j => b[i] < b[j]
      /\ groups[k] = SubSeq(h, b[k], EndOf(b, N, k))
  BY <1>1 DEF Cuts
<1>3. \A i \in 1 .. n : b[i] \in 1 .. N
  BY <1>2
<1>4. PICK e : e = EndOf(b, N, k)
  OBVIOUS
<1>5. e \in b[k] .. N
  <2>1. CASE k = n
    BY <1>1, <1>2, <1>3, <1>4, <2>1 DEF EndOf
  <2>2. CASE k # n
    <3>1. k + 1 \in 1 .. n /\ k < k + 1
      BY <1>1, <2>2
    <3>2. b[k] \in 1 .. N /\ b[k + 1] \in 1 .. N /\ b[k] < b[k + 1]
      BY <1>1, <1>2, <1>3, <3>1
    <3>3. e = b[k + 1] - 1
      BY <1>2, <1>4, <2>2 DEF EndOf
    <3> QED BY <3>2, <3>3
  <2> QED BY <2>1, <2>2
<1>6. PICK i \in 1 .. N : i = b[k]
  BY <1>1, <1>3
<1>7. SubSeq(h, i, e)[1] = h[i + 1 - 1]
  <2>1. \A j \in i .. e : h[j] \in AnyMessages(ids)
    BY <1>1, <1>5, <1>6
  <2>2. 1 \in 1 .. e - i + 1 /\ i \in Int /\ e \in Int
    BY <1>5, <1>6
  <2> QED BY <2>1, <2>2, SubSeqProperties
<1> QED BY <1>2, <1>4, <1>6, <1>7

\* The group the loop begins with.
AnchoredAt(groups, n, system, w) ==
    \E k \in {n, n + 1} : k >= 1 /\ Anchored(groups, system) = Chosen(w, k, n, FALSE, FALSE)

\* The latest request is the first message of the newest group, except that a
\* history without a request is one group, and nothing is selected at first.
LEMMA AnchoredLast ==
    ASSUME NEW ids, NEW h \in Seq(AnyMessages(ids)), NEW groups, NEW n \in Nat, n = Len(groups),
           NEW system \in Nat, NEW b, NEW w, Weighed(h, groups, system, b, w),
           ToSet(b) = Beginnings(h)
    PROVE  AnchoredAt(groups, n, system, w)
<1> DEFINE Test(g) == Role(g[1]) = "user" /\ g[1].answers = NoCall
<1>1. PICK I : I = {i \in 1 .. n : Test(groups[i])}
  OBVIOUS
<1>2. PICK anchor : anchor = IF I # {} THEN Max(I) ELSE 0
  OBVIOUS
<1>3. Anchored(groups, system) =
          [used     |-> system + IF anchor = 0 THEN 0 ELSE EstimateMessages(groups[anchor]),
           selected |-> IF anchor = 0 THEN {} ELSE {anchor},
           stopped  |-> FALSE,
           failed   |-> FALSE]
  BY <1>1, <1>2, Zenon DEF Anchored, SelectLastInSeq
<1>4. /\ b \in Seq(1 .. Len(h)) /\ Len(b) = n /\ (Len(h) > 0 => b[1] = 1)
      /\ \A i, j \in 1 .. n : i < j => b[i] < b[j]
  BY DEF Weighed, Cuts
<1>5. \A i \in 2 .. n : i \in I
  <2> TAKE i \in 2 .. n
  <2>1. i \in 1 .. n /\ 1 \in 1 .. n /\ 1 < i
    OBVIOUS
  <2>2. b[1] < b[i] /\ b[1] \in 1 .. Len(h) /\ b[i] \in 1 .. Len(h)
    BY <1>4, <2>1
  <2>3. b[i] \in Beginnings(h) /\ b[i] # 1
    <3>1. b[i] \in ToSet(b)
      BY <1>4, <2>1 DEF ToSet
    <3> QED BY <2>2, <3>1
  <2>4. groups[i][1] = h[b[i]]
    BY <2>1, FirstOfGroup DEF Weighed
  <2> QED BY <1>1, <2>1, <2>3, <2>4 DEF Beginnings
<1>6. anchor = n \/ (anchor = 0 /\ n = 1)
  <2>1. I \subseteq 1 .. n
    BY <1>1
  <2>2. CASE n \in I
    <3>1. n \in I /\ \A y \in I : n >= y
      BY <2>1, <2>2
    <3>2. PICK x : x = Max(I)
      OBVIOUS
    <3>3. x \in I /\ \A y \in I : x >= y
      BY <3>1, <3>2 DEF Max
    <3>4. x = n
      BY <2>1, <2>2, <3>3
    <3> QED BY <1>2, <2>2, <3>2, <3>4
  <2>3. CASE n \notin I
    <3>1. n < 2 /\ I = {}
      BY <1>5, <2>1, <2>3
    <3> QED BY <1>2, <3>1
  <2> QED BY <2>2, <2>3
<1>7. /\ w \in [1 .. n + 1 -> Nat] /\ w[n + 1] = system
      /\ \A k \in 1 .. n : /\ EstimateMessages(groups[k]) \in Nat
                           /\ w[k] = w[k + 1] + EstimateMessages(groups[k])
  BY DEF Weighed, Weights
<1>8. CASE anchor = 0
  <2>1. (n + 1) .. n = {}
    OBVIOUS
  <2>2. system + (IF anchor = 0 THEN 0 ELSE EstimateMessages(groups[anchor])) = w[n + 1]
    BY <1>7, <1>8
  <2>3. Anchored(groups, system) = Chosen(w, n + 1, n, FALSE, FALSE)
    BY <1>3, <1>8, <2>1, <2>2, Zenon DEF Chosen
  <2>4. n + 1 >= 1 /\ n + 1 \in {n, n + 1}
    OBVIOUS
  <2> QED BY <2>3, <2>4, Zenon DEF AnchoredAt
<1>9. CASE anchor # 0
  <2>1. anchor = n /\ n \in 1 .. n /\ n >= 1
    BY <1>6, <1>9
  <2>2. n .. n = {n}
    OBVIOUS
  <2>3. system + (IF anchor = 0 THEN 0 ELSE EstimateMessages(groups[anchor])) = w[n]
    BY <1>7, <1>9, <2>1
  <2>4. Anchored(groups, system) = Chosen(w, n, n, FALSE, FALSE)
    BY <1>3, <1>9, <2>1, <2>2, <2>3, Zenon DEF Chosen
  <2> QED BY <2>1, <2>4 DEF AnchoredAt
<1> QED BY <1>8, <1>9

-----------------------------------------------------------------------------
(* The messages of the selected groups.                                     *)

\* f holds the beginnings of the concatenation of seqs.
Flats(f, seqs) ==
    /\ f[1] = seqs[1]
    /\ \A i \in 2 .. Len(seqs) : f[i] = f[i - 1] \o seqs[i]

\* FlattenSeq is what its definition says: the concatenation.
LEMMA FlattenUnrolled ==
    ASSUME NEW S, NEW n \in Nat, n >= 1, NEW seqs \in [1 .. n -> Seq(S)]
    PROVE  \E f : Flats(f, seqs) /\ FlattenSeq(seqs) = f[n]
<1>1. Len(seqs) = n
  OBVIOUS
<1>2. seqs[1] \in Seq(S) /\ \A i \in 1 .. n : seqs[i] \in Seq(S)
  OBVIOUS
<1>3. PICK T : T = Seq(S)
  OBVIOUS
<1>4. \A i \in 1 .. n, t \in T : t \o seqs[i] \in T
  BY <1>2, <1>3, ConcatProperties
<1>5. PICK step : step = [x \in (1 .. n) \X T |-> IF x[1] = 1 THEN seqs[1] ELSE x[2] \o seqs[x[1]]]
  OBVIOUS
<1>6. step \in [(1 .. n) \X T -> T]
  BY <1>2, <1>3, <1>4, <1>5
<1>7. PICK g : Follows(g, T, n, seqs[1], step)
  BY <1>2, <1>3, <1>6, Recursion
<1>8. \A i \in 1 .. n : g[i] = IF i = 1 THEN seqs[1] ELSE g[i - 1] \o seqs[i]
  <2> TAKE i \in 1 .. n
  <2>1. g[i - 1] \in T
    BY <1>7 DEF Follows
  <2>2. <<i, g[i - 1]>> \in (1 .. n) \X T
    BY <2>1
  <2> QED BY <1>5, <1>7, <2>2 DEF Follows
<1>9. PICK f : f = [i \in 1 .. n |-> g[i]]
  OBVIOUS
<1>10. f = [i \in 1 .. n |-> IF i = 1 THEN seqs[i] ELSE f[i - 1] \o seqs[i]]
  <2>1. \A i \in 1 .. n : f[i] = IF i = 1 THEN seqs[i] ELSE f[i - 1] \o seqs[i]
    <3> TAKE i \in 1 .. n
    <3>1. CASE i = 1
      BY <1>8, <1>9, <3>1
    <3>2. CASE i # 1
      <4>1. i - 1 \in 1 .. n
        BY <3>2
      <4> QED BY <1>8, <1>9, <3>2, <4>1
    <3> QED BY <3>1, <3>2
  <2>2. f = [i \in 1 .. n |-> f[i]]
    BY <1>9
  <2>3. PICK e : e = [i \in 1 .. n |-> IF i = 1 THEN seqs[i] ELSE f[i - 1] \o seqs[i]]
    OBVIOUS
  <2> QED BY <2>1, <2>2, <2>3
<1>11. PICK r : r = CHOOSE flatten :
           flatten = [i \in 1 .. n |-> IF i = 1 THEN seqs[i] ELSE flatten[i - 1] \o seqs[i]]
  OBVIOUS
<1>12. r = [i \in 1 .. n |-> IF i = 1 THEN seqs[i] ELSE r[i - 1] \o seqs[i]]
  BY <1>10, <1>11
<1>13. FlattenSeq(seqs) = r[n]
  BY <1>1, <1>11 DEF FlattenSeq
<1>14. r[1] = seqs[1] /\ \A i \in 2 .. n : r[i] = r[i - 1] \o seqs[i]
  <2>1. \A i \in 1 .. n : r[i] = IF i = 1 THEN seqs[i] ELSE r[i - 1] \o seqs[i]
    BY <1>12, Zenon
  <2>2. 1 \in 1 .. n /\ \A i \in 2 .. n : i \in 1 .. n /\ i # 1
    OBVIOUS
  <2> QED BY <2>1, <2>2
<1>15. Flats(r, seqs)
  BY <1>1, <1>14 DEF Flats
<1> QED BY <1>13, <1>15

\* The groups of h from k on, put together.
Flattened(h, groups, n, b, k) ==
    FlattenSeq([i \in 1 .. n |-> IF i \in k .. n THEN groups[i] ELSE <<>>]) =
        IF k = n + 1 THEN <<>> ELSE SubSeq(h, b[k], Len(h))

\* The groups from k on, put together, are what the history holds from there.
LEMMA FlattenFrom ==
    ASSUME NEW ids, NEW h \in Seq(AnyMessages(ids)), NEW groups, NEW n \in Nat, n = Len(groups),
           NEW b, Cuts(h, Len(h), groups, b), NEW k \in 1 .. n + 1
    PROVE  Flattened(h, groups, n, b, k)
<1>1. PICK seqs, N : seqs = [i \in 1 .. n |-> IF i \in k .. n THEN groups[i] ELSE <<>>] /\ N = Len(h)
  OBVIOUS
<1>2. CASE n = 0
  <2>1. seqs = <<>> /\ k = n + 1 /\ Len(seqs) = 0
    BY <1>1, <1>2
  <2> QED BY <1>1, <2>1 DEF FlattenSeq, Flattened
<1>3. CASE n >= 1
  <2>1. PICK M : M = AnyMessages(ids)
    OBVIOUS
  <2>2. /\ h \in Seq(M) /\ N \in Nat /\ b \in Seq(1 .. N) /\ Len(b) = n
        /\ \A i, j \in 1 .. n : i < j => b[i] < b[j]
        /\ \A i \in 1 .. n : groups[i] = SubSeq(h, b[i], EndOf(b, N, i))
    BY <1>1, <2>1 DEF Cuts
  <2>3. \A i \in 1 .. n : b[i] \in 1 .. N
    BY <2>2
  <2>4. PICK end : end = [i \in 1 .. n |-> EndOf(b, N, i)]
    OBVIOUS
  <2>5. /\ end[n] = N
        /\ \A i \in 1 .. n : /\ end[i] \in 1 .. N /\ b[i] <= end[i]
                             /\ groups[i] = SubSeq(h, b[i], end[i])
        /\ \A i \in 2 .. n : b[i] = end[i - 1] + 1
    <3>1. \A i \in 1 .. n : end[i] = EndOf(b, N, i) /\ (i # n => end[i] = b[i + 1] - 1) /\ (i = n => end[i] = N)
      BY <2>2, <2>4 DEF EndOf
    <3>2. \A i \in 1 .. n : i # n => i + 1 \in 1 .. n /\ i < i + 1
      OBVIOUS
    <3>3. \A i \in 2 .. n : i - 1 \in 1 .. n /\ i - 1 # n /\ (i - 1) + 1 = i
      OBVIOUS
    <3>4. \A i \in 1 .. n : end[i] \in 1 .. N /\ b[i] <= end[i]
      <4> TAKE i \in 1 .. n
      <4>1. b[i] \in 1 .. N
        BY <2>3
      <4>2. CASE i = n
        BY <2>2, <3>1, <4>1, <4>2
      <4>3. CASE i # n
        <5>1. i + 1 \in 1 .. n /\ i < i + 1
          BY <4>3
        <5>2. b[i + 1] \in 1 .. N /\ b[i] < b[i + 1] /\ end[i] = b[i + 1] - 1
          BY <2>2, <2>3, <3>1, <4>3, <5>1
        <5>3. N \in Nat
          BY <2>2
        <5> QED BY <4>1, <5>2, <5>3
      <4> QED BY <4>2, <4>3
    <3>5. \A i \in 2 .. n : b[i] = end[i - 1] + 1
      <4> TAKE i \in 2 .. n
      <4>1. i - 1 \in 1 .. n /\ i - 1 # n /\ (i - 1) + 1 = i /\ i \in 1 .. n
        OBVIOUS
      <4>2. end[i - 1] = b[(i - 1) + 1] - 1 /\ b[i] \in 1 .. N
        BY <2>3, <3>1, <4>1
      <4>3. end[i - 1] = b[i] - 1
        BY <4>1, <4>2
      <4> QED BY <4>2, <4>3
    <3>6. \A i \in 1 .. n : groups[i] = SubSeq(h, b[i], end[i])
      BY <2>2, <3>1
    <3> QED BY <1>3, <3>1, <3>4, <3>5, <3>6
  <2>6. \A i \in 1 .. n : groups[i] \in Seq(M)
    <3> TAKE i \in 1 .. n
    <3>1. PICK x, y \in 1 .. N : x = b[i] /\ y = end[i]
      BY <2>3, <2>5
    <3>2. \A j \in x .. y : j \in 1 .. N
      BY <2>2
    <3>3. \A j \in 1 .. N : h[j] \in M
      BY <1>1, <2>1
    <3>4. \A j \in x .. y : h[j] \in M
      BY <3>2, <3>3
    <3>5. x \in Int /\ y \in Int
      OBVIOUS
    <3>6. SubSeq(h, x, y) \in Seq(M)
      BY <3>4, <3>5, SubSeqProperties
    <3> QED BY <2>5, <3>1, <3>6
  <2>7. seqs \in [1 .. n -> Seq(M)]
    BY <1>1, <2>6
  <2>8. PICK f : Flats(f, seqs) /\ FlattenSeq(seqs) = f[n]
    BY <1>3, <2>7, FlattenUnrolled
  <2>9. /\ f[1] = seqs[1]
        /\ \A i \in 2 .. n : f[i] = f[i - 1] \o seqs[i]
    <3>1. Len(seqs) = n
      BY <2>7
    <3> QED BY <2>8, <3>1, Zenon DEF Flats
  <2> DEFINE P == {t \in 0 .. n - 1 :
                    f[t + 1] = IF t + 1 \in k .. n THEN SubSeq(h, b[k], end[t + 1]) ELSE <<>>}
  <2>10. 0 \in P
    <3>1. 1 \in 1 .. n /\ 0 + 1 = 1 /\ 0 \in 0 .. n - 1
      BY <1>3
    <3>2. 1 \in k .. n => k = 1
      OBVIOUS
    <3>3. seqs[1] = IF 1 \in k .. n THEN groups[1] ELSE <<>>
      BY <1>1, <3>1
    <3> QED BY <2>5, <2>9, <3>1, <3>2, <3>3
  <2>11. \A t \in 0 .. (n - 1) - 1 : t \in P => t + 1 \in P
    <3> TAKE t \in 0 .. (n - 1) - 1
    <3> HAVE t \in P
    <3>1. PICK i \in 2 .. n : i = (t + 1) + 1
      OBVIOUS
    <3>2. t + 1 = i - 1 /\ i \in 1 .. n /\ i - 1 \in 1 .. n /\ t + 1 \in 0 .. n - 1
      BY <3>1
    <3>3. f[i - 1] = IF i - 1 \in k .. n THEN SubSeq(h, b[k], end[i - 1]) ELSE <<>>
      BY <3>2
    <3>4. f[i] = f[i - 1] \o seqs[i] /\ seqs[i] = IF i \in k .. n THEN groups[i] ELSE <<>>
      BY <1>1, <2>9, <3>2
    <3>5. CASE i - 1 \in k .. n
      <4>1. i \in k .. n /\ k \in 1 .. n
        BY <3>2, <3>5
      <4>2. b[k] \in 1 .. N /\ end[i - 1] \in 1 .. N /\ end[i] \in 1 .. N /\ b[i] = end[i - 1] + 1 /\ b[i] <= end[i]
            /\ groups[i] = SubSeq(h, b[i], end[i])
        BY <2>3, <2>5, <3>2, <4>1
      <4>3. b[k] <= end[i - 1]
        <5>1. b[k] <= b[i - 1]
          <6>1. k = i - 1 \/ k < i - 1
            BY <3>5
          <6>2. b[k] \in 1 .. N /\ b[i - 1] \in 1 .. N
            BY <2>3, <3>2, <4>1
          <6>3. k < i - 1 => b[k] < b[i - 1]
            BY <2>2, <3>2, <4>1
          <6>4. k = i - 1 => b[k] = b[i - 1]
            OBVIOUS
          <6> QED BY <6>1, <6>2, <6>3, <6>4
        <5>2. b[i - 1] <= end[i - 1] /\ b[i - 1] \in 1 .. N
          BY <2>3, <2>5, <3>2
        <5> QED BY <4>2, <5>1, <5>2
      <4>4. PICK x, y, z : x = b[k] /\ y = end[i - 1] /\ z = end[i]
        OBVIOUS
      <4>5. /\ x \in 1 .. N /\ y \in x .. z /\ z \in 1 .. N
            /\ x \in 1 .. Len(h) + 1 /\ z \in y .. Len(h) /\ y \in x - 1 .. Len(h)
        <5>1. x \in 1 .. N /\ y \in 1 .. N /\ z \in 1 .. N /\ x <= y /\ y + 1 <= z
          <6>1. b[i] = y + 1 /\ b[i] <= z
            BY <4>2, <4>4, Zenon
          <6> QED BY <4>2, <4>3, <4>4, <6>1
        <5>2. N = Len(h) /\ N \in Nat
          BY <1>1, <2>2
        <5>3. x \in 1 .. N + 1 /\ y \in x .. z /\ z \in y .. N /\ y \in x - 1 .. N
          BY <5>1, <5>2
        <5> QED BY <5>1, <5>2, <5>3
      <4>6. SubSeq(h, x, y) \o SubSeq(h, y + 1, z) = SubSeq(h, x, z)
        BY <2>2, <4>5, ConcatAdjacentSubSeq
      <4>7. f[i] = SubSeq(h, b[k], end[i])
        BY <3>3, <3>4, <3>5, <4>1, <4>2, <4>4, <4>6
      <4> QED BY <3>1, <3>2, <4>1, <4>7
    <3>6. CASE i - 1 \notin k .. n
      <4>1. i \in k .. n => k = i
        BY <3>2, <3>6
      <4>2. f[i - 1] = <<>>
        BY <3>3, <3>6
      <4>3. seqs[i] \in Seq(M)
        BY <2>7, <3>2
      <4>4. f[i] = seqs[i]
        BY <3>4, <4>2, <4>3, ConcatEmptySeq
      <4>5. i \in k .. n => f[i] = SubSeq(h, b[k], end[i])
        BY <2>5, <3>2, <3>4, <4>1, <4>4
      <4>6. i \notin k .. n => f[i] = <<>>
        BY <3>4, <4>4
      <4> QED BY <3>1, <3>2, <4>5, <4>6
    <3> QED BY <3>5, <3>6
  <2> HIDE DEF P
  <2>12. \A t \in 0 .. n - 1 : t \in P
    <3>1. n - 1 \in Nat
      BY <1>3
    <3> QED BY <2>10, <2>11, <3>1, Induction
  <2>13. n - 1 \in P
    BY <1>3, <2>12
  <2>14. f[n] = IF n \in k .. n THEN SubSeq(h, b[k], N) ELSE <<>>
    BY <2>5, <2>13 DEF P
  <2>15. n \in k .. n <=> k # n + 1
    OBVIOUS
  <2> QED BY <1>1, <2>8, <2>14, <2>15 DEF Flattened
<1> QED BY <1>2, <1>3

\* Where the loop ends, for a legal history: everything Build returns follows
\* from the beginnings b, the weights w and the group k with which it ends.
Selects(h, system, budget, groups, n, b, w, k0, k, taken) ==
    /\ n \in Nat /\ n = Len(groups) /\ k0 \in {n, n + 1} /\ k0 >= 1 /\ k \in 1 .. k0
    /\ Weighed(h, groups, system, b, w) /\ ToSet(b) = Beginnings(h)
    /\ Ended(budget, w, n, k0, k, taken)
    /\ Build(system, h, budget).ok =
           (system <= budget /\ budget > 0 /\ Units(h).legal /\ w[k0] <= budget /\ ~taken.failed)
    /\ Build(system, h, budget).messages =
           IF k = n + 1 THEN <<>> ELSE SubSeq(h, b[k], Len(h))

\* There are such beginnings, weights and groups for every legal history.
LEMMA BuildSelects ==
    ASSUME NEW ids, NEW h \in Seq(AnyMessages(ids)), Legal(h),
           NEW system \in Nat, NEW budget \in Nat
    PROVE  \E n, b, w, k0, k, taken :
              Selects(h, system, budget, Units(h).groups, n, b, w, k0, k, taken)
<1>1. PICK N \in Nat : N = Len(h)
  OBVIOUS
<1>2. PICK groups : groups = Reading(h)[N].groups
  OBVIOUS
<1>3. N \in 0 .. N
  OBVIOUS
<1>4. Units(h).groups = groups
  BY <1>1, <1>2 DEF Units
<1>5. groups \in GroupsOf(ids)
  <2>1. Reading(h)[N] \in Accs(ids)
    BY <1>1, <1>3, ReadingUnrolled
  <2> QED BY <1>2, <2>1 DEF Accs
<1>6. PICK n \in Nat : n = Len(groups)
  BY <1>5 DEF GroupsOf
<1>7. PICK b : Cuts(h, N, groups, b) /\ ToSet(b) = Beginnings(h)
  <2>1. CutAt(h, N)
    BY <1>1, <1>3, ReadingCuts
  <2>2. Reading(h)[N].legal
    BY <1>1, <1>3, ReadingComplete DEF CompleteAt
  <2>3. Beginnings(h) \cap (1 .. N) = Beginnings(h)
    BY <1>1 DEF Beginnings
  <2> QED BY <1>2, <2>1, <2>2, <2>3 DEF CutAt
<1>8. PICK w : Weighed(h, groups, system, b, w)
  BY <1>1, <1>6, <1>7, GroupsWeighed
<1>9. PICK k0 \in {n, n + 1} : k0 >= 1 /\ Anchored(groups, system) = Chosen(w, k0, n, FALSE, FALSE)
  <2>1. AnchoredAt(groups, n, system, w)
    BY <1>6, <1>7, <1>8, AnchoredLast
  <2> QED BY <2>1 DEF AnchoredAt
<1>10. PICK anchored : anchored = Chosen(w, k0, n, FALSE, FALSE)
  OBVIOUS
<1>11. /\ w \in [1 .. n + 1 -> Nat]
       /\ \A i \in 1 .. n : EstimateMessages(groups[i]) \in Nat
  BY <1>6, <1>8 DEF Weighed, Weights
<1>12. anchored \in Takings
  <2>1. w[k0] \in Nat
    BY <1>9, <1>11
  <2>2. k0 .. n \in SUBSET Nat
    BY <1>9
  <2> QED BY <1>10, <2>1, <2>2 DEF Chosen, Takings
<1>13. PICK all : all = Taking(groups, budget, anchored)
  OBVIOUS
<1>14. Loops(all, groups, n, budget, anchored)
  BY <1>6, <1>11, <1>12, <1>13, TakingUnrolled
<1>15. Ends(budget, w, n, k0, all[n])
  <2>1. Weights(w, groups, system)
    BY <1>8 DEF Weighed
  <2> QED BY <1>6, <1>9, <1>10, <1>14, <2>1, TakingStops
<1>16. PICK k \in 1 .. k0 : Ended(budget, w, n, k0, k, all[n])
  BY <1>15 DEF Ends
<1>17. PICK taken : taken = all[n]
  OBVIOUS
<1>18. taken.selected = k .. n
  BY <1>16, <1>17 DEF Ended, Chosen
<1>19. Anchored(groups, system).used = w[k0]
  BY <1>9 DEF Chosen
<1>20. Build(system, h, budget).ok =
           (system <= budget /\ budget > 0 /\ Units(h).legal /\ w[k0] <= budget /\ ~taken.failed)
  BY <1>4, <1>6, <1>9, <1>10, <1>13, <1>17, <1>19, Zenon DEF Build
<1>21. Build(system, h, budget).messages =
           FlattenSeq([i \in 1 .. n |-> IF i \in taken.selected THEN groups[i] ELSE <<>>])
  BY <1>4, <1>6, <1>9, <1>10, <1>13, <1>17, Zenon DEF Build
<1>22. k \in 1 .. n + 1
  BY <1>9
<1>23. Flattened(h, groups, n, b, k)
  <2>1. Cuts(h, Len(h), groups, b)
    BY <1>1, <1>7, Zenon
  <2> QED BY <1>6, <1>22, <2>1, FlattenFrom
<1>24. Selects(h, system, budget, groups, n, b, w, k0, k, taken)
  BY <1>6, <1>7, <1>8, <1>9, <1>16, <1>17, <1>18, <1>20, <1>21, <1>23, Zenon DEF Selects, Flattened
<1> QED BY <1>4, <1>24, Zenon

\* For every legal history the loop selects the longest view that begins at a
\* request and fits, unless not even the newest turn does.
LEMMA LegalBuild ==
    ASSUME NEW ids, NEW h \in Seq(AnyMessages(ids)), Legal(h),
           NEW system \in Nat, NEW budget \in Nat
    PROVE  LET built   == Build(system, h, budget)
               fitting == Fitting(system, h, budget)
           IN /\ built.ok <=> system <= budget /\ budget > 0 /\ (h # <<>> => fitting # {})
              /\ built.ok => \/ h = <<>> /\ built.messages = <<>>
                             \/ \E i \in fitting : /\ \A j \in fitting : i <= j
                                                   /\ built.messages = SubSeq(h, i, Len(h))
<1>1. PICK groups, n, b, w, k0, k, taken : Selects(h, system, budget, groups, n, b, w, k0, k, taken)
  BY BuildSelects
<1>2. PICK ok, messages, fitting, N :
          /\ ok = Build(system, h, budget).ok /\ messages = Build(system, h, budget).messages
          /\ fitting = Fitting(system, h, budget) /\ N = Len(h) /\ N \in Nat
  OBVIOUS
<1>3. /\ n \in Nat /\ n = Len(groups) /\ k0 \in {n, n + 1} /\ k0 >= 1 /\ k \in 1 .. k0
      /\ Ended(budget, w, n, k0, k, taken)
      /\ Weights(w, groups, system)
      /\ ToSet(b) = Beginnings(h)
      /\ messages = IF k = n + 1 THEN <<>> ELSE SubSeq(h, b[k], N)
  BY <1>1, <1>2 DEF Selects, Weighed
<1>4. ok <=> system <= budget /\ budget > 0 /\ w[k0] <= budget /\ ~taken.failed
  <2>1. ok = (system <= budget /\ budget > 0 /\ Units(h).legal /\ w[k0] <= budget /\ ~taken.failed)
    BY <1>1, <1>2, Zenon DEF Selects
  <2>2. Units(h).legal = Legal(h)
    BY UnitsAcceptLegal
  <2>3. Legal(h) <=> TRUE
    OBVIOUS
  <2> QED BY <2>1, <2>2, <2>3, Zenon
<1>5. /\ b \in Seq(1 .. N) /\ Len(b) = n /\ (N > 0 => b # <<>>)
      /\ \A i, j \in 1 .. n : i < j => b[i] < b[j]
  BY <1>1, <1>2, <1>3 DEF Selects, Weighed, Cuts
<1>6. \A i \in 1 .. n : b[i] \in 1 .. N /\ b[i] \in Beginnings(h)
  <2> TAKE i \in 1 .. n
  <2>1. b[i] \in 1 .. N
    BY <1>2, <1>5
  <2>2. b[i] \in ToSet(b)
    BY <1>5 DEF ToSet
  <2> QED BY <1>3, <2>1, <2>2
<1>7. \A i \in 1 .. n : b[i] \in fitting <=> w[i] <= budget
  <2> TAKE i \in 1 .. n
  <2>1. w[i] = system + EstimateMessages(SubSeq(h, b[i], N))
    BY <1>1, <1>2, <1>3 DEF Selects, Weighed
  <2> QED BY <1>2, <1>6, <2>1 DEF Fitting
<1>8. \A x \in fitting : \E i \in 1 .. n : x = b[i]
  <2> TAKE x \in fitting
  <2>1. x \in ToSet(b)
    BY <1>2, <1>3 DEF Fitting
  <2>2. \A s \in Seq(1 .. N) : \A y \in ToSet(s) : \E i \in 1 .. Len(s) : y = s[i]
    BY DEF ToSet
  <2> QED BY <1>5, <2>1, <2>2
<1>9. h = <<>> <=> n = 0
  <2>1. N = 0 => n = 0
    <3>1. N = 0 => 1 .. N = {}
      OBVIOUS
    <3>2. n # 0 => 1 \in 1 .. n
      BY <1>3
    <3> QED BY <1>6, <3>1, <3>2
  <2>2. N # 0 => n # 0
    BY <1>2, <1>5
  <2>3. h = <<>> <=> N = 0
    BY <1>2
  <2> QED BY <2>1, <2>2, <2>3
<1>10. w \in [1 .. n + 1 -> Nat] /\ w[n + 1] = system
  BY <1>3 DEF Weights
<1>11. \A i \in 1 .. n + 1, j \in 1 .. n + 1 : i <= j => w[j] <= w[i] /\ w[i] \in Nat /\ w[j] \in Nat
  <2> TAKE i \in 1 .. n + 1, j \in 1 .. n + 1
  <2> HAVE i <= j
  <2>1. j \in i .. n + 1
    OBVIOUS
  <2> QED BY <1>3, <2>1, WeightsGrow
<1>12. n >= 1 /\ w[n] > budget => fitting = {}
  <2> SUFFICES ASSUME n >= 1, w[n] > budget, NEW x \in fitting PROVE FALSE
    OBVIOUS
  <2>1. PICK i \in 1 .. n : x = b[i]
    BY <1>8
  <2>2. w[i] <= budget
    BY <1>7, <2>1
  <2>3. w[n] <= w[i] /\ w[i] \in Nat /\ w[n] \in Nat
    BY <1>3, <1>11, <2>1
  <2> QED BY <2>2, <2>3
<1>13. CASE n = 0
  <2>1. k0 = 1 /\ k = 1 /\ k = n + 1
    BY <1>3, <1>13
  <2>2. taken = Chosen(w, k, n, FALSE, FALSE)
    BY <1>3, <1>13, <2>1 DEF Ended
  <2>3. ~taken.failed
    BY <2>2 DEF Chosen
  <2>4. w[k0] = system
    BY <1>10, <2>1
  <2>5. ok <=> system <= budget /\ budget > 0
    BY <1>4, <2>3, <2>4
  <2>6. h = <<>> /\ messages = <<>>
    BY <1>3, <1>9, <1>13, <2>1
  <2> QED BY <1>2, <2>5, <2>6
<1>14. CASE n # 0 /\ ~(system <= budget)
  BY <1>2, <1>4, <1>9, <1>14
<1>15. CASE n # 0 /\ system <= budget
  <2>1. h # <<>> /\ n >= 1
    BY <1>3, <1>9, <1>15
  <2>2. CASE k = n + 1 /\ taken = Chosen(w, k, n, TRUE, TRUE) /\ w[n] > budget
    <3>1. taken.failed
      BY <2>2 DEF Chosen
    <3> QED BY <1>2, <1>4, <1>12, <2>1, <2>2, <3>1
  <2>3. CASE /\ k \in 1 .. n /\ ~taken.failed
             /\ k = 1 \/ w[k - 1] > budget
             /\ w[k] <= budget \/ k = k0
    <3>1. CASE w[k0] <= budget
      <4>1. ok <=> budget > 0
        BY <1>4, <1>15, <2>3, <3>1
      <4>2. b[k] \in fitting
        BY <1>7, <2>3, <3>1
      <4>3. \A x \in fitting : b[k] <= x
        <5> TAKE x \in fitting
        <5>1. PICK i \in 1 .. n : x = b[i]
          BY <1>8
        <5>2. w[i] <= budget
          BY <1>7, <5>1
        <5>3. k <= i
          <6> SUFFICES ASSUME ~(k <= i) PROVE FALSE
            OBVIOUS
          <6>1. k # 1 /\ i <= k - 1 /\ k - 1 \in 1 .. n + 1 /\ i \in 1 .. n + 1
            BY <1>3, <2>3
          <6>2. w[k - 1] <= w[i] /\ w[i] \in Nat /\ w[k - 1] \in Nat
            BY <1>11, <6>1
          <6> QED BY <2>3, <5>2, <6>1, <6>2
        <5>4. b[k] \in 1 .. N /\ b[i] \in 1 .. N /\ (k = i \/ k < i)
          BY <1>6, <2>3, <5>3
        <5>5. k < i => b[k] < b[i]
          BY <1>5, <2>3
        <5> QED BY <5>1, <5>4, <5>5
      <4>4. messages = SubSeq(h, b[k], N)
        <5>1. k # n + 1
          BY <1>3, <2>3
        <5> QED BY <1>3, <5>1
      <4>5. \E i \in fitting : /\ \A j \in fitting : i <= j
                               /\ messages = SubSeq(h, i, N)
        BY <4>2, <4>3, <4>4
      <4> QED BY <1>2, <1>15, <4>1, <4>2, <4>5
    <3>2. CASE ~(w[k0] <= budget)
      <4>1. k0 = n
        BY <1>3, <1>10, <1>15, <3>2
      <4>2. w[n] > budget
        <5>1. n \in 1 .. n + 1 /\ w[n] \in Nat
          BY <1>3, <1>10, <2>1
        <5> QED BY <3>2, <4>1, <5>1
      <4> QED BY <1>2, <1>4, <1>12, <2>1, <3>2, <4>2
    <3> QED BY <3>1, <3>2
  <2>4. CASE k = 1 /\ taken = Chosen(w, k, n, FALSE, FALSE) /\ (w[1] <= budget \/ k0 = 1)
    <3>1. ~taken.failed
      BY <2>4 DEF Chosen
    <3>2. k \in 1 .. n
      BY <2>1, <2>4
    <3>3. w[k] <= budget \/ k = k0
      BY <2>4
    <3> QED BY <2>3, <2>4, <3>1, <3>2, <3>3
  <2>5. CASE k \in 2 .. n /\ taken = Chosen(w, k, n, TRUE, FALSE) /\ w[k - 1] > budget
             /\ (w[k] <= budget \/ k = k0)
    <3>1. ~taken.failed
      BY <2>5 DEF Chosen
    <3>2. k \in 1 .. n
      BY <2>5
    <3> QED BY <2>3, <2>5, <3>1, <3>2
  <2> QED BY <1>3, <1>15, <2>2, <2>4, <2>5 DEF Ended
<1> QED BY <1>13, <1>14, <1>15

\* Build selects the longest view of a legal history that begins at a request
\* and fits; of any other it selects nothing.
LEMMA BuildSelectsView ==
    ASSUME NEW ids, NEW h \in Seq(AnyMessages(ids)), NEW system \in Nat, NEW budget \in Nat
    PROVE  LET built   == Build(system, h, budget)
               fitting == Fitting(system, h, budget)
           IN /\ built.ok <=> /\ Legal(h) /\ system <= budget /\ budget > 0
                              /\ h # <<>> => fitting # {}
              /\ built.ok => \/ h = <<>> /\ built.messages = <<>>
                             \/ \E i \in fitting : /\ \A j \in fitting : i <= j
                                                   /\ built.messages = SubSeq(h, i, Len(h))
<1>1. CASE Legal(h)
  BY <1>1, LegalBuild, Zenon
<1>2. CASE ~Legal(h)
  <2>1. ~Units(h).legal
    BY <1>2, UnitsAcceptLegal
  <2>2. Build(system, h, budget).ok => Units(h).legal
    BY DEF Build
  <2> QED BY <1>2, <2>1, <2>2, Zenon
<1> QED BY <1>1, <1>2

\* A part of a legal history between two beginnings is legal.
LEMMA LegalPart ==
    ASSUME NEW ids, NEW h \in Seq(AnyMessages(ids)), Legal(h), NEW i \in Beginnings(h),
           NEW j \in i .. Len(h), j = Len(h) \/ j + 1 \in Beginnings(h)
    PROVE  Legal(SubSeq(h, i, j)) /\ SubSeq(h, i, j) \in Seq(AnyMessages(ids))
<1>1. PICK N \in Nat : N = Len(h)
  OBVIOUS
<1>2. i \in 1 .. N /\ j \in 1 .. N /\ i <= j /\ i \in Nat /\ j \in Nat
  BY <1>1 DEF Beginnings
<1>3. PICK g, n : g = SubSeq(h, i, j) /\ n = j - i + 1
  OBVIOUS
<1>4. \A x \in 1 .. N : h[x] \in AnyMessages(ids) /\ h[x].calls \in Seq(ids) /\ Len(h[x].calls) \in Nat
  <2> TAKE x \in 1 .. N
  <2>1. h[x] \in AnyMessages(ids)
    BY <1>1
  <2>2. h[x].calls \in Seq(ids)
    BY <2>1 DEF AnyMessages
  <2> QED BY <2>1, <2>2
<1>5. g \in Seq(AnyMessages(ids)) /\ Len(g) = n /\ n \in Nat /\ \A x \in 1 .. n : g[x] = h[i + x - 1]
  <2>1. \A x \in i .. j : h[x] \in AnyMessages(ids)
    BY <1>2, <1>4
  <2>2. i \in Int /\ j \in Int
    BY <1>2
  <2>3. g \in Seq(AnyMessages(ids)) /\ Len(g) = (IF i <= j THEN j - i + 1 ELSE 0)
        /\ \A x \in 1 .. j - i + 1 : g[x] = h[i + x - 1]
    BY <1>3, <2>1, <2>2, SubSeqProperties
  <2> QED BY <1>2, <1>3, <2>3
<1>6. \* No result follows a call across a beginning.
      \A x \in 1 .. N, y \in 2 .. N : y \in Beginnings(h) => ~(x < y /\ y <= x + Len(h[x].calls))
  <2> SUFFICES ASSUME NEW x \in 1 .. N, NEW y \in 2 .. N, y \in Beginnings(h), x < y,
                      y <= x + Len(h[x].calls)
               PROVE  FALSE
    OBVIOUS
  <2>1. h[x].calls # <<>>
    <3>1. h[x].calls = <<>> => Len(h[x].calls) = 0
      OBVIOUS
    <3> QED BY <3>1
  <2>2. Answered(h, x)
    BY <1>1 DEF Legal
  <2>3. PICK c, l : c = h[x].calls /\ l = Len(c)
    OBVIOUS
  <2>4. NoCall \notin ToSet(c) /\ {h[z].answers : z \in x + 1 .. x + l} = ToSet(c)
    BY <2>1, <2>2, <2>3 DEF Answered
  <2>5. y \in x + 1 .. x + l
    BY <1>4, <2>3
  <2>6. h[y].answers \in ToSet(c)
    BY <2>4, <2>5
  <2>7. h[y].answers = NoCall
    BY DEF Beginnings
  <2> QED BY <2>4, <2>6, <2>7
<1>7. ASSUME NEW a \in 1 .. n PROVE Answered(g, a) /\ Wanted(g, a)
  <2>1. PICK x : x = i + a - 1
    OBVIOUS
  <2>2. x \in 1 .. N /\ i <= x /\ x <= j /\ g[a] = h[x] /\ a = x - i + 1
    BY <1>2, <1>3, <1>5, <2>1
  <2>3. Answered(h, x) /\ Wanted(h, x)
    BY <1>1, <2>2 DEF Legal
  <2>4. \A d \in 1 .. Len(h[x].calls) : x + d <= Len(h) => a + d <= Len(g) /\ g[a + d] = h[x + d]
    <3> TAKE d \in 1 .. Len(h[x].calls)
    <3> HAVE x + d <= Len(h)
    <3>1. x + d <= j
      <4> SUFFICES ASSUME ~(x + d <= j) PROVE FALSE
        OBVIOUS
      <4>1. j + 1 \in 2 .. N /\ j + 1 \in Beginnings(h)
        BY <1>1, <1>2, <2>2
      <4>2. Len(h[x].calls) \in Nat
        BY <1>4, <2>2
      <4>3. x < j + 1 /\ j + 1 <= x + Len(h[x].calls)
        BY <1>2, <2>2, <4>2
      <4> QED BY <1>6, <2>2, <4>1, <4>3
    <3>2. a + d \in 1 .. n /\ i + (a + d) - 1 = x + d
      BY <1>2, <1>3, <2>2, <3>1
    <3>3. g[a + d] = h[i + (a + d) - 1]
      BY <1>5, <3>2
    <3> QED BY <1>5, <3>2, <3>3
  <2>5. a \in 1 .. Len(g) /\ x \in 1 .. Len(h)
    BY <1>1, <1>5, <2>2
  <2>6. Answered(g, a)
    BY <1>5, <2>2, <2>3, <2>4, <2>5, AnsweredThere
  <2>7. Wanted(g, a)
    <3> SUFFICES ASSUME g[a].answers # NoCall PROVE \E k \in 1 .. a - 1 : a <= k + Len(g[k].calls)
      BY DEF Wanted
    <3>1. PICK y \in 1 .. x - 1 : x <= y + Len(h[y].calls)
      BY <2>2, <2>3 DEF Wanted
    <3>2. y \in 1 .. N /\ y < x
      BY <1>1, <2>2
    <3>3. i <= y
      <4> SUFFICES ASSUME y < i PROVE FALSE
        BY <1>2, <3>2
      <4>1. i \in 2 .. N /\ i <= y + Len(h[y].calls)
        BY <1>2, <1>4, <2>2, <3>1, <3>2
      <4> QED BY <1>6, <3>2, <4>1
    <3>4. PICK k : k = y - i + 1
      OBVIOUS
    <3>5. k \in 1 .. a - 1 /\ k \in 1 .. n /\ i + k - 1 = y
      BY <1>2, <1>3, <2>2, <3>2, <3>3, <3>4
    <3>6. g[k] = h[y]
      BY <1>5, <3>5
    <3>7. a <= k + Len(g[k].calls)
      <4>1. Len(h[y].calls) \in Nat
        BY <1>4, <3>2
      <4>2. PICK l \in Nat : l = Len(h[y].calls) /\ l = Len(g[k].calls)
        BY <3>6, <4>1
      <4>3. x <= y + l /\ a = x - i + 1 /\ k = y - i + 1 /\ x \in Nat /\ y \in Nat /\ i \in Nat
        BY <1>2, <2>2, <3>1, <3>2, <3>4, <4>2
      <4>4. a <= k + l
        BY <4>3
      <4> QED BY <4>2, <4>4
    <3> QED BY <3>5, <3>7
  <2> QED BY <2>6, <2>7
<1>8. DOMAIN g = 1 .. n
  BY <1>5
<1> QED BY <1>3, <1>5, <1>7, <1>8 DEF Legal

\* A legal history is cut without loss into legal groups.
LEMMA UnitsOfLegal ==
    ASSUME NEW ids, NEW h \in Seq(AnyMessages(ids)), Legal(h)
    PROVE  /\ FlattenSeq(Units(h).groups) = h
           /\ \A i \in DOMAIN Units(h).groups : Legal(Units(h).groups[i])
<1>1. PICK N \in Nat : N = Len(h)
  OBVIOUS
<1>2. PICK groups : groups = Reading(h)[N].groups
  OBVIOUS
<1>3. N \in 0 .. N
  OBVIOUS
<1>4. Units(h).groups = groups
  BY <1>1, <1>2 DEF Units
<1>5. groups \in GroupsOf(ids)
  <2>1. Reading(h)[N] \in Accs(ids)
    BY <1>1, <1>3, ReadingUnrolled
  <2> QED BY <1>2, <2>1 DEF Accs
<1>6. PICK n \in Nat : n = Len(groups)
  BY <1>5 DEF GroupsOf
<1>7. DOMAIN groups = 1 .. n /\ groups = [i \in 1 .. n |-> groups[i]]
  BY <1>5, <1>6 DEF GroupsOf
<1>8. PICK b : Cuts(h, N, groups, b) /\ ToSet(b) = Beginnings(h)
  <2>1. CutAt(h, N)
    BY <1>1, <1>3, ReadingCuts
  <2>2. Reading(h)[N].legal
    BY <1>1, <1>3, ReadingComplete DEF CompleteAt
  <2>3. Beginnings(h) \cap (1 .. N) = Beginnings(h)
    BY <1>1 DEF Beginnings
  <2> QED BY <1>2, <2>1, <2>2, <2>3 DEF CutAt
<1>9. /\ b \in Seq(1 .. N) /\ Len(b) = n /\ (N > 0 => b # <<>> /\ b[1] = 1)
      /\ \A i, j \in 1 .. n : i < j => b[i] < b[j]
      /\ \A i \in 1 .. n : groups[i] = SubSeq(h, b[i], EndOf(b, N, i))
  BY <1>6, <1>8 DEF Cuts
<1>10. \A i \in 1 .. n : b[i] \in 1 .. N /\ b[i] \in Beginnings(h)
  <2> TAKE i \in 1 .. n
  <2>1. b[i] \in 1 .. N
    BY <1>9
  <2>2. b[i] \in ToSet(b)
    BY <1>9 DEF ToSet
  <2> QED BY <1>8, <2>1, <2>2
<1>11. FlattenSeq(groups) = h
  <2>1. FlattenSeq([i \in 1 .. n |-> IF i \in 1 .. n THEN groups[i] ELSE <<>>]) =
            IF 1 = n + 1 THEN <<>> ELSE SubSeq(h, b[1], Len(h))
    <3>1. 1 \in 1 .. n + 1
      OBVIOUS
    <3>2. Cuts(h, Len(h), groups, b)
      BY <1>1, <1>8, Zenon
    <3>3. Flattened(h, groups, n, b, 1)
      BY <1>6, <3>1, <3>2, FlattenFrom
    <3> QED BY <3>3, Zenon DEF Flattened
  <2>2. [i \in 1 .. n |-> IF i \in 1 .. n THEN groups[i] ELSE <<>>] = [i \in 1 .. n |-> groups[i]]
    OBVIOUS
  <2>3. CASE N = 0
    <3>1. 1 .. N = {}
      BY <2>3
    <3>2. n # 0 => 1 \in 1 .. n
      BY <1>6
    <3>3. n = 0
      BY <1>10, <3>1, <3>2, Zenon
    <3>4. h = <<>>
      <4>1. h = <<>> <=> Len(h) = 0
        OBVIOUS
      <4> QED BY <1>1, <2>3, <4>1
    <3> QED BY <1>7, <2>1, <2>2, <3>3, <3>4
  <2>4. CASE N # 0
    <3>1. b[1] = 1 /\ b # <<>>
      BY <1>1, <1>9, <2>4
    <3>2. n # 0
      BY <1>9, <3>1
    <3>3. 1 # n + 1
      BY <1>6, <3>2
    <3>4. SubSeq(h, b[1], Len(h)) = h
      BY <3>1, SubSeqFull
    <3> QED BY <1>7, <2>1, <2>2, <3>3, <3>4
  <2> QED BY <2>3, <2>4
<1>12. ASSUME NEW i \in 1 .. n PROVE Legal(groups[i])
  <2>1. PICK x, e : x = b[i] /\ e = EndOf(b, N, i)
    OBVIOUS
  <2>2. x \in 1 .. N /\ x \in Beginnings(h)
    BY <1>10, <2>1
  <2>3. CASE i = n
    <3>1. e = Len(h) /\ e \in x .. Len(h)
      BY <1>1, <1>9, <2>1, <2>2, <2>3 DEF EndOf
    <3>2. Legal(SubSeq(h, x, e))
      BY <2>2, <3>1, LegalPart
    <3> QED BY <1>9, <2>1, <3>2
  <2>4. CASE i # n
    <3>1. i + 1 \in 1 .. n /\ i < i + 1
      BY <1>6, <2>4
    <3>2. PICK y : y = b[i + 1]
      OBVIOUS
    <3>3. y \in 1 .. N /\ y \in Beginnings(h) /\ x < y
      BY <1>9, <1>10, <2>1, <3>1, <3>2
    <3>4. e = y - 1
      BY <1>9, <2>1, <2>4, <3>2 DEF EndOf
    <3>5. e \in x .. Len(h) /\ e + 1 \in Beginnings(h)
      <4>1. e + 1 = y
        BY <1>1, <3>3, <3>4
      <4> QED BY <1>1, <2>2, <3>3, <3>4, <4>1
    <3>6. Legal(SubSeq(h, x, e))
      BY <2>2, <3>5, LegalPart
    <3> QED BY <1>9, <2>1, <3>6
  <2> QED BY <2>3, <2>4
<1> QED BY <1>4, <1>7, <1>11, <1>12

-----------------------------------------------------------------------------
(* The turn loop keeps the types.                                           *)

\* What runTurn starts a turn with.
LEMMA FreshTyped == Fresh.calls \in Replies /\ Fresh.action \in Actions
BY EngineAssumption DEF Fresh

\* The results of a reply's calls are messages.
LEMMA ObservationsTyped ==
    ASSUME NEW calls \in Replies
    PROVE  Observations(calls) \in Seq(Messages)
<1>1. calls \in Seq(ToSet(calls))
  BY EngineAssumption
<1>2. \A j \in DOMAIN calls : Message("result", calls[j], <<>>) \in Messages
  BY EngineAssumption DEF Message, Messages, IDs, ToSet
<1>3. DOMAIN calls = 1 .. Len(calls) /\ Len(calls) \in Nat
  BY <1>1
<1> QED BY <1>2, <1>3 DEF Observations

\* What is being appended are messages, fewer than four or one for each call.
LEMMA InFlightTyped ==
    ASSUME Typed
    PROVE  InFlight \in Seq(Messages)
<1>1. \A calls \in Replies : Reply(calls) \in Messages
  BY DEF Reply, Message, Messages, IDs
<1>2. Reminder \in Messages
  BY EngineAssumption DEF Reminder, Message, Messages, IDs
<1>3. \A calls \in Replies : Observations(calls) \in Seq(Messages)
  BY ObservationsTyped
<1>4. local.calls \in Replies
  BY DEF Typed
<1> QED BY <1>1, <1>2, <1>3, <1>4 DEF InFlight

\* Whatever buildContext returned, the turn goes on or Run returns.
LEMMA SendTyped ==
    ASSUME Typed, NEW built, NEW thought, NEW place, Send(built, thought, place),
           place \in {"think", "act"},
           UNCHANGED <<history, failures, streak>>
    PROVE  Typed' /\ pc' \in {place, "idle"}
<1>1. CASE built.ok
  <2>1. local' = [Fresh EXCEPT !.view = built.messages, !.thought = thought]
    BY <1>1 DEF Send
  <2> QED BY <1>1, <2>1, FreshTyped DEF Send, Goto, Typed, Fresh
<1>2. CASE ~built.ok
  BY <1>2, FreshTyped DEF Send, Return, Goto, Typed, Fresh
<1> QED BY <1>1, <1>2

\* Every step keeps the types.
LEMMA StepTyped ==
    ASSUME Typed, [Next]_vars
    PROVE  Typed'
<1> USE FreshTyped DEF Goto, Return, ghosts
<1>1. CASE UserMessage
  <2>1. Request \in Messages
    BY EngineAssumption DEF Request, Message, Messages, IDs
  <2> QED BY <1>1, <2>1 DEF UserMessage, Typed
<1>2. CASE Turn
  <2>1. CASE cancelled /\ Return
    BY <1>2, <2>1 DEF Turn, Typed, Fresh
  <2>2. CASE \E place \in {"think", "act"} : Send(Build(SystemTokens, history, Budget), <<>>, place)
    BY <1>2, <2>2, SendTyped DEF Turn
  <2> QED BY <1>2, <2>1, <2>2 DEF Turn
<1>3. CASE Think
  BY <1>3, SendTyped DEF Think
<1>4. CASE ContextLimit
  <2>1. /\ UNCHANGED <<history, failures, streak>>
        /\ pc' \in {"idle", "think", "act"}
    BY <1>4 DEF ContextLimit
  <2>2. \/ local' = Fresh
        \/ \E view : local' = [local EXCEPT !.view = view, !.retried = TRUE]
    BY <1>4 DEF ContextLimit
  <2>3. CASE local' = Fresh
    BY <2>1, <2>3 DEF Typed, Fresh
  <2>4. CASE \E view : local' = [local EXCEPT !.view = view, !.retried = TRUE]
    BY <2>1, <2>4 DEF Typed
  <2> QED BY <2>2, <2>3, <2>4
<1>5. CASE ProviderFails
  BY <1>5 DEF ProviderFails, Typed, Fresh
<1>6. CASE Respond
  BY <1>6 DEF Respond, Typed, Fresh
<1>7. CASE Save
  BY <1>7, InFlightTyped DEF Save, Commit, Typed
<1>8. CASE Dispatch
  <2>1. UNCHANGED <<history, failures, streak>> /\ pc' \in {"idle", "observe"}
    BY <1>8 DEF Dispatch
  <2>2. CASE local' = Fresh
    BY <2>1, <2>2 DEF Typed, Fresh
  <2>3. CASE local' = [local EXCEPT !.running = DOMAIN local.calls]
    BY <2>1, <2>3 DEF Typed
  <2> QED BY <1>8, <2>2, <2>3 DEF Dispatch
<1>9. CASE Tools
  <2>1. PICK j \in DOMAIN local.calls : Finish(j)
    BY <1>9 DEF Tools
  <2> QED BY <2>1 DEF Finish, Typed
<1>10. CASE Observe
  BY <1>10, InFlightTyped DEF Observe, Commit, Typed
<1>11. CASE Remind
  <2>1. history' \in Seq(Messages)
    <3>1. history' = history \/ history' = history \o InFlight
      BY <1>11 DEF Remind, Commit
    <3>2. history \in Seq(Messages)
      BY DEF Typed
    <3> QED BY <3>1, <3>2, InFlightTyped, ConcatProperties
  <2>2. local' = Fresh /\ pc' \in {"idle", "turn"}
    BY <1>11 DEF Remind, Commit
  <2>3. failures' \in [Actions -> Nat] /\ streak' \in [action : Actions, n : 0 .. 3]
    BY <1>11 DEF Remind, Count, Counted, NoFailures, Typed
  <2> QED BY <2>1, <2>2, <2>3 DEF Typed, Fresh
<1>12. CASE AppendFails
  BY <1>12 DEF AppendFails, Typed, Fresh
<1>13. CASE Cancel
  BY <1>13 DEF Cancel, Typed
<1>14. CASE Restart
  <2>1. history' \in Seq(Messages)
    BY <1>14, InFlightTyped, SubSeqProperties, ConcatProperties DEF Restart, Typed
  <2> QED BY <1>14, <2>1 DEF Restart, Typed, Fresh, NoFailures
<1>15. CASE UNCHANGED vars
  BY <1>15 DEF vars, Typed
<1> QED BY <1>1, <1>2, <1>3, <1>4, <1>5, <1>6, <1>7, <1>8, <1>9, <1>10, <1>11, <1>12,
           <1>13, <1>14, <1>15 DEF Next, Run

-----------------------------------------------------------------------------
(* The reminder.                                                            *)

\* A streak of three is due for a reminder, because the counter of its action
\* has reached three too.
LEMMA StepCounted ==
    ASSUME Typed, StreakCounted, [Next]_vars
    PROVE  StreakCounted'
<1>1. CASE UserMessage
  <2>1. Last(history').kind = "request"
    <3>1. history' = Append(history, Request) /\ history \in Seq(Messages)
      BY <1>1 DEF UserMessage, Typed
    <3>2. Request \in Messages /\ Request.kind = "request"
      BY EngineAssumption DEF Request, Message, Messages, IDs
    <3> QED BY <3>1, <3>2, AppendProperties DEF Last
  <2> QED BY <1>1, <2>1 DEF UserMessage, ghosts, StreakCounted
<1>2. CASE Remind
  <2>1. streak'.n <= failures'[streak'.action]
    BY <1>2 DEF Remind, Count, Counted, NoFailures, Typed, StreakCounted
  <2>2. ASSUME pc' = "turn", streak'.n = 3
        PROVE  Last(history').kind # "result"
    <3>1. Due(Counted)
      BY <1>2, <2>2 DEF Remind, Count, Counted, Due, Typed, StreakCounted
    <3>2. InFlight = <<Reminder>>
      BY <1>2, <3>1 DEF Remind, InFlight
    <3>3. history' = history \o <<Reminder>>
      BY <1>2, <2>2, <3>2 DEF Remind, Commit, Return, Goto
    <3>4. Reminder \in Messages /\ Reminder.kind = "reminder"
      BY EngineAssumption DEF Reminder, Message, Messages, IDs
    <3>5. history' = Append(history, Reminder)
      BY <3>3, <3>4 DEF Typed
    <3> QED BY <3>4, <3>5, AppendProperties DEF Last, Typed
  <2> QED BY <2>1, <2>2 DEF StreakCounted
<1>3. CASE Restart
  BY <1>3, FreshTyped DEF Restart, Return, Goto, NoFailures, StreakCounted
<1>4. CASE /\ UNCHANGED <<failures, streak>>
           /\ pc' # "turn" \/ UNCHANGED <<pc, history>>
  BY <1>4 DEF StreakCounted
<1>5. ASSUME NEW built, NEW thought, NEW place, Send(built, thought, place), place # "turn"
      PROVE  pc' # "turn"
  BY <1>5 DEF Send, Return, Goto
<1>6. CASE Turn
  BY <1>4, <1>5, <1>6 DEF Turn, Return, Goto, ghosts
<1>7. CASE Think
  BY <1>4, <1>5, <1>7 DEF Think, ghosts
<1>8. CASE ContextLimit \/ ProviderFails \/ Respond
  BY <1>4, <1>8 DEF ContextLimit, ProviderFails, Respond, Return, Goto, ghosts
<1>9. CASE Save \/ Observe \/ AppendFails
  BY <1>4, <1>9 DEF Save, Observe, AppendFails, Commit, Return, Goto, ghosts
<1>10. CASE Dispatch \/ Tools \/ Cancel
  BY <1>4, <1>10 DEF Dispatch, Tools, Finish, Cancel, Return, Goto, ghosts
<1>11. CASE UNCHANGED vars
  BY <1>4, <1>11 DEF vars
<1> QED BY <1>1, <1>2, <1>3, <1>6, <1>7, <1>8, <1>9, <1>10, <1>11 DEF Next, Run

-----------------------------------------------------------------------------
(* The tools.                                                               *)

\* Messages that were there stay where they were.
LEMMA Appended ==
    ASSUME Typed, NEW more \in Seq(Messages), history' = history \o more
    PROVE  /\ Len(history') = Len(history) + Len(more)
           /\ Len(history) \in Nat /\ Len(more) \in Nat
           /\ \A i \in 1 .. Len(history) : history'[i] = history[i]
BY ConcatProperties DEF Typed

\* The batches started so far are not touched by what is appended.
LEMMA RecordKept ==
    ASSUME Typed, DispatchRecorded, UNCHANGED dispatched,
           NEW more \in Seq(Messages), history' = history \o more,
           pc' # "dispatch"
    PROVE  DispatchRecorded'
<1>1. dispatched' \in Seq(1 .. Len(history'))
  BY Appended DEF DispatchRecorded
<1>2. ToolsRunOnce'
  BY Appended DEF DispatchRecorded, ToolsRunOnce
<1> QED BY <1>1, <1>2 DEF DispatchRecorded

\* Save makes the reply the last message, beyond every batch so far, and
\* Dispatch adds just that one.
LEMMA StepRecorded ==
    ASSUME Typed, DispatchRecorded, [Next]_vars
    PROVE  DispatchRecorded'
<1> USE DEF Goto, Return, ghosts
<1>1. CASE /\ UNCHANGED <<history, dispatched>>
           /\ pc' # "dispatch" \/ UNCHANGED <<pc, local>>
  BY <1>1 DEF DispatchRecorded, ToolsRunOnce
<1>2. ASSUME NEW built, NEW thought, NEW place, Send(built, thought, place), place # "dispatch"
      PROVE  pc' # "dispatch"
  BY <1>2 DEF Send
<1>3. CASE UserMessage
  <2>1. Request \in Messages
    BY EngineAssumption DEF Request, Message, Messages, IDs
  <2>2. history' = history \o <<Request>>
    BY <1>3, <2>1 DEF UserMessage, Typed
  <2>3. <<Request>> \in Seq(Messages)
    BY <2>1
  <2>4. pc' # "dispatch" /\ UNCHANGED dispatched
    BY <1>3 DEF UserMessage
  <2> QED BY <2>2, <2>3, <2>4, RecordKept
<1>4. CASE Turn
  BY <1>1, <1>2, <1>4 DEF Turn
<1>5. CASE Think
  BY <1>1, <1>2, <1>5 DEF Think
<1>6. CASE ContextLimit \/ ProviderFails \/ Respond
  BY <1>1, <1>6 DEF ContextLimit, ProviderFails, Respond
<1>7. CASE Save
  <2>1. InFlight = <<Reply(local.calls)>>
    BY <1>7 DEF Save, InFlight
  <2>2. Reply(local.calls) \in Messages
    BY DEF Reply, Message, Messages, IDs, Typed
  <2>3. history' = Append(history, Reply(local.calls))
    BY <1>7, <2>1, <2>2 DEF Save, Commit, Typed
  <2>4. /\ Len(history) \in Nat /\ Len(history') = Len(history) + 1
        /\ Last(history') = Reply(local.calls)
        /\ history' # <<>>
        /\ \A i \in 1 .. Len(history) : history'[i] = history[i]
    BY <2>2, <2>3, AppendProperties DEF Typed, Last
  <2>5. UNCHANGED <<local, dispatched>>
    BY <1>7 DEF Save
  <2>6. dispatched' \in Seq(1 .. Len(history'))
    BY <2>4, <2>5 DEF DispatchRecorded
  <2>7. ToolsRunOnce'
    BY <2>4, <2>5 DEF DispatchRecorded, ToolsRunOnce
  <2>8. \A k \in DOMAIN dispatched' : dispatched'[k] # Len(history')
    BY <2>4, <2>5 DEF DispatchRecorded
  <2> QED BY <2>4, <2>5, <2>6, <2>7, <2>8 DEF DispatchRecorded
<1>8. CASE Dispatch
  <2>1. CASE UNCHANGED dispatched
    BY <1>1, <1>8, <2>1 DEF Dispatch
  <2>2. CASE local.calls # <<>> /\ dispatched' = Append(dispatched, Len(history)) /\ pc' # "dispatch"
    <3>1. /\ Len(history) \in 1 .. Len(history)
          /\ history[Len(history)] = Reply(local.calls)
          /\ \A k \in DOMAIN dispatched : dispatched[k] # Len(history)
          /\ dispatched \in Seq(1 .. Len(history))
      BY <1>8 DEF Dispatch, DispatchRecorded, Last, Typed
    <3>2. /\ dispatched' \in Seq(1 .. Len(history))
          /\ Len(dispatched') = Len(dispatched) + 1 /\ Len(dispatched) \in Nat
          /\ dispatched'[Len(dispatched) + 1] = Len(history)
          /\ \A k \in 1 .. Len(dispatched) : dispatched'[k] = dispatched[k]
      BY <2>2, <3>1, AppendProperties
    <3>3. IsInjective(dispatched')
      <4> SUFFICES ASSUME NEW k \in DOMAIN dispatched', NEW l \in DOMAIN dispatched',
                          dispatched'[k] = dispatched'[l]
                   PROVE  k = l
        BY DEF IsInjective
      <4>1. DOMAIN dispatched' = 1 .. Len(dispatched) + 1 /\ DOMAIN dispatched = 1 .. Len(dispatched)
        BY <3>1, <3>2
      <4>2. \A i \in DOMAIN dispatched : dispatched'[i] # dispatched'[Len(dispatched) + 1]
        BY <3>1, <3>2, <4>1
      <4>3. CASE k \in DOMAIN dispatched /\ l \in DOMAIN dispatched
        BY <3>2, <4>1, <4>3 DEF IsInjective, DispatchRecorded, ToolsRunOnce
      <4> QED BY <3>2, <4>1, <4>2, <4>3
    <3>4. UNCHANGED history
      BY <1>8 DEF Dispatch
    <3>5. \A k \in DOMAIN dispatched' : /\ history'[dispatched'[k]].kind = "reply"
                                        /\ history'[dispatched'[k]].calls # <<>>
      BY <2>2, <3>1, <3>2, <3>4 DEF DispatchRecorded, ToolsRunOnce, Reply, Message
    <3> QED BY <2>2, <3>2, <3>3, <3>4, <3>5 DEF DispatchRecorded, ToolsRunOnce
  <2> QED BY <1>8, <2>1, <2>2 DEF Dispatch
<1>9. CASE Tools \/ Cancel
  BY <1>1, <1>9 DEF Tools, Finish, Cancel
<1>10. CASE Observe
  BY <1>10, InFlightTyped, RecordKept DEF Observe, Commit
<1>11. CASE Remind
  <2>1. CASE UNCHANGED history
    BY <1>1, <1>11, <2>1 DEF Remind, Commit
  <2>2. CASE Commit("turn")
    BY <1>11, <2>2, InFlightTyped, RecordKept DEF Remind, Commit
  <2> QED BY <1>11, <2>1, <2>2 DEF Remind
<1>12. CASE AppendFails
  BY <1>1, <1>12 DEF AppendFails
<1>13. CASE Restart
  <2>1. PICK n \in 0 .. Len(InFlight) : history' = history \o SubSeq(InFlight, 1, n)
    BY <1>13 DEF Restart
  <2>2. SubSeq(InFlight, 1, n) \in Seq(Messages)
    BY InFlightTyped, SubSeqProperties
  <2> QED BY <1>13, <2>1, <2>2, RecordKept DEF Restart
<1>14. CASE UNCHANGED vars
  BY <1>1, <1>14 DEF vars
<1> QED BY <1>3, <1>4, <1>5, <1>6, <1>7, <1>8, <1>9, <1>10, <1>11, <1>12, <1>13, <1>14
        DEF Next, Run

-----------------------------------------------------------------------------
(* Tool chains.                                                             *)

\* The messages of a session are such messages.
LEMMA MessagesAreAny == Messages \subseteq AnyMessages(IDs)
<1>1. \A calls \in Replies : calls \in Seq(IDs)
  <2> TAKE calls \in Replies
  <2>1. calls \in Seq(ToSet(calls)) /\ ToSet(calls) \subseteq IDs
    BY EngineAssumption DEF IDs
  <2>2. \A i \in 1 .. Len(calls) : calls[i] \in IDs
    BY <2>1
  <2> QED BY <2>1, <2>2
<1> QED BY <1>1 DEF Messages, AnyMessages

\* The results that the engine appends complete the chain of a good reply.
LEMMA RepliedAndObserved ==
    ASSUME NEW h \in Seq(Messages), Legal(h), NEW calls \in Replies, IsInjective(calls)
    PROVE  Legal((h \o <<Reply(calls)>>) \o Observations(calls))
<1> DEFINE o == Observations(calls)
           r == Reply(calls)
<1>1. /\ r \in Messages /\ r.kind = "reply" /\ r.answers = NoCall /\ r.calls = calls
  BY DEF Reply, Message, Messages, IDs
<1>2. calls \in Seq(ToSet(calls)) /\ NoCall \notin ToSet(calls)
  BY EngineAssumption
<1>3. /\ Len(o) = Len(calls) /\ Len(calls) \in Nat /\ DOMAIN calls = 1 .. Len(calls)
      /\ \A i \in 1 .. Len(calls) : /\ o[i].answers = calls[i] /\ o[i].kind = "result"
                                    /\ o[i].calls = <<>>
  BY <1>2 DEF Observations, Message
<1>4. o \in Seq(Messages)
  BY ObservationsTyped
<1>5. h \in Seq(AnyMessages(IDs)) /\ r \in AnyMessages(IDs)
  <2>1. \A i \in 1 .. Len(h) : h[i] \in AnyMessages(IDs)
    BY MessagesAreAny
  <2> QED BY <1>1, <2>1, MessagesAreAny
<1> HIDE DEF o, r
<1>6. CASE calls = <<>>
  <2>1. o = <<>>
    BY <1>3, <1>4, <1>6
  <2>2. (h \o <<r>>) \o o = Append(h, r)
    BY <1>1, <2>1
  <2>3. Legal(Append(h, r))
    BY <1>1, <1>5, <1>6, PlainAppended
  <2> QED BY <2>2, <2>3 DEF o, r
<1>7. CASE calls # <<>>
  <2>1. PICK g, k, n : g = (h \o <<r>>) \o o /\ k = Len(h) + 1 /\ n = Len(calls)
    OBVIOUS
  <2>2. /\ g \in Seq(Messages) /\ k \in Nat /\ k >= 1 /\ n \in Nat /\ n >= 1
        /\ Len(g) = k + n /\ g[k] = r
        /\ \A i \in 1 .. k - 1 : g[i] = h[i]
        /\ \A i \in 1 .. n : g[k + i] = o[i]
    <3>1. <<r>> \in Seq(Messages) /\ Len(<<r>>) = 1 /\ <<r>>[1] = r
      BY <1>1
    <3>2. /\ h \o <<r>> \in Seq(Messages) /\ Len(h \o <<r>>) = k /\ k \in Nat /\ k >= 1
          /\ \A i \in 1 .. k - 1 : (h \o <<r>>)[i] = h[i]
          /\ (h \o <<r>>)[k] = r
      BY <2>1, <3>1, ConcatProperties
    <3>3. PICK f \in Seq(Messages) : f = h \o <<r>>
      BY <3>2
    <3>4. /\ g \in Seq(Messages) /\ Len(g) = k + n /\ n \in Nat
          /\ \A i \in 1 .. k : g[i] = f[i]
          /\ \A i \in 1 .. n : g[k + i] = o[i]
      <4>1. g = f \o o /\ Len(f) = k /\ Len(o) = n /\ n \in Nat
        BY <1>3, <2>1, <3>2, <3>3
      <4>2. g \in Seq(Messages) /\ Len(g) = k + n
        BY <1>4, <4>1, ConcatProperties
      <4>3. \A i \in 1 .. k + n : g[i] = IF i <= k THEN f[i] ELSE o[i - k]
        BY <1>4, <4>1, ConcatProperties
      <4> QED BY <3>2, <4>1, <4>2, <4>3
    <3>5. n >= 1
      BY <1>2, <1>7, <2>1, <3>4
    <3> QED BY <3>2, <3>3, <3>4, <3>5
  <2>3. SubSeq(g, 1, k - 1) = h
    <3>1. k - 1 \in Nat /\ k - 1 <= Len(g) /\ Len(h) = k - 1
      BY <2>1, <2>2
    <3>2. /\ SubSeq(g, 1, k - 1) \in Seq(Messages) /\ Len(SubSeq(g, 1, k - 1)) = k - 1
          /\ \A i \in 1 .. k - 1 : SubSeq(g, 1, k - 1)[i] = g[i]
      BY <2>2, <3>1, SubSeqProperties
    <3> QED BY <2>2, <3>1, <3>2, SeqEqual
  <2>4. \A j \in k + 1 .. k + n : j - k \in 1 .. n /\ g[j] = o[j - k]
    <3> TAKE j \in k + 1 .. k + n
    <3>1. j - k \in 1 .. n /\ k + (j - k) = j
      BY <2>2
    <3>2. g[k + (j - k)] = o[j - k]
      BY <2>2, <3>1
    <3> QED BY <3>1, <3>2
  <2>5. {g[j].answers : j \in k + 1 .. k + n} = ToSet(calls)
    <3>1. \A j \in k + 1 .. k + n : g[j].answers \in ToSet(calls)
      BY <1>3, <2>1, <2>4 DEF ToSet
    <3>2. \A i \in 1 .. n : k + i \in k + 1 .. k + n /\ g[k + i].answers = calls[i]
      BY <1>3, <2>1, <2>2
    <3>3. \A c \in ToSet(calls) : \E i \in 1 .. n : calls[i] = c
      BY <1>3, <2>1 DEF ToSet
    <3>4. \A c \in ToSet(calls) : c \in {g[j].answers : j \in k + 1 .. k + n}
      BY <3>2, <3>3
    <3> QED BY <3>1, <3>4
  <2>6. \A j \in k + 1 .. k + n : Role(g[j]) = "user" /\ g[j].calls = <<>>
    BY <1>3, <2>1, <2>4 DEF Role
  <2>7. Role(g[k]) = "assistant" /\ g[k].calls = calls /\ g[k].answers = NoCall
    BY <1>1, <2>2 DEF Role
  <2>8. Answered(g, k) /\ Len(g) = k + Len(g[k].calls)
    <3>1. n = Len(g[k].calls) /\ Len(g) = k + n /\ k + n <= Len(g)
      BY <2>1, <2>2, <2>7
    <3>2. {g[j].answers : j \in k + 1 .. k + n} = ToSet(g[k].calls)
      BY <2>5, <2>7, Zenon
    <3>3. NoCall \notin ToSet(g[k].calls) /\ IsInjective(g[k].calls)
      BY <1>2, <2>7, Zenon
    <3> QED BY <2>6, <2>7, <3>1, <3>2, <3>3, Zenon DEF Answered
  <2>9. g \in Seq(AnyMessages(IDs)) /\ k \in 1 .. Len(g)
    <3>1. \A i \in 1 .. Len(g) : g[i] \in AnyMessages(IDs)
      BY <2>2, MessagesAreAny
    <3> QED BY <2>2, <3>1
  <2>10. Legal(g)
    BY <1>7, <2>3, <2>7, <2>8, <2>9, ChainAppended
  <2> QED BY <2>1, <2>10 DEF o, r
<1> QED BY <1>6, <1>7

\* What the user and the reminder say breaks no chain.
LEMMA SaidPlainly ==
    ASSUME NEW h \in Seq(Messages), Legal(h), NEW m \in {Request, Reminder}
    PROVE  Legal(Append(h, m)) /\ m \in Messages
<1>1. m \in Messages /\ m.calls = <<>> /\ m.answers = NoCall
  BY EngineAssumption DEF Request, Reminder, Message, Messages, IDs
<1>2. h \in Seq(AnyMessages(IDs)) /\ m \in AnyMessages(IDs)
  <2>1. \A i \in 1 .. Len(h) : h[i] \in AnyMessages(IDs)
    BY MessagesAreAny
  <2> QED BY <1>1, <2>1, MessagesAreAny
<1> QED BY <1>1, <1>2, PlainAppended

\* A run that goes through saves a reply with distinct calls and all of their
\* results, and nothing else that could break a chain.
LEMMA StepKeepsChains ==
    ASSUME Typed, ChainsKept, [Next]_vars
    PROVE  ChainsKept'
<1> USE DEF Goto, Return, ghosts
<1>1. /\ history \in Seq(Messages) /\ local.calls \in Replies
      /\ cancelled => interrupted
  BY DEF Typed, ChainsKept
<1>2. CASE /\ UNCHANGED <<history, cancelled, interrupted>>
           /\ pc \notin {"dispatch", "observe"} /\ pc' \notin {"dispatch", "observe"}
  BY <1>2 DEF ChainsKept
<1>3. ASSUME NEW built, NEW thought, NEW place, Send(built, thought, place),
             place \in {"think", "act"}
      PROVE  pc' \notin {"dispatch", "observe"}
  BY <1>3 DEF Send
<1>4. CASE UserMessage
  BY <1>1, <1>4, SaidPlainly DEF UserMessage, ChainsKept
<1>5. CASE Turn
  BY <1>2, <1>3, <1>5 DEF Turn
<1>6. CASE Think
  BY <1>2, <1>3, <1>6 DEF Think
<1>7. CASE ContextLimit \/ ProviderFails \/ Respond
  BY <1>2, <1>7 DEF ContextLimit, ProviderFails, Respond
<1>8. CASE Save
  <2>1. /\ history' = history \o <<Reply(local.calls)>> /\ pc' = "dispatch" /\ local' = local
        /\ pc = "save" /\ ~cancelled /\ cancelled' = cancelled
        /\ interrupted' = (interrupted \/ ~IsInjective(local.calls))
    BY <1>8 DEF Save, Commit, InFlight
  <2>2. ASSUME ~interrupted' PROVE Legal(history' \o Observations(local'.calls))
    <3>1. Legal(history) /\ IsInjective(local.calls)
      BY <2>1, <2>2 DEF ChainsKept
    <3> QED BY <1>1, <2>1, <3>1, RepliedAndObserved
  <2> QED BY <1>1, <2>1, <2>2 DEF ChainsKept
<1>9. CASE Dispatch
  <2>1. CASE cancelled
    BY <1>1, <1>9, <2>1 DEF Dispatch, ChainsKept
  <2>2. CASE ~cancelled /\ local.calls = <<>>
    <3>1. Observations(<<>>) = <<>>
      BY DEF Observations
    <3>2. history \o Observations(local.calls) = history
      BY <1>1, <2>2, <3>1
    <3> QED BY <1>9, <2>2, <3>2 DEF Dispatch, ChainsKept
  <2>3. CASE ~cancelled /\ local.calls # <<>>
    <3>1. local'.calls = local.calls
      BY <1>9, <2>3 DEF Dispatch, Typed
    <3> QED BY <1>9, <2>3, <3>1 DEF Dispatch, ChainsKept
  <2> QED BY <2>1, <2>2, <2>3
<1>10. CASE Tools
  <2>1. PICK j \in DOMAIN local.calls : Finish(j)
    BY <1>10 DEF Tools
  <2>2. local'.calls = local.calls
    BY <2>1 DEF Finish, Typed
  <2> QED BY <2>1, <2>2 DEF Finish, ChainsKept
<1>11. CASE Observe
  <2>1. history' = history \o Observations(local.calls)
    BY <1>11 DEF Observe, Commit, InFlight
  <2> QED BY <1>11, <2>1 DEF Observe, Commit, ChainsKept
<1>12. CASE Remind
  <2>1. /\ pc = "remind" /\ pc' \in {"idle", "turn"} /\ UNCHANGED <<cancelled, interrupted>>
        /\ history' = history \/ (InFlight # <<>> /\ history' = history \o InFlight)
    BY <1>12 DEF Remind, Commit
  <2>2. InFlight \in {<<>>, <<Reminder>>}
    BY <2>1 DEF InFlight
  <2>3. Legal(history) => Legal(history')
    <3>1. Reminder \in Messages
      BY EngineAssumption DEF Reminder, Message, Messages, IDs
    <3>2. history \o <<Reminder>> = Append(history, Reminder)
      BY <1>1, <3>1
    <3> QED BY <1>1, <2>1, <2>2, <3>2, SaidPlainly
  <2> QED BY <2>1, <2>3 DEF ChainsKept
<1>13. CASE AppendFails
  BY <1>13 DEF AppendFails, ChainsKept
<1>14. CASE Cancel
  BY <1>14 DEF Cancel, ChainsKept
<1>15. CASE Restart
  <2>1. CASE pc = "idle"
    <3>1. InFlight = <<>>
      BY <2>1 DEF InFlight
    <3>2. history' = history
      <4>1. PICK n \in 0 .. Len(InFlight) : history' = history \o SubSeq(InFlight, 1, n)
        BY <1>15 DEF Restart
      <4>2. n = 0 /\ SubSeq(InFlight, 1, n) = <<>>
        BY <3>1
      <4> QED BY <1>1, <4>1, <4>2
    <3> QED BY <1>15, <2>1, <3>2 DEF Restart, ChainsKept
  <2>2. CASE pc # "idle"
    BY <1>15, <2>2 DEF Restart, ChainsKept
  <2> QED BY <2>1, <2>2
<1>16. CASE UNCHANGED vars
  BY <1>16 DEF vars, ChainsKept
<1> QED BY <1>4, <1>5, <1>6, <1>7, <1>8, <1>9, <1>10, <1>11, <1>12, <1>13, <1>14, <1>15, <1>16
        DEF Next, Run

-----------------------------------------------------------------------------
(* What is sent.                                                            *)

\* What the builder makes of a session, and of it with a thought.
LEMMA BuiltIsView ==
    ASSUME NEW h \in Seq(Messages), h # <<>>, NEW budget \in Nat,
           Build(SystemTokens, h, budget).ok
    PROVE  /\ Legal(h)
           /\ IsLongestView(Build(SystemTokens, h, budget).messages, h, budget)
<1>1. h \in Seq(AnyMessages(IDs))
  <2>1. \A i \in 1 .. Len(h) : h[i] \in AnyMessages(IDs)
    BY MessagesAreAny
  <2> QED BY <2>1
<1>2. SystemTokens \in Nat
  BY BuilderAssumption
<1>3. /\ Build(SystemTokens, h, budget).ok =>
             Legal(h) /\ SystemTokens <= budget /\ budget > 0
      /\ Build(SystemTokens, h, budget).ok =>
             \/ h = <<>> /\ Build(SystemTokens, h, budget).messages = <<>>
             \/ \E i \in Fitting(SystemTokens, h, budget) :
                   /\ \A j \in Fitting(SystemTokens, h, budget) : i <= j
                   /\ Build(SystemTokens, h, budget).messages = SubSeq(h, i, Len(h))
  BY <1>1, <1>2, BuildSelectsView
<1> QED BY <1>3 DEF IsLongestView

\* A session with a thought is one of messages too.
LEMMA WithThought ==
    ASSUME NEW h \in Seq(Messages), NEW thought \in {<<>>, <<Reply(<<>>)>>}
    PROVE  /\ h \o thought \in Seq(Messages) /\ thought \in Seq(Messages)
           /\ h # <<>> => h \o thought # <<>>
<1>1. Reply(<<>>) \in Messages
  BY EngineAssumption DEF Reply, Message, Messages, IDs
<1>2. thought \in Seq(Messages)
  <2>1. PICK r \in Messages : r = Reply(<<>>)
    BY <1>1
  <2>2. <<r>> \in Seq(Messages) /\ <<>> \in Seq(Messages)
    OBVIOUS
  <2>3. thought = <<>> \/ thought = <<r>>
    BY <2>1, Zenon
  <2> QED BY <2>2, <2>3
<1>3. h \o thought \in Seq(Messages) /\ Len(h \o thought) = Len(h) + Len(thought)
      /\ Len(thought) \in Nat /\ Len(h) \in Nat
  BY <1>2, ConcatProperties
<1>4. h # <<>> => Len(h) # 0
  OBVIOUS
<1>5. h # <<>> => h \o thought # <<>>
  BY <1>3, <1>4
<1> QED BY <1>2, <1>3, <1>5

\* A beginning is not changed by what is appended.
LEMMA ConcatPrefix ==
    ASSUME NEW S, NEW h \in Seq(S), NEW more \in Seq(S), NEW n \in 0 .. Len(h)
    PROVE  SubSeq(h \o more, 1, n) = SubSeq(h, 1, n)
<1>1. PICK g \in Seq(S) : g = h \o more
  BY ConcatProperties
<1>2. Len(g) = Len(h) + Len(more) /\ \A i \in 1 .. Len(h) : g[i] = h[i]
  BY <1>1, ConcatProperties
<1>3. n \in Nat /\ n \in Int /\ 1 \in Int /\ Len(h) \in Nat /\ Len(more) \in Nat
      /\ \A i \in 1 .. n : i \in 1 .. Len(h) /\ i \in 1 .. Len(g)
  BY <1>2
<1>4. \A i \in 1 .. n : h[i] \in S /\ g[i] \in S /\ g[i] = h[i]
  BY <1>2, <1>3
<1>5. /\ SubSeq(h, 1, n) \in Seq(S) /\ Len(SubSeq(h, 1, n)) = n
      /\ \A i \in 1 .. n : SubSeq(h, 1, n)[i] = h[i]
  BY <1>3, <1>4, SubSeqProperties
<1>6. /\ SubSeq(g, 1, n) \in Seq(S) /\ Len(SubSeq(g, 1, n)) = n
      /\ \A i \in 1 .. n : SubSeq(g, 1, n)[i] = g[i]
  BY <1>3, <1>4, SubSeqProperties
<1>7. PICK s, t : s = SubSeq(h, 1, n) /\ t = SubSeq(g, 1, n)
  OBVIOUS
<1>8. s \in Seq(S) /\ t \in Seq(S) /\ Len(s) = Len(t) /\ \A i \in 1 .. Len(s) : s[i] = t[i]
  BY <1>4, <1>5, <1>6, <1>7
<1>9. s = t
  BY <1>8, SeqEqual
<1> QED BY <1>1, <1>7, <1>9

\* The kinds of messages that are appended at pc.
LEMMA InFlightKinds ==
    ASSUME Typed
    PROVE  /\ pc = "idle" => InFlight = <<>>
           /\ \A j \in 1 .. Len(InFlight) :
                 /\ InFlight[j].kind = "reply" => pc = "save" /\ j = 1
                 /\ InFlight[j].kind = "result" => InFlight[j].answers # NoCall
<1>1. CASE pc = "save"
  <2>1. InFlight = <<Reply(local.calls)>>
    BY <1>1 DEF InFlight
  <2> QED BY <1>1, <2>1 DEF Reply, Message
<1>2. CASE pc = "observe" /\ local.running = {}
  <2>1. InFlight = Observations(local.calls)
    BY <1>2 DEF InFlight
  <2>2. local.calls \in Replies
    BY DEF Typed
  <2>3. PICK c : c = local.calls
    OBVIOUS
  <2>4. c \in Seq(ToSet(c)) /\ NoCall \notin ToSet(c)
    BY <2>2, <2>3, EngineAssumption
  <2>5. \A j \in 1 .. Len(c) : c[j] # NoCall
    BY <2>4
  <2>6. /\ Len(Observations(c)) = Len(c)
        /\ \A j \in 1 .. Len(c) : /\ Observations(c)[j].kind = "result"
                                  /\ Observations(c)[j].answers = c[j]
    BY <2>4 DEF Observations, Message
  <2> QED BY <1>2, <2>1, <2>3, <2>5, <2>6
<1>3. CASE InFlight \in {<<>>, <<Reminder>>} /\ (pc = "idle" => InFlight = <<>>)
  BY <1>3 DEF Reminder, Message
<1> QED BY <1>1, <1>2, <1>3 DEF InFlight

\* What is appended begins with a reply only when that is being saved.
LEMMA DamageKept ==
    ASSUME NEW h \in Seq(Messages), NEW more \in Seq(Messages),
           \A i \in DOMAIN h : h[i].kind = "reply" => Legal(SubSeq(h, 1, i - 1)),
           \A j \in 1 .. Len(more) : more[j].kind = "reply" => j = 1 /\ Legal(h)
    PROVE  \A i \in DOMAIN (h \o more) :
               (h \o more)[i].kind = "reply" => Legal(SubSeq(h \o more, 1, i - 1))
<1>1. PICK g \in Seq(Messages) : g = h \o more
  BY ConcatProperties
<1>2. PICK m, n \in Nat : m = Len(h) /\ n = Len(more)
  OBVIOUS
<1>3. /\ Len(g) = m + n /\ DOMAIN g = 1 .. m + n /\ DOMAIN h = 1 .. m
      /\ \A i \in 1 .. m + n : g[i] = IF i <= m THEN h[i] ELSE more[i - m]
  <2>1. Len(g) = m + n
    BY <1>1, <1>2, ConcatProperties
  <2>2. \A i \in 1 .. m + n : g[i] = IF i <= m THEN h[i] ELSE more[i - m]
    BY <1>1, <1>2, ConcatProperties
  <2> QED BY <1>2, <2>1, <2>2
<1>4. ASSUME NEW i \in 1 .. m + n, g[i].kind = "reply"
      PROVE  Legal(SubSeq(g, 1, i - 1))
  <2>1. CASE i <= m
    <3>1. i \in 1 .. m /\ i - 1 \in 0 .. Len(h) /\ h[i].kind = "reply"
      BY <1>2, <1>3, <1>4, <2>1
    <3>2. SubSeq(g, 1, i - 1) = SubSeq(h, 1, i - 1)
      BY <1>1, <3>1, ConcatPrefix
    <3> QED BY <1>3, <3>1, <3>2
  <2>2. CASE ~(i <= m)
    <3>1. i - m \in 1 .. n
      BY <1>2, <2>2
    <3>2. i - m \in 1 .. Len(more) /\ more[i - m].kind = "reply"
      <4>1. g[i] = more[i - m]
        BY <1>3, <2>2
      <4> QED BY <1>2, <1>4, <3>1, <4>1
    <3>3. i - m = 1 /\ Legal(h)
      BY <3>2
    <3>4. i - 1 = Len(h) /\ i - 1 \in 0 .. Len(h)
      BY <1>2, <3>3
    <3>5. SubSeq(g, 1, i - 1) = SubSeq(h, 1, i - 1)
      BY <1>1, <3>4, ConcatPrefix
    <3>6. SubSeq(h, 1, i - 1) = h
      BY <3>4, SubSeqFull
    <3> QED BY <3>3, <3>5, <3>6
  <2> QED BY <2>1, <2>2
<1> QED BY <1>1, <1>3, <1>4

\* The session is given the first of the messages in flight, up to all of them.
Grows == \E n \in 0 .. Len(InFlight) : history' = history \o SubSeq(InFlight, 1, n)

\* So does every step but the user's.
LEMMA StepGrows ==
    ASSUME Typed, [Next]_vars
    PROVE  Grows \/ (UserMessage /\ history' = history \o <<Request>>)
<1>1. history \in Seq(Messages) /\ InFlight \in Seq(Messages)
  BY InFlightTyped DEF Typed
<1>2. history' = history => Grows
  <2>1. 0 \in 0 .. Len(InFlight) /\ SubSeq(InFlight, 1, 0) = <<>>
    BY <1>1, SubSeqEmpty
  <2>2. history \o <<>> = history
    BY <1>1
  <2> QED BY <2>1, <2>2 DEF Grows
<1>3. history' = history \o InFlight => Grows
  <2>1. Len(InFlight) \in 0 .. Len(InFlight) /\ SubSeq(InFlight, 1, Len(InFlight)) = InFlight
    BY <1>1, SubSeqFull
  <2> QED BY <2>1 DEF Grows
<1>4. CASE UserMessage
  <2>1. Request \in Messages
    BY EngineAssumption DEF Request, Message, Messages, IDs
  <2>2. history' = history \o <<Request>>
    BY <1>1, <1>4, <2>1 DEF UserMessage
  <2> QED BY <1>4, <2>2
<1>5. CASE Restart
  BY <1>5 DEF Restart, Grows
<1>6. CASE Save \/ Observe \/ Remind
  BY <1>2, <1>3, <1>6 DEF Save, Observe, Remind, Commit
<1>7. CASE history' = history
  BY <1>2, <1>7
<1>8. Turn \/ Think \/ ContextLimit \/ ProviderFails \/ Respond \/ Dispatch \/ Tools \/ AppendFails
      \/ Cancel \/ UNCHANGED vars => history' = history
  BY DEF Turn, Think, ContextLimit, ProviderFails, Respond, Dispatch, Tools, Finish, AppendFails,
         Cancel, vars
<1> QED BY <1>4, <1>5, <1>6, <1>7, <1>8 DEF Next, Run

\* A session goes on beginning with a request.
LEMMA StepShaped ==
    ASSUME Typed, SessionShaped, [Next]_vars
    PROVE  SessionShaped'
<1>1. history \in Seq(Messages) /\ InFlight \in Seq(Messages)
  BY InFlightTyped DEF Typed
<1>2. ASSUME NEW more \in Seq(Messages), history' = history \o more,
             \A j \in 1 .. Len(more) : more[j].kind = "result" => more[j].answers # NoCall,
             history = <<>> /\ more # <<>> => more[1].kind = "request"
      PROVE  /\ history' # <<>> => history'[1].kind = "request"
             /\ \A i \in DOMAIN history' : history'[i].kind = "result" => history'[i].answers # NoCall
             /\ history # <<>> => history' # <<>>
  <2>1. PICK m, n \in Nat : m = Len(history) /\ n = Len(more)
    BY <1>1
  <2>2. history' \in Seq(Messages) /\ Len(history') = m + n /\ DOMAIN history' = 1 .. m + n
    BY <1>1, <1>2, <2>1, ConcatProperties
  <2>3. \A i \in 1 .. m + n : history'[i] = IF i <= m THEN history[i] ELSE more[i - m]
    BY <1>1, <1>2, <2>1, ConcatProperties
  <2>4. /\ history = <<>> <=> m = 0
        /\ more = <<>> <=> n = 0
        /\ history' = <<>> <=> m + n = 0
    BY <1>1, <2>1, <2>2
  <2>5. history' # <<>> => history'[1].kind = "request"
    <3> SUFFICES ASSUME m + n # 0 PROVE history'[1].kind = "request"
      BY <2>4
    <3>1. CASE m = 0
      <4>1. history'[1] = more[1] /\ n # 0
        <5>1. 1 \in 1 .. m + n /\ ~(1 <= m) /\ 1 - m = 1 /\ n # 0
          BY <2>1, <3>1
        <5> QED BY <2>3, <5>1
      <4> QED BY <1>2, <2>4, <3>1, <4>1
    <3>2. CASE m # 0
      <4>1. history'[1] = history[1]
        <5>1. 1 \in 1 .. m + n /\ 1 <= m
          BY <2>1, <3>2
        <5> QED BY <2>3, <5>1
      <4> QED BY <2>4, <3>2, <4>1 DEF SessionShaped
    <3> QED BY <3>1, <3>2
  <2>6. ASSUME NEW i \in 1 .. m + n, history'[i].kind = "result"
        PROVE  history'[i].answers # NoCall
    <3>1. CASE i <= m
      <4>1. i \in DOMAIN history /\ history'[i] = history[i]
        BY <1>1, <2>1, <2>3, <3>1
      <4> QED BY <2>6, <4>1 DEF SessionShaped
    <3>2. CASE ~(i <= m)
      <4>1. i - m \in 1 .. n
        BY <2>1, <3>2
      <4>2. history'[i] = more[i - m]
        BY <2>3, <3>2
      <4> QED BY <1>2, <2>1, <2>6, <4>1, <4>2
    <3> QED BY <3>1, <3>2
  <2> QED BY <2>1, <2>2, <2>4, <2>5, <2>6
<1>3. CASE UserMessage /\ history' = history \o <<Request>>
  <2>1. /\ <<Request>> \in Seq(Messages) /\ Len(<<Request>>) = 1
        /\ <<Request>>[1].kind = "request" /\ history \o <<Request>> # <<>>
    <3>1. Request \in Messages /\ Request.kind = "request"
      BY EngineAssumption DEF Request, Message, Messages, IDs
    <3>2. PICK r \in Messages : r = Request
      BY <3>1
    <3>3. <<r>> \in Seq(Messages) /\ Len(<<r>>) = 1 /\ <<r>>[1] = r
      OBVIOUS
    <3>4. Len(history \o <<r>>) = Len(history) + 1 /\ Len(history) \in Nat
      BY <1>1, <3>3, ConcatProperties
    <3>5. history \o <<r>> # <<>>
      BY <3>4
    <3> QED BY <3>1, <3>2, <3>3, <3>5
  <2>2. \A j \in 1 .. Len(<<Request>>) :
            <<Request>>[j].kind = "result" => <<Request>>[j].answers # NoCall
    BY <2>1
  <2> QED BY <1>2, <1>3, <2>1, <2>2 DEF SessionShaped
<1>4. CASE Grows
  <2>1. PICK n \in 0 .. Len(InFlight) : history' = history \o SubSeq(InFlight, 1, n)
    BY <1>4 DEF Grows
  <2>2. PICK more : more = SubSeq(InFlight, 1, n)
    OBVIOUS
  <2>3. /\ more \in Seq(Messages) /\ Len(more) = n
        /\ \A j \in 1 .. n : more[j] = InFlight[j] /\ j \in 1 .. Len(InFlight)
    <3>1. n \in Int /\ n \in Nat /\ \A j \in 1 .. n : j \in 1 .. Len(InFlight) /\ InFlight[j] \in Messages
      BY <1>1
    <3> QED BY <2>2, <3>1, SubSeqProperties
  <2>4. \A j \in 1 .. Len(more) : more[j].kind = "result" => more[j].answers # NoCall
    BY <2>3, InFlightKinds
  <2>5. history = <<>> => more = <<>>
    <3>1. history = <<>> => InFlight = <<>>
      BY InFlightKinds DEF SessionShaped
    <3>2. history = <<>> => n = 0
      BY <3>1
    <3> QED BY <2>3, <3>2
  <2>6. /\ history' # <<>> => history'[1].kind = "request"
        /\ \A i \in DOMAIN history' : history'[i].kind = "result" => history'[i].answers # NoCall
        /\ history # <<>> => history' # <<>>
    BY <1>2, <2>1, <2>2, <2>3, <2>4, <2>5
  <2>7. pc' # "idle" => pc # "idle" \/ history' # <<>>
    <3>1. UserMessage => history' # <<>>
      BY <1>1 DEF UserMessage
    <3>2. pc' # pc => pc # "idle" \/ UserMessage \/ pc' = "idle"
      BY DEF Next, Run, Turn, Think, ContextLimit, ProviderFails, Respond, Save, Dispatch, Tools,
             Finish, Observe, Remind, AppendFails, Cancel, Restart, Return, Goto, vars, Send, Commit
    <3> QED BY <3>1, <3>2
  <2> QED BY <2>6, <2>7 DEF SessionShaped
<1> QED BY <1>3, <1>4, StepGrows

\* The reply being saved was made for a legal session, and the rest is no reply.
LEMMA StepDamage ==
    ASSUME Typed, ViewsSent, DamageIsFinal, [Next]_vars
    PROVE  DamageIsFinal'
<1>1. history \in Seq(Messages) /\ InFlight \in Seq(Messages)
  BY InFlightTyped DEF Typed
<1>2. CASE UserMessage /\ history' = history \o <<Request>>
  <2>1. Request \in Messages /\ Request.kind = "request"
    BY EngineAssumption DEF Request, Message, Messages, IDs
  <2>2. PICK r \in Messages : r = Request
    BY <2>1
  <2>3. <<r>> \in Seq(Messages) /\ Len(<<r>>) = 1 /\ <<r>>[1] = r
    OBVIOUS
  <2>4. \A j \in 1 .. Len(<<r>>) : <<r>>[j].kind = "reply" => j = 1 /\ Legal(history)
    BY <2>1, <2>2, <2>3
  <2>5. \A i \in DOMAIN history : history[i].kind = "reply" => Legal(SubSeq(history, 1, i - 1))
    BY DEF DamageIsFinal
  <2>6. \A i \in DOMAIN (history \o <<r>>) :
            (history \o <<r>>)[i].kind = "reply" => Legal(SubSeq(history \o <<r>>, 1, i - 1))
    BY <1>1, <2>3, <2>4, <2>5, DamageKept
  <2> QED BY <1>2, <2>2, <2>6 DEF DamageIsFinal
<1>3. CASE Grows
  <2>1. PICK n \in 0 .. Len(InFlight) : history' = history \o SubSeq(InFlight, 1, n)
    BY <1>3 DEF Grows
  <2>2. PICK more : more = SubSeq(InFlight, 1, n)
    OBVIOUS
  <2>3. /\ more \in Seq(Messages) /\ Len(more) = n
        /\ \A j \in 1 .. n : more[j] = InFlight[j] /\ j \in 1 .. Len(InFlight)
    <3>1. n \in Int /\ n \in Nat /\ \A j \in 1 .. n : j \in 1 .. Len(InFlight) /\ InFlight[j] \in Messages
      BY <1>1
    <3> QED BY <2>2, <3>1, SubSeqProperties
  <2>4. \A j \in 1 .. Len(more) : more[j].kind = "reply" => j = 1 /\ Legal(history)
    BY <2>3, InFlightKinds DEF ViewsSent
  <2>5. \A i \in DOMAIN history : history[i].kind = "reply" => Legal(SubSeq(history, 1, i - 1))
    BY DEF DamageIsFinal
  <2>6. \A i \in DOMAIN (history \o more) :
            (history \o more)[i].kind = "reply" => Legal(SubSeq(history \o more, 1, i - 1))
    BY <1>1, <2>3, <2>4, <2>5, DamageKept
  <2> QED BY <2>1, <2>2, <2>6 DEF DamageIsFinal
<1> QED BY <1>2, <1>3, StepGrows

\* What a turn and its thinking phase send.
LEMMA SendsView ==
    ASSUME Typed, history # <<>>, history' = history,
           NEW thought \in {<<>>, <<Reply(<<>>)>>}, NEW place \in {"think", "act"},
           thought = <<>> \/ (Legal(history) /\ place = "act"),
           Send(Build(SystemTokens, history \o thought, Budget), thought, place)
    PROVE  ViewsSent'
<1>1. PICK memory, built : memory = history \o thought /\ built = Build(SystemTokens, memory, Budget)
  OBVIOUS
<1>2. CASE ~built.ok
  <2>1. pc' = "idle"
    BY <1>1, <1>2 DEF Send, Return, Goto
  <2> QED BY <2>1 DEF ViewsSent
<1>3. CASE built.ok
  <2>1. /\ pc' = place
        /\ local' = [Fresh EXCEPT !.view = built.messages, !.thought = thought]
    BY <1>1, <1>3 DEF Send, Goto
  <2>2. local'.thought = thought /\ local'.view = built.messages /\ local'.retried = FALSE
    BY <2>1 DEF Fresh
  <2>3. memory \in Seq(Messages) /\ memory # <<>>
    BY <1>1, WithThought DEF Typed
  <2>4. Legal(memory) /\ IsLongestView(built.messages, memory, Budget)
    BY <1>1, <1>3, <2>3, BuilderAssumption, EngineAssumption, BuiltIsView
  <2>5. Memory' = memory
    BY <1>1, <2>2 DEF Memory
  <2>6. Legal(history)
    <3>1. history \o <<>> = history
      BY DEF Typed
    <3> QED BY <1>1, <2>4, <3>1
  <2>7. /\ Legal(Memory')
        /\ IsLongestView(local'.view, Memory', IF local'.retried THEN RetryBudget ELSE Budget)
    BY <2>2, <2>4, <2>5, Zenon
  <2> QED BY <2>1, <2>2, <2>6, <2>7 DEF ViewsSent
<1> QED BY <1>2, <1>3

\* What is sent is rebuilt from the session whenever it is sent.
LEMMA StepViews ==
    ASSUME Typed, SessionShaped, ViewsSent, [Next]_vars
    PROVE  ViewsSent'
<1> USE DEF Goto, Return
<1>1. history \in Seq(Messages)
  BY DEF Typed
<1>2. CASE pc' \notin {"think", "act", "save"}
  BY <1>2 DEF ViewsSent
<1>3. CASE Turn
  <2>1. CASE cancelled
    BY <1>2, <1>3, <2>1 DEF Turn
  <2>2. CASE ~cancelled
    <3>1. PICK place \in {"think", "act"} : Send(Build(SystemTokens, history, Budget), <<>>, place)
      BY <1>3, <2>2 DEF Turn
    <3>2. history \o <<>> = history /\ history # <<>> /\ history' = history
      BY <1>1, <1>3 DEF Turn, SessionShaped
    <3>3. Send(Build(SystemTokens, history \o <<>>, Budget), <<>>, place)
      BY <3>1, <3>2
    <3> QED BY <3>2, <3>3, SendsView
  <2> QED BY <2>1, <2>2
<1>4. CASE Think
  <2>1. PICK thought \in {<<>>, <<Reply(<<>>)>>} :
            Send(Build(SystemTokens, history \o thought, Budget), thought, "act")
    BY <1>4 DEF Think
  <2>2. history # <<>> /\ history' = history /\ Legal(history)
    BY <1>4 DEF Think, SessionShaped, ViewsSent
  <2> QED BY <2>1, <2>2, SendsView
<1>5. CASE ContextLimit
  <2>1. PICK built : built = Build(SystemTokens, Memory, RetryBudget)
    OBVIOUS
  <2>2. /\ pc \in {"think", "act"} /\ history' = history
        /\ IF built.ok /\ ~cancelled
           THEN local' = [local EXCEPT !.view = built.messages, !.retried = TRUE] /\ pc' = pc
           ELSE pc' = "idle"
    BY <1>5, <2>1 DEF ContextLimit
  <2>3. CASE ~(built.ok /\ ~cancelled)
    BY <1>2, <2>2, <2>3
  <2>4. CASE built.ok /\ ~cancelled
    <3>1. local' = [local EXCEPT !.view = built.messages, !.retried = TRUE] /\ pc' = pc
      BY <2>2, <2>4
    <3>2. local'.thought = local.thought /\ local'.view = built.messages /\ local'.retried = TRUE
      BY <3>1 DEF Typed
    <3>3. local.thought \in {<<>>, <<Reply(<<>>)>>} /\ history # <<>> /\ Legal(history)
          /\ (pc = "think" => local.thought = <<>>)
      BY <2>2 DEF ViewsSent, SessionShaped
    <3>4. Memory \in Seq(Messages) /\ Memory # <<>> /\ Memory' = Memory
      <4>1. Memory' = Memory
        BY <2>2, <3>2 DEF Memory
      <4> QED BY <1>1, <3>3, <4>1, WithThought DEF Memory
    <3>5. Legal(Memory) /\ IsLongestView(built.messages, Memory, RetryBudget)
      BY <2>1, <2>4, <3>4, BuilderAssumption, EngineAssumption, BuiltIsView
    <3>6. /\ Legal(Memory')
          /\ IsLongestView(local'.view, Memory', IF local'.retried THEN RetryBudget ELSE Budget)
      BY <3>2, <3>4, <3>5, Zenon
    <3> QED BY <2>2, <3>1, <3>2, <3>3, <3>6 DEF ViewsSent
  <2> QED BY <2>3, <2>4
<1>6. CASE Respond
  BY <1>6 DEF Respond, ViewsSent
<1>7. CASE UNCHANGED <<history, pc, local>>
  BY <1>7 DEF ViewsSent, Memory
<1>8. Cancel \/ UNCHANGED vars => UNCHANGED <<history, pc, local>>
  BY DEF Cancel, vars
<1>9. \/ UserMessage \/ ProviderFails \/ Save \/ Dispatch \/ Tools \/ Observe \/ Remind
      \/ AppendFails \/ Restart
      => pc' \notin {"think", "act", "save"}
  BY DEF UserMessage, ProviderFails, Save, Dispatch, Tools, Finish, Observe, Remind, AppendFails,
         Restart, Commit
<1> QED BY <1>2, <1>3, <1>4, <1>5, <1>6, <1>7, <1>8, <1>9 DEF Next, Run

-----------------------------------------------------------------------------
(* What a view contains.                                                    *)

\* A bounded set of numbers has a greatest one.
LEMMA Greatest ==
    ASSUME NEW n \in Nat, NEW S \in SUBSET (1 .. n), S # {}
    PROVE  Max(S) \in S /\ \A y \in S : Max(S) >= y
<1>1. PICK B : B = {m \in Nat : \A y \in S : y <= m}
  OBVIOUS
<1>2. B \in SUBSET Nat /\ n \in B
  BY <1>1
<1>3. PICK x \in B : \A m \in B : x <= m
  BY <1>2, Least
<1>4. x \in Nat /\ \A y \in S : y <= x
  BY <1>1, <1>3
<1>5. x \in S
  <2> SUFFICES ASSUME x \notin S PROVE FALSE
    OBVIOUS
  <2>1. PICK y \in S : y \in 1 .. n
    OBVIOUS
  <2>2. x - 1 \in Nat
    BY <1>4, <2>1
  <2>3. \A z \in S : z <= x - 1
    BY <1>4
  <2>4. x - 1 \in B
    BY <1>1, <2>2, <2>3
  <2> QED BY <1>3, <1>4, <2>4
<1>6. PICK z : z = Max(S)
  OBVIOUS
<1>7. z \in S /\ \A y \in S : z >= y
  BY <1>4, <1>5, <1>6 DEF Max
<1> QED BY <1>6, <1>7

\* From anywhere in it, the rest of a sequence is an end of it.
LEMMA RestIsSuffix ==
    ASSUME NEW S, NEW s \in Seq(S), NEW i \in 1 .. Len(s)
    PROVE  IsSuffix(SubSeq(s, i, Len(s)), s)
<1>1. PICK N \in Nat : N = Len(s)
  OBVIOUS
<1>2. PICK n : n = N - i + 1
  OBVIOUS
<1>3. n \in 1 .. N /\ n \in Nat /\ i \in Nat /\ i <= N
  BY <1>1, <1>2
<1>4. PICK v : v = SubSeq(s, i, N)
  OBVIOUS
<1>5. v \in Seq(S) /\ Len(v) = n /\ \A k \in 1 .. n : v[k] = s[i + k - 1]
  <2>1. i \in Int /\ N \in Int /\ \A k \in i .. N : s[k] \in S
    BY <1>1, <1>3
  <2> QED BY <1>2, <1>3, <1>4, <2>1, SubSeqProperties
<1>6. PICK p, q : p = Reverse(v) /\ q = Reverse(s)
  OBVIOUS
<1>7. p = [k \in 1 .. n |-> v[(n - k) + 1]] /\ q = [k \in 1 .. N |-> s[(N - k) + 1]]
  BY <1>1, <1>5, <1>6 DEF Reverse
<1>8. \A k \in 1 .. N : (N - k) + 1 \in 1 .. N /\ s[(N - k) + 1] \in S
  BY <1>1
<1>9. \A k \in 1 .. n : (n - k) + 1 \in 1 .. n /\ i + ((n - k) + 1) - 1 = (N - k) + 1 /\ k \in 1 .. N
  BY <1>2, <1>3
<1>10. \A k \in 1 .. n : p[k] = q[k] /\ q[k] \in S
  <2> TAKE k \in 1 .. n
  <2>1. PICK l : l = (n - k) + 1
    OBVIOUS
  <2>2. l \in 1 .. n /\ i + l - 1 = (N - k) + 1 /\ k \in 1 .. N
    BY <1>9, <2>1
  <2>3. v[l] = s[(N - k) + 1]
    BY <1>5, <2>2
  <2>4. p[k] = v[l] /\ q[k] = s[(N - k) + 1]
    BY <1>7, <2>1, <2>2
  <2> QED BY <1>8, <2>2, <2>3, <2>4
<1>11. q \in Seq(S) /\ Len(q) = N
  BY <1>7, <1>8
<1>12. p \in Seq(S) /\ Len(p) = n
  <2>1. DOMAIN p = 1 .. n /\ p = [k \in 1 .. n |-> p[k]] /\ \A k \in 1 .. n : p[k] \in S
    BY <1>7, <1>10
  <2> QED BY <1>3, <2>1
<1>13. SubSeq(p, 1, n) \in Seq(S) /\ Len(SubSeq(p, 1, n)) = n
       /\ \A k \in 1 .. n : SubSeq(p, 1, n)[k] = p[k]
  BY <1>3, <1>10, SubSeqProperties
<1>14. SubSeq(q, 1, n) \in Seq(S) /\ Len(SubSeq(q, 1, n)) = n
       /\ \A k \in 1 .. n : SubSeq(q, 1, n)[k] = q[k]
  BY <1>3, <1>10, SubSeqProperties
<1>15. PICK x, y : x = SubSeq(p, 1, n) /\ y = SubSeq(q, 1, n)
  OBVIOUS
<1>16. x \in Seq(S) /\ y \in Seq(S) /\ Len(x) = Len(y) /\ \A k \in 1 .. Len(x) : x[k] = y[k]
  BY <1>10, <1>13, <1>14, <1>15
<1>17. x = y
  BY <1>16, SeqEqual
<1>18. Len(p) <= Len(q) /\ SubSeq(p, 1, Len(p)) = SubSeq(q, 1, Len(p))
  BY <1>3, <1>11, <1>12, <1>15, <1>17
<1> QED BY <1>1, <1>4, <1>6, <1>18 DEF IsSuffix, IsPrefix

\* Of two ends of a sequence the shorter one is an end of the longer one.
LEMMA ShorterIsSuffix ==
    ASSUME NEW S, NEW s \in Seq(S), NEW i \in 1 .. Len(s), NEW j \in i .. Len(s)
    PROVE  IsSuffix(SubSeq(s, j, Len(s)), SubSeq(s, i, Len(s)))
<1>1. PICK N \in Nat : N = Len(s)
  OBVIOUS
<1>2. i \in 1 .. N /\ N \in 1 .. N /\ i \in Nat /\ j \in Nat /\ i <= j /\ j <= N
  BY <1>1
<1>3. PICK v, n, m : v = SubSeq(s, i, N) /\ n = N - i + 1 /\ m = j - i + 1
  OBVIOUS
<1>4. v \in Seq(S) /\ Len(v) = n
  <2>1. i \in Int /\ N \in Int /\ \A k \in i .. N : s[k] \in S
    BY <1>1, <1>2
  <2> QED BY <1>2, <1>3, <2>1, SubSeqProperties
<1>5. m \in 1 .. n /\ n \in 1 .. n /\ i + m - 1 = j /\ i + n - 1 = N
  BY <1>2, <1>3
<1>6. SubSeq(v, m, n) = SubSeq(s, i + m - 1, i + n - 1)
  <2>1. m \in 1 .. N - i + 1 /\ n \in 1 .. N - i + 1
    BY <1>3, <1>5
  <2> QED BY <1>1, <1>2, <1>3, <2>1, SubSeqOfSubSeq
<1>7. SubSeq(v, m, n) = SubSeq(s, j, N)
  BY <1>5, <1>6
<1>8. IsSuffix(SubSeq(v, m, Len(v)), v)
  BY <1>4, <1>5, RestIsSuffix
<1> QED BY <1>1, <1>3, <1>4, <1>7, <1>8

\* What the engine sends and where it begins.
LEMMA ViewBegins ==
    ASSUME Typed, SessionShaped, ViewsSent, pc \in {"think", "act"}
    PROVE  /\ Memory \in Seq(Messages) /\ Legal(Memory)
           /\ \E v \in Beginnings(Memory) :
                 /\ local.view = SubSeq(Memory, v, Len(Memory))
                 /\ SystemTokens + EstimateMessages(local.view)
                        <= IF local.retried THEN RetryBudget ELSE Budget
<1>1. PICK budget : budget = IF local.retried THEN RetryBudget ELSE Budget
  OBVIOUS
<1>2. /\ local.thought \in {<<>>, <<Reply(<<>>)>>}
      /\ Legal(Memory)
      /\ IsLongestView(local.view, Memory, budget)
  BY <1>1 DEF ViewsSent
<1>3. Memory \in Seq(Messages)
  BY <1>2, WithThought DEF Typed, Memory
<1>4. PICK v \in Fitting(SystemTokens, Memory, budget) :
         local.view = SubSeq(Memory, v, Len(Memory))
  BY <1>2 DEF IsLongestView
<1>5. /\ v \in Beginnings(Memory)
      /\ SystemTokens + EstimateMessages(SubSeq(Memory, v, Len(Memory))) <= budget
  BY <1>4 DEF Fitting
<1>6. SystemTokens + EstimateMessages(local.view) <= budget
  BY <1>4, <1>5, Zenon
<1> QED BY <1>1, <1>2, <1>3, <1>4, <1>5, <1>6

\* So it is legal, an end of the session, not empty and not too long.
LEMMA ViewIsLegal ==
    ASSUME Typed, SessionShaped, ViewsSent
    PROVE  SentIsLegal
<1> SUFFICES ASSUME pc \in {"think", "act"}
             PROVE  /\ Legal(local.view) /\ IsSuffix(local.view, Memory) /\ local.view # <<>>
                    /\ SystemTokens + EstimateMessages(local.view)
                           <= IF local.retried THEN RetryBudget ELSE Budget
  BY DEF SentIsLegal
<1>1. PICK memory : memory = Memory
  OBVIOUS
<1>2. memory \in Seq(Messages) /\ Legal(memory)
  BY <1>1, ViewBegins
<1>3. PICK v \in Beginnings(memory) :
         /\ local.view = SubSeq(memory, v, Len(memory))
         /\ SystemTokens + EstimateMessages(local.view)
                <= IF local.retried THEN RetryBudget ELSE Budget
  BY <1>1, ViewBegins
<1>4. v \in 1 .. Len(memory) /\ Len(memory) \in v .. Len(memory) /\ Len(memory) \in Nat /\ v \in Nat
  <2>1. v \in 1 .. Len(memory) /\ Len(memory) \in Nat
    BY <1>2 DEF Beginnings
  <2> QED BY <2>1
<1>5. memory \in Seq(AnyMessages(IDs))
  <2>1. \A i \in 1 .. Len(memory) : memory[i] \in AnyMessages(IDs)
    BY <1>2, MessagesAreAny
  <2> QED BY <1>2, <2>1
<1>6. Legal(local.view)
  BY <1>2, <1>3, <1>4, <1>5, LegalPart
<1>7. IsSuffix(local.view, memory)
  BY <1>2, <1>3, <1>4, RestIsSuffix
<1>8. local.view # <<>>
  <2>1. \A i \in v .. Len(memory) : memory[i] \in Messages
    BY <1>2, <1>4
  <2>2. v \in Int /\ Len(memory) \in Int /\ v <= Len(memory)
    BY <1>4
  <2>3. Len(local.view) = Len(memory) - v + 1
    BY <1>3, <2>1, <2>2, SubSeqProperties
  <2>4. Len(local.view) # 0
    BY <1>4, <2>3
  <2> QED BY <2>4
<1> QED BY <1>1, <1>3, <1>6, <1>7, <1>8

\* And it holds the request, since after that nothing said by a user is there
\* but a reminder: the view begins nowhere else.
LEMMA ViewHoldsRequest ==
    ASSUME Typed, SessionShaped, ViewsSent
    PROVE  RequestIsAnchored
<1> SUFFICES ASSUME pc \in {"think", "act"},
                    \A i \in Asked .. Len(history) : history[i].kind # "reminder"
             PROVE  IsSuffix(From(Asked), local.view)
  BY DEF RequestIsAnchored
<1>1. PICK h, m, t, a : h = history /\ m = Memory /\ t = local.thought /\ a = Asked
  OBVIOUS
<1>2. h \in Seq(Messages) /\ h # <<>> /\ m \in Seq(Messages) /\ m = h \o t
      /\ t \in {<<>>, <<Reply(<<>>)>>} /\ t \in Seq(Messages)
  BY <1>1, ViewBegins, WithThought DEF Typed, SessionShaped, ViewsSent, Memory
<1>3. PICK H \in Nat, N \in Nat : H = Len(h) /\ N = Len(m)
  BY <1>2
<1>4. H # 0
  BY <1>2, <1>3
<1>5. /\ a \in 1 .. H
      /\ \A i \in 1 .. H : h[i].kind = "request" => i <= a
  <2>1. PICK I : I = {i \in 1 .. H : h[i].kind = "request"}
    OBVIOUS
  <2>2. 1 \in I /\ I \in SUBSET (1 .. H)
    BY <1>1, <1>2, <1>4, <2>1 DEF SessionShaped
  <2>3. Max(I) \in I /\ \A y \in I : Max(I) >= y
    BY <2>2, Greatest
  <2>4. a = Max(I)
    BY <1>1, <1>3, <2>1, <2>2, Zenon DEF Asked, SelectLastInSeq
  <2> QED BY <2>1, <2>2, <2>3, <2>4
<1>6. /\ H <= N
      /\ \A i \in 1 .. H : m[i] = h[i]
      /\ \A i \in 1 .. N : ~(i <= H) => m[i].kind = "reply"
  <2>1. Len(t) \in Nat /\ N = H + Len(t)
        /\ \A i \in 1 .. N : m[i] = IF i <= H THEN h[i] ELSE t[i - H]
    BY <1>2, <1>3, ConcatProperties
  <2>2. \A k \in 1 .. Len(t) : t[k].kind = "reply"
    <3>1. Reply(<<>>).kind = "reply"
      BY DEF Reply, Message
    <3>2. CASE t = <<>>
      BY <3>2
    <3>3. CASE t # <<>>
      <4>1. PICK r : r = Reply(<<>>) /\ t = <<r>>
        BY <1>2, <3>3
      <4>2. Len(t) = 1 /\ t[1] = r
        BY <4>1
      <4> QED BY <3>1, <4>1, <4>2
    <3> QED BY <3>2, <3>3
  <2>3. \A i \in 1 .. H : i \in 1 .. N /\ i <= H
    BY <2>1
  <2>4. \A i \in 1 .. N : ~(i <= H) => m[i].kind = "reply"
    <3> TAKE i \in 1 .. N
    <3> HAVE ~(i <= H)
    <3>1. i - H \in 1 .. Len(t) /\ m[i] = t[i - H]
      BY <2>1
    <3> QED BY <2>2, <3>1
  <2> QED BY <2>1, <2>3, <2>4
<1>7. PICK v \in Beginnings(m) : local.view = SubSeq(m, v, N)
  BY <1>1, <1>3, ViewBegins
<1>8. v \in 1 .. N /\ (v = 1 \/ (Role(m[v]) = "user" /\ m[v].answers = NoCall))
  BY <1>2, <1>3, <1>7 DEF Beginnings
<1>9. v <= a
  <2> SUFFICES ASSUME ~(v <= a) PROVE FALSE
    OBVIOUS
  <2>1. v # 1 /\ v > a
    BY <1>3, <1>5, <1>8
  <2>2. Role(m[v]) = "user" /\ m[v].answers = NoCall
    BY <1>8, <2>1
  <2>3. m[v].kind # "reply"
    BY <2>2 DEF Role
  <2>4. v <= H
    BY <1>6, <1>8, <2>3
  <2>5. v \in 1 .. H /\ v \in a .. H /\ m[v] = h[v] /\ h[v] \in Messages
    BY <1>2, <1>3, <1>5, <1>6, <1>8, <2>1, <2>4
  <2>6. h[v].kind # "request" /\ h[v].kind # "reminder"
    BY <1>1, <1>3, <1>5, <2>1, <2>5
  <2>7. h[v].kind = "result"
    BY <2>3, <2>5, <2>6 DEF Messages
  <2>8. h[v].answers # NoCall
    BY <1>1, <1>2, <1>3, <2>5, <2>7 DEF SessionShaped
  <2> QED BY <2>2, <2>5, <2>8
<1>10. a \in v .. Len(m) /\ v \in 1 .. Len(m)
  BY <1>3, <1>5, <1>6, <1>8, <1>9
<1>11. IsSuffix(SubSeq(m, a, Len(m)), SubSeq(m, v, Len(m)))
  BY <1>2, <1>10, ShorterIsSuffix
<1> QED BY <1>1, <1>3, <1>7, <1>11 DEF From

-----------------------------------------------------------------------------
(* The theorems.                                                            *)

\* Types, counters, the record of started tools, the tool chains and what is sent
\* of them hold together in every reachable state (loop.go 102-258, context.go,
\* reminder.go 34-70).
THEOREM EngineCorrect == SafeSpec => []EngineInvariant
<1>1. Init => EngineInvariant
  <2>1. Init => Typed /\ StreakCounted /\ DispatchRecorded
    BY FreshTyped, EmptySeq DEF Init, Typed, StreakCounted, DispatchRecorded,
                    ToolsRunOnce, Fresh, NoFailures, IsInjective
  <2>2. Init => ChainsKept
    BY DEF Init, ChainsKept, Legal
  <2>3. Init => SessionShaped /\ ViewsSent /\ DamageIsFinal
    BY DEF Init, SessionShaped, ViewsSent, DamageIsFinal
  <2> QED BY <2>1, <2>2, <2>3 DEF EngineInvariant
<1>2. EngineInvariant /\ [Next]_vars => EngineInvariant'
  BY StepTyped, StepCounted, StepRecorded, StepKeepsChains, StepShaped, StepViews, StepDamage
     DEF EngineInvariant
<1> QED BY <1>1, <1>2, PTL DEF SafeSpec

\* No third failure in a row of a turn's first call is followed by another turn
\* without a reminder (reminder.go 43-67, loop.go 246-253).
THEOREM RemindedInTime == SafeSpec => []ReminderNotMissed
<1>1. EngineInvariant => ReminderNotMissed
  BY DEF EngineInvariant, StreakCounted, ReminderNotMissed
<1> QED BY <1>1, EngineCorrect, PTL

\* Tools run only for a saved reply and once for each, across cancellations
\* and restarts (loop.go 169-236).
THEOREM NeverRerun == SafeSpec => []ToolsRunOnce
<1>1. EngineInvariant => ToolsRunOnce
  BY DEF EngineInvariant, DispatchRecorded
<1> QED BY <1>1, EngineCorrect, PTL

\* Until a run is cut short or a reply repeats an ID, the session that a run
\* leaves behind, and the one each turn starts with, has a result for every
\* call (loop.go 169-245).
THEOREM CompleteRuns == SafeSpec => []CompleteUnlessInterrupted
<1>1. EngineInvariant => CompleteUnlessInterrupted
  BY DEF EngineInvariant, ChainsKept, CompleteUnlessInterrupted
<1> QED BY <1>1, EngineCorrect, PTL

\* The model is sent a complete end of the conversation that fits, whatever
\* crashes and cancellations left in the session (loop.go 109-167, context.go).
THEOREM SendsLegal == SafeSpec => []SentIsLegal
<1>1. EngineInvariant => SentIsLegal
  BY ViewIsLegal DEF EngineInvariant
<1> QED BY <1>1, EngineCorrect, PTL

\* Whatever the budget, the view begins no later than the request being
\* answered unless a reminder came after that (builder.go 122-153).
THEOREM SendsRequest == SafeSpec => []RequestIsAnchored
<1>1. EngineInvariant => RequestIsAnchored
  BY ViewHoldsRequest DEF EngineInvariant
<1> QED BY <1>1, EngineCorrect, PTL

\* No reply is saved for a conversation whose tool chains are broken: a session
\* that was damaged gets no further (loop.go 102-167, builder.go 32-71).
THEOREM DamagedStays == SafeSpec => []DamageIsFinal
<1>1. EngineInvariant => DamageIsFinal
  BY DEF EngineInvariant
<1> QED BY <1>1, EngineCorrect, PTL

\* For every history, of any length, units accepts exactly those whose tool
\* chains are complete, and cuts them into groups that are complete themselves
\* without losing a message (builder.go 32-71).
THEOREM UnitsCorrect ==
    ASSUME NEW ids, history \in Seq(AnyMessages(ids))
    PROVE  UnitsAreChains
<1>1. PICK units : units = Units(history)
  OBVIOUS
<1>2. /\ units.legal = Legal(history)
      /\ Legal(history) => /\ FlattenSeq(units.groups) = history
                           /\ \A i \in DOMAIN units.groups : Legal(units.groups[i])
  BY <1>1, UnitsAcceptLegal, UnitsOfLegal, Zenon
<1> QED BY <1>1, <1>2, Zenon DEF UnitsAreChains

\* For every history and every budget, Build returns the longest view that
\* begins at a request and fits, or an error when there is none or the history
\* is illegal (builder.go 99-171).
THEOREM BuildCorrect ==
    ASSUME NEW ids, history \in Seq(AnyMessages(ids))
    PROVE  BuildIsLongestView
<1> SUFFICES ASSUME NEW budget \in 0 .. Budget
             PROVE  LET built   == Build(SystemTokens, history, budget)
                        fitting == Fitting(SystemTokens, history, budget)
                    IN /\ built.ok = /\ Legal(history)
                                     /\ budget >= SystemTokens /\ budget > 0
                                     /\ history # <<>> => fitting # {}
                       /\ built.ok => \/ history = <<>> /\ built.messages = <<>>
                                      \/ \E i \in fitting :
                                            /\ \A j \in fitting : i <= j
                                            /\ built.messages = SubSeq(history, i, Len(history))
  BY Zenon DEF BuildIsLongestView
<1>1. PICK built, fitting : /\ built = Build(SystemTokens, history, budget)
                            /\ fitting = Fitting(SystemTokens, history, budget)
  OBVIOUS
<1>2. SystemTokens \in Nat /\ budget \in Nat /\ (budget >= SystemTokens <=> SystemTokens <= budget)
  BY BuilderAssumption
<1>3. /\ built.ok <=> /\ Legal(history) /\ SystemTokens <= budget /\ budget > 0
                      /\ history # <<>> => fitting # {}
      /\ built.ok => \/ history = <<>> /\ built.messages = <<>>
                     \/ \E i \in fitting : /\ \A j \in fitting : i <= j
                                           /\ built.messages = SubSeq(history, i, Len(history))
  BY <1>1, <1>2, BuildSelectsView
<1>4. built.ok \in BOOLEAN
  BY <1>1 DEF Build
<1>5. built.ok = (Legal(history) /\ budget >= SystemTokens /\ budget > 0
                  /\ (history # <<>> => fitting # {}))
  BY <1>2, <1>3, <1>4
<1> QED BY <1>1, <1>3, <1>5, Zenon
=============================================================================
