------------------------------ MODULE AnswerProofs ------------------------------
(***************************************************************************)
(* Theorems about what an answer is made from: the passages Retrieval      *)
(* finds, whatever matches and however it ranks, and the conversation so   *)
(* far that Dialogue loads, for any number of turns.                       *)
(***************************************************************************)
EXTENDS Retrieval, Dialogue, FiniteSetTheorems, TLAPS

(* Sorting by the number of those before *)

\* The number of elements before r in the order.
Ahead(R, order, r) == {q \in R : <<q, r>> \in order}

\* In a finite set with a total order, each element has the place that the number of
\* those before it gives, and each place has an element.
LEMMA Places ==
    ASSUME NEW R, IsFiniteSet(R), NEW order \in SUBSET (R \X R),
           \A a \in R : <<a, a>> \notin order,
           \A a, b, c \in R : <<a, b>> \in order /\ <<b, c>> \in order => <<a, c>> \in order,
           \A a, b \in R : a = b \/ <<a, b>> \in order \/ <<b, a>> \in order
    PROVE  /\ Cardinality(R) \in Nat
           /\ \A a \in R : Cardinality(Ahead(R, order, a)) \in 0 .. Cardinality(R) - 1
           /\ \A a, b \in R : <<a, b>> \in order =>
                 Cardinality(Ahead(R, order, a)) < Cardinality(Ahead(R, order, b))
           /\ \A i \in 1 .. Cardinality(R) :
                 \E a \in R : Cardinality(Ahead(R, order, a)) = i - 1
<1> DEFINE Prior(a) == Ahead(R, order, a)
           n == Cardinality(R)
<1>1. n \in Nat
  BY FS_CardinalityType
<1>2. \A a \in R : Prior(a) \in SUBSET R /\ IsFiniteSet(Prior(a)) /\ Cardinality(Prior(a)) \in Nat
                     /\ Cardinality(Prior(a)) <= n
  <2> TAKE a \in R
  <2>1. Prior(a) \in SUBSET R
    BY DEF Ahead
  <2> HIDE DEF Prior
  <2> QED
    BY <2>1, FS_Subset, FS_CardinalityType
<1>3. \A a \in R : Cardinality(Prior(a)) < n
  <2> TAKE a \in R
  <2>1. a \notin Prior(a)
    BY DEF Ahead
  <2>2. Prior(a) # R
    BY <2>1
  <2> HIDE DEF Prior
  <2>3. Cardinality(Prior(a)) # n
    BY <1>2, <2>2, FS_Subset
  <2> QED
    BY <1>1, <1>2, <2>3
<1>4. \A a, b \in R : <<a, b>> \in order => Cardinality(Prior(a)) < Cardinality(Prior(b))
  <2> SUFFICES ASSUME NEW a \in R, NEW b \in R, <<a, b>> \in order
               PROVE  Cardinality(Prior(a)) < Cardinality(Prior(b))
    OBVIOUS
  <2>1. Prior(a) \in SUBSET Prior(b)
    BY DEF Ahead
  <2>2. a \in Prior(b) /\ a \notin Prior(a)
    BY DEF Ahead
  <2> HIDE DEF Prior
  <2>3. Cardinality(Prior(a)) <= Cardinality(Prior(b)) /\ Cardinality(Prior(a)) # Cardinality(Prior(b))
    BY <1>2, <2>1, <2>2, FS_Subset
  <2> QED
    BY <1>2, <2>3
<1>5. \A i \in 1 .. n : \E a \in R : Cardinality(Prior(a)) = i - 1
  <2> DEFINE f == [a \in R |-> Cardinality(Prior(a)) + 1]
  <2> HIDE DEF Prior, n
  <2>1. f \in [R -> 1 .. n]
    BY <1>1, <1>2, <1>3
  <2>2. \A a, b \in R : f[a] = f[b] => a = b
    <3> SUFFICES ASSUME NEW a \in R, NEW b \in R, f[a] = f[b] PROVE a = b
      OBVIOUS
    <3>1. Cardinality(Prior(a)) = Cardinality(Prior(b))
      BY <1>2
    <3>2. <<a, b>> \notin order /\ <<b, a>> \notin order
      <4> HIDE DEF Prior, f
      <4> QED
        BY <1>2, <1>4, <3>1
    <3> QED
      BY <3>2
  <2>3. f \in Injection(R, 1 .. n)
    <3> HIDE DEF f
    <3> QED
      BY <2>1, <2>2 DEF Injection, IsInjective
  <2>4. IsFiniteSet(1 .. n) /\ Cardinality(1 .. n) = n
    BY <1>1, FS_Interval
  <2>5. f \in Surjection(R, 1 .. n)
    <3> HIDE DEF f
    <3> QED
      BY <2>3, <2>4, FS_Injection DEF n
  <2>6. \A i \in 1 .. n : \E a \in R : f[a] = i
    <3> HIDE DEF f
    <3> QED
      BY <2>5 DEF Surjection
  <2> QED
    BY <1>2, <2>6
<1> QED
  BY <1>1, <1>2, <1>3, <1>4, <1>5

\* The elements of a finite set in an order, each at the place that the number of those
\* before it gives.
LEMMA Sorted ==
    ASSUME NEW R, IsFiniteSet(R), NEW order \in SUBSET (R \X R),
           \A a \in R : <<a, a>> \notin order,
           \A a, b, c \in R : <<a, b>> \in order /\ <<b, c>> \in order => <<a, c>> \in order,
           \A a, b \in R : a = b \/ <<a, b>> \in order \/ <<b, a>> \in order,
           NEW s, s = [i \in 1 .. Cardinality(R) |-> s[i]],
           \A i \in 1 .. Cardinality(R) : \A a \in R : Cardinality(Ahead(R, order, a)) = i - 1 =>
               s[i] \in R /\ Cardinality(Ahead(R, order, s[i])) = i - 1
    PROVE  /\ Cardinality(R) \in Nat /\ s \in [1 .. Cardinality(R) -> R]
           /\ \A a \in R : \E i \in 1 .. Cardinality(R) : s[i] = a
           /\ \A i, j \in 1 .. Cardinality(R) : i < j <=> <<s[i], s[j]>> \in order
<1> DEFINE n == Cardinality(R)
           before(a) == Cardinality(Ahead(R, order, a))
<1>1. /\ n \in Nat
      /\ \A a \in R : before(a) \in 0 .. n - 1
      /\ \A a, b \in R : <<a, b>> \in order => before(a) < before(b)
      /\ \A i \in 1 .. n : \E a \in R : before(a) = i - 1
  BY Places
<1>2. /\ s = [i \in 1 .. n |-> s[i]]
      /\ \A i \in 1 .. n : \A a \in R : before(a) = i - 1 => s[i] \in R /\ before(s[i]) = i - 1
  OBVIOUS
<1> HIDE DEF n, before
<1>3. \A i \in 1 .. n : s[i] \in R /\ before(s[i]) = i - 1
  BY <1>1, <1>2
<1>4. \A a, b \in R : before(a) = before(b) => a = b
  <2> SUFFICES ASSUME NEW a \in R, NEW b \in R, before(a) = before(b), a # b PROVE FALSE
    OBVIOUS
  <2>1. before(a) < before(b) \/ before(b) < before(a)
    <3>1. <<a, b>> \in order \/ <<b, a>> \in order
      OBVIOUS
    <3> QED
      BY <1>1, <3>1
  <2> QED
    BY <1>1, <2>1
<1>5. ASSUME NEW a \in R PROVE \E i \in 1 .. n : s[i] = a
  <2>1. before(a) + 1 \in 1 .. n /\ (before(a) + 1) - 1 = before(a)
    BY <1>1
  <2>2. s[before(a) + 1] \in R /\ before(s[before(a) + 1]) = before(a)
    BY <1>3, <2>1
  <2> QED
    BY <1>4, <2>1, <2>2
<1>6. ASSUME NEW i \in 1 .. n, NEW j \in 1 .. n PROVE i < j <=> <<s[i], s[j]>> \in order
  <2>1. s[i] \in R /\ before(s[i]) = i - 1 /\ s[j] \in R /\ before(s[j]) = j - 1
    BY <1>3
  <2>2. <<s[i], s[j]>> \in order => before(s[i]) < before(s[j])
    BY <1>1, <2>1
  <2>3. <<s[j], s[i]>> \in order => before(s[j]) < before(s[i])
    BY <1>1, <2>1
  <2>4. i \in Nat /\ j \in Nat
    BY <1>1
  <2>5. CASE <<s[i], s[j]>> \in order
    BY <2>1, <2>2, <2>4, <2>5
  <2>6. CASE <<s[j], s[i]>> \in order
    <3>1. j < i
      BY <2>1, <2>3, <2>4, <2>6
    <3>2. ~(i < j)
      BY <2>4, <3>1
    <3>3. <<s[i], s[j]>> \notin order
      BY <2>1, <2>6
    <3> QED
      BY <3>2, <3>3
  <2>7. CASE s[i] = s[j]
    <3>1. i = j
      BY <2>1, <2>4, <2>7
    <3>2. ~(i < j)
      BY <2>4, <3>1
    <3>3. <<s[i], s[j]>> \notin order
      BY <2>1, <2>7
    <3> QED
      BY <3>2, <3>3
  <2> QED
    BY <2>1, <2>5, <2>6, <2>7
<1>7. s \in [1 .. n -> R]
  BY <1>2, <1>3
<1> QED
  BY <1>1, <1>5, <1>6, <1>7 DEF n
-------------------------------------------------------------------------------
(* What a turn is told of the ones before it *)

\* What a row of messages holds.
Rows == [turn : Talk, status : Statuses, created : Nat, deleted : BOOLEAN]

\* The types of Dialogue.
TalkTyped ==
    /\ talk \in [Talk -> {"new", "asked", "loaded", "answered", "logged", "delivered", "failed"}]
    /\ began \in [Talk -> Nat] /\ ticks \in Nat
    /\ recalled \in [Talk -> Seq(Talk)] /\ prior \in [Talk -> Talk \cup {NoTurn}]
    /\ status \in [Talk -> Statuses] /\ heard \in [Talk -> SUBSET Talk]
    /\ messages \subseteq Rows /\ IsFiniteSet(messages)
    /\ gone \in BOOLEAN

\* The turns that are logged.
Logged == {t \in Talk : talk[t] \in {"logged", "delivered"}}

\* No two turns have the same date.
Dated == /\ \A t \in Talk : talk[t] # "new" => began[t] \in 1 .. ticks
         /\ \A t, u \in Talk : talk[t] # "new" /\ talk[u] # "new" /\ began[t] = began[u] => t = u

\* A row is what its turn was logged with.
RowsTrue == /\ \A m \in messages : /\ m.turn \in Logged
                                   /\ m.created = began[m.turn] /\ m.status = status[m.turn]
                                   /\ ~gone => ~m.deleted
            /\ Logged \subseteq Committed

\* What a client has heard when it asks is older than its question.
HeardBefore == \A t \in Talk : \A u \in heard[t] : talk[u] = "delivered" /\ began[u] < began[t]

\* A history goes forward.
Forward == \A t \in Talk : \A i, j \in DOMAIN recalled[t] :
               /\ recalled[t][i] \in Logged
               /\ i < j => began[recalled[t][i]] < began[recalled[t][j]]

\* The inductive invariant of Dialogue.
DialogueInv == TalkTyped /\ Dated /\ RowsTrue /\ HeardBefore /\ Forward /\ FollowUpInformed
-------------------------------------------------------------------------------
\* What is logged, asked or loaded stays so, and keeps what it has.
Settling ==
    /\ \A u \in Logged : u \in Logged' /\ began'[u] = began[u] /\ status'[u] = status[u]
    /\ \A u \in Talk : talk[u] = "delivered" => talk'[u] = "delivered"
    /\ \A u \in Talk : talk[u] # "new" => heard'[u] = heard[u] /\ talk'[u] # "new"
    /\ \A u \in Talk : talk[u] \notin {"new", "asked"} =>
           recalled'[u] = recalled[u] /\ prior'[u] = prior[u]
    /\ \A u \in Talk : talk'[u] \notin {"new", "asked"} =>
           talk[u] \notin {"new", "asked"} \/ LoadHistory(u)
    /\ gone => gone'
    /\ Committed \subseteq Committed'

\* A deletion keeps every row, and what is logged, but for the marks.
LEMMA Gone ==
    ASSUME TalkTyped, DeleteTalk
    PROVE  /\ \A m \in messages : [m EXCEPT !.deleted = TRUE] \in messages'
           /\ \A k \in messages' : \E m \in messages :
                 k.turn = m.turn /\ k.created = m.created /\ k.status = m.status /\ k \in Rows
           /\ Committed' = Committed
<1>1. \A m \in messages : LET k == [m EXCEPT !.deleted = TRUE] IN
          k \in Rows /\ k.turn = m.turn /\ k.created = m.created /\ k.status = m.status
  BY DEF TalkTyped, Rows
<1>2. messages' = {[m EXCEPT !.deleted = TRUE] : m \in messages}
  BY DEF DeleteTalk
<1> QED
  BY ZenonT(60), <1>1, <1>2 DEF Committed

\* Every step is settling.
LEMMA Settled ==
    ASSUME TalkTyped, DialogueNext
    PROVE  Settling
<1> USE DEF Talking, Logged, BeginNow, Settling
<1>0. /\ talk \in [Talk -> {"new", "asked", "loaded", "answered", "logged", "delivered", "failed"}]
      /\ DOMAIN began = Talk /\ DOMAIN recalled = Talk /\ DOMAIN prior = Talk
      /\ DOMAIN status = Talk /\ DOMAIN heard = Talk
  BY DEF TalkTyped
<1>1. CASE DeleteTalk
  <2>1. Committed' = Committed
    BY <1>1, Gone
  <2> QED
    BY <1>1, <2>1 DEF DeleteTalk
<1>2. ASSUME NEW t \in Talk, Ask(t) PROVE Settling
  BY <1>0, <1>2 DEF Ask, Committed
<1>3. ASSUME NEW t \in Talk, LoadHistory(t) PROVE Settling
  <2>1. /\ \E r : recalled' = [recalled EXCEPT ![t] = r]
        /\ \E p : prior' = [prior EXCEPT ![t] = p]
        /\ talk[t] = "asked" /\ talk' = [talk EXCEPT ![t] = "loaded"]
        /\ UNCHANGED <<began, status, messages, gone, heard>>
    BY <1>3 DEF LoadHistory
  <2>2. Committed' = Committed
    BY <2>1 DEF Committed
  <2> QED
    BY <1>0, <1>3, <2>1, <2>2
<1>4. ASSUME NEW t \in Talk, Generated(t) PROVE Settling
  <2>1. /\ \E x : status' = [status EXCEPT ![t] = x]
        /\ talk[t] = "loaded" /\ talk' = [talk EXCEPT ![t] = "answered"]
        /\ UNCHANGED <<began, recalled, prior, messages, gone, heard>>
    BY <1>4 DEF Generated
  <2>2. Committed' = Committed
    BY <2>1 DEF Committed
  <2> QED
    BY <1>0, <2>1, <2>2
<1>5. ASSUME NEW t \in Talk, StreamedOut(t) PROVE Settling
  <2>1. /\ status' = status \/ \E x : status' = [status EXCEPT ![t] = x]
        /\ talk[t] = "loaded" /\ talk' = [talk EXCEPT ![t] = "answered"]
        /\ \E x : began' = [began EXCEPT ![t] = x]
        /\ UNCHANGED <<recalled, prior, messages, gone, heard>>
    BY <1>5 DEF StreamedOut
  <2>2. Committed' = Committed
    BY <2>1 DEF Committed
  <2> QED
    BY <1>0, <2>1, <2>2
<1>6. ASSUME NEW t \in Talk, Fail(t) PROVE Settling
  BY <1>0, <1>6 DEF Fail, Committed
<1>7. ASSUME NEW t \in Talk, LogTurn(t) PROVE Settling
  BY <1>0, <1>7 DEF LogTurn, Committed
<1>8. ASSUME NEW t \in Talk, Deliver(t) PROVE Settling
  BY <1>0, <1>8 DEF Deliver, Committed
<1> QED
  BY <1>1, <1>2, <1>3, <1>4, <1>5, <1>6, <1>7, <1>8 DEF DialogueNext

\* The rows in their order: each has a place, and dates go up.
LEMMA InOrder ==
    ASSUME TalkTyped, Dated, RowsTrue, ~gone, NEW R \in SUBSET messages
    PROVE  /\ Cardinality(R) \in Nat
           /\ Chronological(R) \in [1 .. Cardinality(R) -> R]
           /\ \A m \in R : \E i \in 1 .. Cardinality(R) : Chronological(R)[i] = m
           /\ \A i, j \in 1 .. Cardinality(R) :
                 i < j => Chronological(R)[i].created < Chronological(R)[j].created
<1> DEFINE order == {p \in R \X R : p[1].created < p[2].created}
           n == Cardinality(R)
           s == Chronological(R)
           older(m) == {k \in R : k.created < m.created}
<1>1. IsFiniteSet(R)
  BY FS_Subset DEF TalkTyped
<1>2. \A m \in R : m \in Rows /\ m.created \in Nat
  BY DEF TalkTyped, Rows
<1>3. \A k, m \in R : k.created = m.created => k = m
  <2> SUFFICES ASSUME NEW k \in R, NEW m \in R, k.created = m.created PROVE k = m
    OBVIOUS
  <2>1. k.turn \in Logged /\ m.turn \in Logged /\ began[k.turn] = began[m.turn]
    BY DEF RowsTrue
  <2>2. k.turn = m.turn
    BY <2>1 DEF Dated, Logged
  <2>3. k.status = m.status /\ k.deleted = FALSE /\ m.deleted = FALSE
    BY <2>2, <1>2 DEF RowsTrue, Rows
  <2> QED
    BY <1>2, <2>2, <2>3 DEF Rows
<1>4. order \in SUBSET (R \X R)
  OBVIOUS
<1>5. \A k, m \in R : <<k, m>> \in order <=> k.created < m.created
  OBVIOUS
<1>6. \A m \in R : Ahead(R, order, m) = older(m)
  BY <1>5 DEF Ahead
<1> HIDE DEF order
<1>7. \A m \in R : <<m, m>> \notin order
  BY <1>2, <1>5
<1>8. \A k, l, m \in R : <<k, l>> \in order /\ <<l, m>> \in order => <<k, m>> \in order
  BY <1>2, <1>5
<1>9. \A k, m \in R : k = m \/ <<k, m>> \in order \/ <<m, k>> \in order
  <2> SUFFICES ASSUME NEW k \in R, NEW m \in R, k # m
               PROVE  <<k, m>> \in order \/ <<m, k>> \in order
    OBVIOUS
  <2>1. k.created < m.created \/ m.created < k.created
    BY <1>2, <1>3
  <2> QED
    BY <1>5, <2>1
<1>10. /\ s = [i \in 1 .. n |-> s[i]]
       /\ \A i \in 1 .. n : \A m \in R : Cardinality(Ahead(R, order, m)) = i - 1 =>
             s[i] \in R /\ Cardinality(Ahead(R, order, s[i])) = i - 1
  <2>1. s = [i \in 1 .. n |-> CHOOSE m \in R : Cardinality(older(m)) = i - 1]
    BY DEF Chronological
  <2> HIDE DEF older, n, s
  <2>2. \A i \in 1 .. n : \A m \in R : Cardinality(older(m)) = i - 1 =>
           s[i] \in R /\ Cardinality(older(s[i])) = i - 1
    BY <2>1
  <2> QED
    BY <1>6, <2>1, <2>2
<1>11. /\ n \in Nat /\ s \in [1 .. n -> R]
       /\ \A m \in R : \E i \in 1 .. n : s[i] = m
       /\ \A i, j \in 1 .. n : i < j <=> <<s[i], s[j]>> \in order
  <2> HIDE DEF s
  <2> QED
    BY <1>1, <1>4, <1>7, <1>8, <1>9, <1>10, Sorted DEF n
<1> HIDE DEF n, s
<1>12. \A i, j \in 1 .. n : i < j => s[i].created < s[j].created
  BY <1>5, <1>11
<1> QED
  BY <1>11, <1>12 DEF n, s

\* What a turn is given: of the rows, those of the last turns.
LEMMA HistoryLoaded ==
    ASSUME TalkTyped, Dated, RowsTrue, NEW t \in Talk, LoadHistory(t)
    PROVE  /\ TalkTyped'
           /\ \A i \in DOMAIN recalled'[t] : recalled'[t][i] \in Logged
           /\ \A i, j \in DOMAIN recalled'[t] : i < j =>
                 began[recalled'[t][i]] < began[recalled'[t][j]]
           /\ ~gone =>
                 /\ \A m \in Recent(messages, HistoryTurns[t]) :
                       m.status = "answered" => \E i \in DOMAIN recalled'[t] : recalled'[t][i] = m.turn
                 /\ Recent(messages, HistoryTurns[t]) # {} =>
                       /\ prior'[t] \in Talk
                       /\ \A m \in Recent(messages, HistoryTurns[t]) : m.created <= began[prior'[t]]
<1> DEFINE rows == Recent(IF gone THEN {} ELSE LiveMessages, HistoryTurns[t])
           kept == {m \in rows : m.status = "answered"}
           answered == Chronological(kept)
<1>1. /\ recalled' = [recalled EXCEPT ![t] = [i \in DOMAIN answered |-> answered[i].turn]]
      /\ prior' = [prior EXCEPT ![t] = IF rows = {} THEN NoTurn ELSE Last(Chronological(rows)).turn]
      /\ talk' = [talk EXCEPT ![t] = "loaded"] /\ talk[t] = "asked"
      /\ UNCHANGED <<began, ticks, status, messages, gone, logging, heard>>
  BY DEF LoadHistory, Talking
<1>2. CASE gone
  <2>1. rows = {} /\ kept = {}
    BY <1>2 DEF Recent
  <2>2. DOMAIN answered = 1 .. 0
    BY <2>1, FS_EmptySet DEF Chronological
  <2> HIDE DEF rows, answered
  <2>3. [i \in DOMAIN answered |-> answered[i].turn] \in Seq(Talk)
    BY <2>2
  <2>4. recalled'[t] = [i \in DOMAIN answered |-> answered[i].turn]
    BY <1>1 DEF TalkTyped
  <2>5. TalkTyped'
    BY <1>1, <2>1, <2>3 DEF TalkTyped
  <2> QED
    BY <1>2, <2>2, <2>4, <2>5
<1>3. CASE ~gone
  <2>1. LiveMessages = messages
    BY <1>3 DEF LiveMessages, RowsTrue
  <2>2. rows = Recent(messages, HistoryTurns[t])
    BY <1>3, <2>1
  <2>3. rows \in SUBSET messages
    BY <2>2 DEF Recent
  <2> HIDE DEF rows
  <2>4. kept \in SUBSET messages
    BY <2>3
  <2> HIDE DEF kept
  <2>5. /\ Cardinality(kept) \in Nat
        /\ answered \in [1 .. Cardinality(kept) -> kept]
        /\ \A m \in kept : \E i \in 1 .. Cardinality(kept) : answered[i] = m
        /\ \A i, j \in 1 .. Cardinality(kept) : i < j => answered[i].created < answered[j].created
    BY <1>3, <2>4, InOrder
  <2>6. /\ Cardinality(rows) \in Nat
        /\ Chronological(rows) \in [1 .. Cardinality(rows) -> rows]
        /\ \A m \in rows : \E i \in 1 .. Cardinality(rows) : Chronological(rows)[i] = m
        /\ \A i, j \in 1 .. Cardinality(rows) :
              i < j => Chronological(rows)[i].created < Chronological(rows)[j].created
    BY <1>3, <2>3, InOrder
  <2> HIDE DEF answered
  <2>7. \A m \in messages : m \in Rows /\ m.turn \in Logged /\ m.turn \in Talk /\ m.created = began[m.turn]
    BY DEF TalkTyped, RowsTrue, Rows
  <2>8. /\ DOMAIN recalled'[t] = 1 .. Cardinality(kept)
        /\ \A i \in 1 .. Cardinality(kept) : recalled'[t][i] = answered[i].turn
    BY <1>1, <2>5 DEF TalkTyped
  <2>9. [i \in DOMAIN answered |-> answered[i].turn] \in Seq(Talk)
    BY <2>4, <2>5, <2>7
  <2>10. \A m \in rows : m.created <= Chronological(rows)[Cardinality(rows)].created
    <3> SUFFICES ASSUME NEW m \in rows PROVE m.created <= Chronological(rows)[Cardinality(rows)].created
      OBVIOUS
    <3>1. PICK i \in 1 .. Cardinality(rows) : Chronological(rows)[i] = m
      BY <2>6
    <3>2. Cardinality(rows) \in 1 .. Cardinality(rows)
      BY <2>6, <3>1
    <3>3. Chronological(rows)[Cardinality(rows)] \in messages
      BY <2>3, <2>6, <3>2
    <3>4. m.created \in Nat /\ Chronological(rows)[Cardinality(rows)].created \in Nat
      BY <2>3, <2>7, <3>3 DEF Rows
    <3>5. i = Cardinality(rows) \/ i < Cardinality(rows)
      BY <2>6, <3>1
    <3> QED
      BY <2>6, <3>1, <3>2, <3>4, <3>5
  <2>11. rows # {} => /\ Last(Chronological(rows)) = Chronological(rows)[Cardinality(rows)]
                      /\ Chronological(rows)[Cardinality(rows)] \in messages
    <3> SUFFICES ASSUME rows # {} PROVE /\ Last(Chronological(rows)) = Chronological(rows)[Cardinality(rows)]
                                        /\ Chronological(rows)[Cardinality(rows)] \in messages
      OBVIOUS
    <3>1. Cardinality(rows) \in 1 .. Cardinality(rows)
      BY <2>6
    <3>2. Len(Chronological(rows)) = Cardinality(rows)
      BY <2>6
    <3> QED
      BY <2>3, <2>6, <3>1, <3>2 DEF Last
  <2>12. rows # {} => /\ prior'[t] = Chronological(rows)[Cardinality(rows)].turn
                      /\ prior'[t] \in Talk
                      /\ began[prior'[t]] = Chronological(rows)[Cardinality(rows)].created
    BY <1>1, <2>7, <2>11 DEF TalkTyped
  <2>13. TalkTyped'
    <3>1. recalled' \in [Talk -> Seq(Talk)]
      BY <1>1, <2>9 DEF TalkTyped
    <3>2. prior' \in [Talk -> Talk \cup {NoTurn}]
      BY <1>1, <2>12 DEF TalkTyped
    <3> QED
      BY <1>1, <3>1, <3>2 DEF TalkTyped
  <2>14. \A i \in 1 .. Cardinality(kept) : answered[i] \in messages
    BY <2>4, <2>5
  <2>15. \A i \in DOMAIN recalled'[t] : recalled'[t][i] \in Logged
    BY <2>7, <2>8, <2>14
  <2>16. \A i, j \in DOMAIN recalled'[t] : i < j => began[recalled'[t][i]] < began[recalled'[t][j]]
    BY <2>5, <2>7, <2>8, <2>14
  <2>17. \A m \in rows : m.status = "answered" => \E i \in DOMAIN recalled'[t] : recalled'[t][i] = m.turn
    BY <2>5, <2>8 DEF kept
  <2> QED
    BY <2>2, <2>10, <2>12, <2>13, <2>15, <2>16, <2>17
<1> QED
  BY <1>2, <1>3

\* Types, dates, rows and what was heard.
LEMMA DatesStep ==
    ASSUME TalkTyped, Dated, RowsTrue, HeardBefore, DialogueNext
    PROVE  TalkTyped' /\ Dated' /\ RowsTrue' /\ HeardBefore'
<1> USE DEF TalkTyped, Talking, Logged, BeginNow
<1>1. CASE DeleteTalk
  <2>0. UNCHANGED <<talk, began, ticks, recalled, prior, status, heard>> /\ gone' = TRUE
    BY <1>1 DEF DeleteTalk
  <2>1. IsFiniteSet(messages')
    <3> DEFINE f == [m \in messages |-> [m EXCEPT !.deleted = TRUE]]
    <3>1. messages' = {[m EXCEPT !.deleted = TRUE] : m \in messages}
      BY <1>1 DEF DeleteTalk
    <3>2. f \in Surjection(messages, messages')
      BY <3>1 DEF Surjection
    <3> HIDE DEF f
    <3> QED
      BY <3>2, FS_Surjection
  <2>2. \A k \in messages' : \E m \in messages :
            k.turn = m.turn /\ k.created = m.created /\ k.status = m.status /\ k \in Rows
    BY <1>1, Gone
  <2>3. TalkTyped'
    BY <2>0, <2>1, <2>2
  <2>4. Committed' = Committed /\ Logged' = Logged
    BY <1>1, <2>0, Gone
  <2>5. RowsTrue'
    <3> HIDE DEF TalkTyped, Logged
    <3> QED
      BY <2>0, <2>2, <2>4 DEF RowsTrue
  <2> QED
    BY <2>0, <2>3, <2>5 DEF Dated, HeardBefore
<1>2. ASSUME NEW t \in Talk, Ask(t) PROVE TalkTyped' /\ Dated' /\ RowsTrue' /\ HeardBefore'
  <2> USE <1>2 DEF Ask
  <2>1. TalkTyped'
    OBVIOUS
  <2>2. Dated'
    BY DEF Dated
  <2>3. RowsTrue'
    BY DEF RowsTrue, Committed, Rows
  <2>4. HeardBefore'
    BY DEF HeardBefore, Dated
  <2> QED
    BY <2>1, <2>2, <2>3, <2>4
<1>3. ASSUME NEW t \in Talk, StreamedOut(t) PROVE TalkTyped' /\ Dated' /\ RowsTrue' /\ HeardBefore'
  <2> USE <1>3 DEF StreamedOut
  <2>1. TalkTyped'
    <3>1. \A given \in Given : ReadStatus(given) \in Statuses
      BY DEF ReadStatus, Statuses
    <3>2. status' = status \/ \E x \in Statuses : status' = [status EXCEPT ![t] = x]
      BY <3>1
    <3>3. status' \in [Talk -> Statuses]
      BY <3>2
    <3>4. talk' \in [Talk -> {"new", "asked", "loaded", "answered", "logged", "delivered", "failed"}]
      OBVIOUS
    <3>5. began' \in [Talk -> Nat] /\ ticks' \in Nat
      OBVIOUS
    <3>6. UNCHANGED <<recalled, prior, messages, gone, heard>>
      OBVIOUS
    <3> HIDE <1>3
    <3> QED
      BY <3>3, <3>4, <3>5, <3>6
  <2>2. Dated'
    BY DEF Dated
  <2>3. RowsTrue'
    BY DEF RowsTrue, Committed, Rows
  <2>4. HeardBefore'
    <3> SUFFICES ASSUME NEW v \in Talk, NEW u \in heard[v]
                 PROVE  talk'[u] = "delivered" /\ began'[u] < began'[v]
      BY DEF HeardBefore
    <3>1. u \in Talk /\ talk[u] = "delivered" /\ began[u] < began[v] /\ began[u] \in Nat /\ began[u] <= ticks
      BY DEF HeardBefore, Dated
    <3> QED
      BY <3>1
  <2> QED
    BY <2>1, <2>2, <2>3, <2>4
<1>4. ASSUME NEW t \in Talk, Generated(t) PROVE TalkTyped' /\ Dated' /\ RowsTrue' /\ HeardBefore'
  <2> USE <1>4 DEF Generated
  <2>1. TalkTyped'
    BY DEF ReadStatus, Statuses
  <2>2. Dated' /\ HeardBefore'
    BY DEF Dated, HeardBefore
  <2>3. RowsTrue'
    BY DEF RowsTrue, Committed, Rows
  <2> QED
    BY <2>1, <2>2, <2>3
<1>5. ASSUME NEW t \in Talk, Fail(t) \/ Deliver(t) PROVE TalkTyped' /\ Dated' /\ RowsTrue' /\ HeardBefore'
  <2> USE <1>5 DEF Fail, Deliver
  <2>1. TalkTyped'
    OBVIOUS
  <2>2. Dated' /\ HeardBefore'
    BY ZenonT(60) DEF Dated, HeardBefore
  <2>3. RowsTrue'
    BY DEF RowsTrue, Committed, Rows
  <2> QED
    BY <2>1, <2>2, <2>3
<1>6. ASSUME NEW t \in Talk, LogTurn(t) PROVE TalkTyped' /\ Dated' /\ RowsTrue' /\ HeardBefore'
  <2> USE <1>6 DEF LogTurn
  <2>1. IsFiniteSet(messages')
    BY FS_AddElement
  <2>0. /\ Row(t) \in Rows /\ Row(t).turn = t /\ Row(t).created = began[t]
        /\ Row(t).status = status[t] /\ ~Row(t).deleted
    BY DEF Row, Rows
  <2>2. TalkTyped'
    BY <2>0, <2>1
  <2>3. Dated' /\ HeardBefore'
    BY DEF Dated, HeardBefore
  <2>4. RowsTrue'
    <3>1. messages' = messages \cup {Row(t)} /\ UNCHANGED <<began, status, gone>>
      OBVIOUS
    <3>2. Logged' = Logged \cup {t}
      OBVIOUS
    <3>3. Committed' = Committed \cup {t}
      BY <2>0 DEF Committed
    <3> HIDE DEF TalkTyped, Logged, LogTurn
    <3> QED
      BY <2>0, <3>1, <3>2, <3>3 DEF RowsTrue
  <2> QED
    BY <2>2, <2>3, <2>4
<1>7. ASSUME NEW t \in Talk, LoadHistory(t)
      PROVE  /\ Dated' /\ RowsTrue' /\ HeardBefore'
             /\ UNCHANGED <<began, messages, ticks, status, heard, gone>>
  <2> USE <1>7 DEF LoadHistory
  <2>1. Dated' /\ HeardBefore'
    BY DEF Dated, HeardBefore
  <2>2. RowsTrue'
    BY DEF RowsTrue, Committed, Rows
  <2> QED
    BY <2>1, <2>2
<1> QED
  BY <1>1, <1>2, <1>3, <1>4, <1>5, <1>6, <1>7, HistoryLoaded DEF DialogueNext

\* A history goes on going forward.
LEMMA ForwardStep ==
    ASSUME TalkTyped, Dated, RowsTrue, HeardBefore, Forward, DialogueNext
    PROVE  Forward'
<1>1. TalkTyped' /\ Settling
  BY DatesStep, Settled
<1>2. SUFFICES ASSUME NEW t \in Talk, NEW i \in DOMAIN recalled'[t], NEW j \in DOMAIN recalled'[t]
               PROVE  /\ recalled'[t][i] \in Logged'
                      /\ i < j => began'[recalled'[t][i]] < began'[recalled'[t][j]]
  BY DEF Forward
<1>3. /\ recalled'[t][i] \in Logged /\ recalled'[t][j] \in Logged
      /\ i < j => began[recalled'[t][i]] < began[recalled'[t][j]]
  <2>1. CASE LoadHistory(t)
    BY <2>1, HistoryLoaded
  <2>2. CASE ~LoadHistory(t)
    <3>1. recalled'[t] = recalled[t]
      BY ZenonT(60), <2>2 DEF DialogueNext, Ask, LoadHistory, Generated, StreamedOut, Fail,
                               LogTurn, Deliver, DeleteTalk, TalkTyped
    <3> QED
      BY <3>1 DEF Forward
  <2> QED
    BY <2>1, <2>2
<1> QED
  BY <1>1, <1>3 DEF Settling

\* What a turn that has loaded its history owes to turn u, of which its client has heard.
Recalls(t, u) == \/ u \in InHistory(t)
                 \/ status[u] # "answered"
                 \/ Cardinality(SinceBegan(u)) >= HistoryTurns[t]

\* Those who were committed since a turn began are ever more.
LEMMA SinceGrows ==
    ASSUME TalkTyped, TalkTyped', NEW u \in Talk, heard'[u] = heard[u], Committed \subseteq Committed'
    PROVE  /\ Cardinality(SinceBegan(u)) \in Nat /\ Cardinality(SinceBegan(u)') \in Nat
           /\ Cardinality(SinceBegan(u)) <= Cardinality(SinceBegan(u)')
<1>1. IsFiniteSet(Committed')
  <2> DEFINE f == [m \in messages' |-> m.turn]
  <2>1. f \in Surjection(messages', Committed')
    BY DEF Surjection, Committed
  <2>2. IsFiniteSet(messages')
    BY DEF TalkTyped
  <2> HIDE DEF f
  <2> QED
    BY <2>1, <2>2, FS_Surjection
<1>2. SinceBegan(u)' \in SUBSET Committed' /\ SinceBegan(u) \in SUBSET (SinceBegan(u)')
  BY DEF SinceBegan
<1>3. IsFiniteSet(SinceBegan(u)')
  BY <1>1, <1>2, FS_Subset
<1> QED
  BY <1>2, <1>3, FS_Subset, FS_CardinalityType

\* A turn that is not among the last ones has as many since it began.
LEMMA LeftBehind ==
    ASSUME TalkTyped, Dated, RowsTrue, HeardBefore, NEW u \in Logged, NEW m \in messages, m.turn = u,
           NEW limit \in Nat, m \notin Recent(messages, limit), ~gone
    PROVE  Cardinality(SinceBegan(u)) >= limit
<1> DEFINE newer == {k \in messages : k.created > m.created}
           f == [k \in newer |-> k.turn]
<1>1. IsFiniteSet(newer) /\ Cardinality(newer) \in Nat
  BY FS_Subset, FS_CardinalityType DEF TalkTyped
<1>2. ~(Cardinality(newer) < limit)
  BY DEF Recent
<1>3. \A k \in messages : /\ k \in Rows /\ k.turn \in Logged /\ k.turn \in Talk
                          /\ k.created = began[k.turn] /\ k.created \in Nat
                          /\ k.status = status[k.turn] /\ k.deleted = FALSE
  BY DEF TalkTyped, RowsTrue, Rows
<1>4. f \in [newer -> SinceBegan(u)]
  <2> SUFFICES ASSUME NEW k \in newer PROVE k.turn \in SinceBegan(u)
    OBVIOUS
  <2>1. k.turn \in Committed /\ began[k.turn] > began[u] /\ began[u] \in Nat /\ began[k.turn] \in Nat
    BY <1>3 DEF Committed
  <2>2. k.turn # u /\ k.turn \notin heard[u]
    BY <2>1 DEF HeardBefore, Logged
  <2> QED
    BY <2>1, <2>2 DEF SinceBegan
<1>5. \A k, l \in newer : k.turn = l.turn => k = l
  BY <1>3 DEF Rows
<1>6. f \in Injection(newer, SinceBegan(u))
  BY <1>4, <1>5 DEF Injection, IsInjective
<1>7. IsFiniteSet(SinceBegan(u)) /\ Cardinality(SinceBegan(u)) \in Nat
  <2> DEFINE g == [k \in messages |-> k.turn]
  <2>1. g \in Surjection(messages, Committed)
    BY DEF Surjection, Committed
  <2>2. IsFiniteSet(messages)
    BY DEF TalkTyped
  <2> HIDE DEF g
  <2>3. IsFiniteSet(Committed)
    BY <2>1, <2>2, FS_Surjection
  <2>4. SinceBegan(u) \in SUBSET Committed
    BY DEF SinceBegan
  <2> QED
    BY <2>3, <2>4, FS_Subset, FS_CardinalityType
<1>8. Cardinality(newer) <= Cardinality(SinceBegan(u))
  <2> HIDE DEF f, newer
  <2> QED
    BY <1>6, <1>7, FS_Injection
<1> HIDE DEF newer
<1> QED
  BY <1>1, <1>2, <1>7, <1>8

\* Of the rows there are, the last ones hold the newest, if they hold any at all.
LEMMA NewestRecent ==
    ASSUME TalkTyped, Dated, RowsTrue, ~gone, messages # {}, NEW limit \in Nat, limit > 0
    PROVE  \E m \in Recent(messages, limit) : \A k \in messages : k.created <= m.created
<1> DEFINE n == Cardinality(messages)
           s == Chronological(messages)
<1>1. /\ n \in Nat /\ s \in [1 .. n -> messages]
      /\ \A m \in messages : \E i \in 1 .. n : s[i] = m
      /\ \A i, j \in 1 .. n : i < j => s[i].created < s[j].created
  BY InOrder
<1> HIDE DEF n, s
<1>2. n \in 1 .. n
  BY <1>1
<1>3. \A m \in messages : m.created \in Nat
  BY DEF TalkTyped, Rows
<1>4. \A k \in messages : k.created <= s[n].created
  <2> SUFFICES ASSUME NEW k \in messages PROVE k.created <= s[n].created
    OBVIOUS
  <2>1. PICK i \in 1 .. n : s[i] = k
    BY <1>1
  <2>2. i < n \/ i = n
    BY <1>1
  <2>3. s[n] \in messages
    BY <1>1, <1>2
  <2>4. i < n => s[i].created < s[n].created
    BY <1>1, <1>2
  <2> QED
    BY <1>3, <2>1, <2>2, <2>3, <2>4
<1>5. s[n] \in messages
  BY <1>1, <1>2
<1>6. {k \in messages : k.created > s[n].created} = {}
  BY <1>3, <1>4, <1>5
<1>7. Cardinality({k \in messages : k.created > s[n].created}) < limit
  BY <1>6, FS_EmptySet
<1> QED
  BY <1>4, <1>5, <1>7 DEF Recent

\* Every step keeps follow-ups informed.
LEMMA InformedStep ==
    ASSUME DialogueInv, DialogueNext
    PROVE  FollowUpInformed'
<1>0. TalkTyped /\ Dated /\ RowsTrue /\ HeardBefore /\ Forward /\ FollowUpInformed
  BY DEF DialogueInv
<1>1. /\ TalkTyped' /\ Dated' /\ RowsTrue' /\ HeardBefore' /\ Forward'
      /\ Settling
  BY <1>0, DatesStep, ForwardStep, Settled
<1>2. SUFFICES ASSUME ~gone', NEW t \in Talk, talk'[t] \notin {"new", "asked"}
               PROVE  /\ \A u \in heard'[t] : Recalls(t, u)'
                      /\ \A i, j \in DOMAIN recalled'[t] : i < j => recalled'[t][j] \notin heard'[recalled'[t][i]]
                      /\ HistoryTurns[t] > 0 /\ heard'[t] # {} =>
                            prior'[t] # NoTurn /\ \A u \in heard'[t] : prior'[t] \notin heard'[u]
  BY DEF FollowUpInformed, Recalls
<1>3. ~gone /\ talk[t] # "new" /\ heard'[t] = heard[t] /\ heard[t] \in SUBSET Talk
  <2>1. talk[t] \notin {"new", "asked"} \/ LoadHistory(t)
    BY <1>1, <1>2 DEF Settling
  <2>2. talk[t] # "new"
    BY <2>1 DEF LoadHistory, Talking
  <2> QED
    BY <1>0, <1>1, <1>2, <2>2 DEF Settling, TalkTyped
<1>4. \A u \in heard[t] : /\ u \in Talk /\ talk[u] = "delivered" /\ u \in Logged
                          /\ heard'[u] = heard[u] /\ status'[u] = status[u] /\ began[u] < began[t]
  BY <1>0, <1>1, <1>3 DEF HeardBefore, Settling, Logged
<1>5. \A i, j \in DOMAIN recalled'[t] : i < j => recalled'[t][j] \notin heard'[recalled'[t][i]]
  <2> SUFFICES ASSUME NEW i \in DOMAIN recalled'[t], NEW j \in DOMAIN recalled'[t], i < j,
                      recalled'[t][j] \in heard'[recalled'[t][i]]
               PROVE  FALSE
    OBVIOUS
  <2>1. /\ recalled'[t][i] \in Talk /\ recalled'[t][j] \in Talk
        /\ began'[recalled'[t][i]] < began'[recalled'[t][j]]
    BY <1>1 DEF Forward, Logged
  <2>2. began'[recalled'[t][j]] < began'[recalled'[t][i]]
    BY <1>1, <2>1 DEF HeardBefore
  <2>3. began'[recalled'[t][i]] \in Nat /\ began'[recalled'[t][j]] \in Nat
    BY <1>1, <2>1 DEF TalkTyped
  <2> QED
    BY <2>1, <2>2, <2>3
<1>6. CASE talk[t] \notin {"new", "asked"}
  <2>1. recalled'[t] = recalled[t] /\ prior'[t] = prior[t]
    BY <1>1, <1>6 DEF Settling
  <2>2. \A u \in heard[t] : Recalls(t, u)
    BY <1>0, <1>3, <1>6 DEF FollowUpInformed, Recalls
  <2>3. \A u \in heard[t] : Recalls(t, u)'
    <3> SUFFICES ASSUME NEW u \in heard[t] PROVE Recalls(t, u)'
      OBVIOUS
    <3>1. Recalls(t, u)
      BY <2>2
    <3>2. InHistory(t)' = InHistory(t)
      BY <2>1 DEF InHistory
    <3>3. /\ Cardinality(SinceBegan(u)) \in Nat /\ Cardinality(SinceBegan(u)') \in Nat
          /\ Cardinality(SinceBegan(u)) <= Cardinality(SinceBegan(u)')
      BY <1>0, <1>1, <1>4, SinceGrows DEF Settling
    <3>4. HistoryTurns[t] \in Nat
      BY DialogueAssumption
    <3> QED
      BY <1>4, <3>1, <3>2, <3>3, <3>4 DEF Recalls
  <2>4. HistoryTurns[t] > 0 /\ heard[t] # {} => prior[t] # NoTurn /\ \A u \in heard[t] : prior[t] \notin heard[u]
    BY <1>0, <1>3, <1>6 DEF FollowUpInformed
  <2> QED
    BY <1>3, <1>4, <1>5, <2>1, <2>3, <2>4
<1>7. CASE talk[t] \in {"new", "asked"}
  <2>1. LoadHistory(t)
    BY <1>1, <1>2, <1>7 DEF Settling
  <2> DEFINE rows == Recent(messages, HistoryTurns[t])
  <2>2. /\ \A m \in rows : m.status = "answered" => \E i \in DOMAIN recalled'[t] : recalled'[t][i] = m.turn
        /\ rows # {} => /\ prior'[t] \in Talk
                        /\ \A m \in rows : m.created <= began[prior'[t]]
    BY <1>0, <1>3, <2>1, HistoryLoaded
  <2>3. \A u \in heard[t] : \E m \in messages : m.turn = u /\ m.created = began[u] /\ m.status = status[u]
    BY <1>0, <1>4 DEF RowsTrue, Committed
  <2>4. \A u \in heard[t] : Recalls(t, u)'
    <3> SUFFICES ASSUME NEW u \in heard[t] PROVE Recalls(t, u)'
      OBVIOUS
    <3>1. PICK m \in messages : m.turn = u /\ m.created = began[u] /\ m.status = status[u]
      BY <2>3
    <3>2. CASE m \in rows
      BY <1>4, <2>2, <3>1, <3>2 DEF Recalls, InHistory
    <3>3. CASE m \notin rows
      <4>1. HistoryTurns[t] \in Nat
        BY DialogueAssumption
      <4>2. Cardinality(SinceBegan(u)) >= HistoryTurns[t]
        BY <1>0, <1>3, <1>4, <3>1, <3>3, <4>1, LeftBehind
      <4>3. /\ Cardinality(SinceBegan(u)) \in Nat /\ Cardinality(SinceBegan(u)') \in Nat
            /\ Cardinality(SinceBegan(u)) <= Cardinality(SinceBegan(u)')
        BY <1>0, <1>1, <1>4, SinceGrows DEF Settling
      <4>4. Cardinality(SinceBegan(u)') >= HistoryTurns[t]
        BY <4>1, <4>2, <4>3
      <4> QED
        BY <4>4 DEF Recalls
    <3> QED
      BY <3>2, <3>3
  <2>5. ASSUME HistoryTurns[t] > 0, heard[t] # {}
        PROVE  prior'[t] # NoTurn /\ \A u \in heard[t] : prior'[t] \notin heard[u]
    <3>0. PICK m \in rows : \A k \in messages : k.created <= m.created
      <4>1. HistoryTurns[t] \in Nat /\ messages # {}
        BY <2>3, <2>5, DialogueAssumption
      <4> QED
        BY <1>0, <1>3, <2>5, <4>1, NewestRecent
    <3>1. rows # {} /\ \A k \in messages : k.created <= began[prior'[t]]
      <4>1. m.created <= began[prior'[t]] /\ prior'[t] \in Talk /\ m \in messages
        BY <2>2 DEF Recent
      <4>2. m.created \in Nat /\ began[prior'[t]] \in Nat /\ \A k \in messages : k.created \in Nat
        BY <1>0, <4>1 DEF TalkTyped, Rows
      <4> HIDE DEF rows
      <4> QED
        BY <3>0, <4>1, <4>2
    <3>2. prior'[t] \in Talk
      BY <2>2, <3>1
    <3>3. \A u \in heard[t] : began[u] <= began[prior'[t]]
      BY <2>3, <3>1
    <3>4. \A u \in heard[t] : prior'[t] \notin heard[u]
      <4> SUFFICES ASSUME NEW u \in heard[t], prior'[t] \in heard[u] PROVE FALSE
        OBVIOUS
      <4>1. began[prior'[t]] < began[u]
        BY <1>0, <1>4 DEF HeardBefore
      <4>2. began[prior'[t]] \in Nat /\ began[u] \in Nat
        BY <1>0, <1>4, <3>2 DEF TalkTyped
      <4> QED
        BY <3>3, <4>1, <4>2
    <3> QED
      BY <3>2, <3>4, DialogueAssumption
  <2> QED
    BY <1>3, <1>4, <1>5, <2>4, <2>5
<1> QED
  BY <1>6, <1>7

\* The invariant holds of every dialogue.
LEMMA DialogueKeeps == DialogueSpec => []DialogueInv
<1>1. DialogueInit => DialogueInv
  <2> SUFFICES ASSUME DialogueInit PROVE DialogueInv
    OBVIOUS
  <2>1. TalkTyped
    <3>1. <<>> \in Seq(Talk) /\ "answered" \in Statuses
      BY DEF Statuses
    <3>2. messages \subseteq Rows /\ IsFiniteSet(messages)
      BY FS_EmptySet DEF DialogueInit
    <3>3. recalled \in [Talk -> Seq(Talk)] /\ status \in [Talk -> Statuses]
      BY <3>1 DEF DialogueInit
    <3> QED
      BY <3>2, <3>3 DEF DialogueInit, TalkTyped
  <2>2. Dated /\ RowsTrue
    BY DEF DialogueInit, Dated, RowsTrue, Logged
  <2>3. HeardBefore
    BY DEF DialogueInit, HeardBefore
  <2>4. \A t \in Talk : DOMAIN recalled[t] = {}
    <3>1. \A t \in Talk : recalled[t] = <<>>
      BY DEF DialogueInit
    <3>2. DOMAIN <<>> = {}
      OBVIOUS
    <3> QED
      BY <3>1, <3>2
  <2>5. Forward
    BY <2>4 DEF Forward
  <2>6. FollowUpInformed
    BY DEF DialogueInit, FollowUpInformed
  <2> QED
    BY <2>1, <2>2, <2>3, <2>5, <2>6 DEF DialogueInv
<1>2. DialogueInv /\ [DialogueNext]_dvars => DialogueInv'
  <2> SUFFICES ASSUME DialogueInv, [DialogueNext]_dvars PROVE DialogueInv'
    OBVIOUS
  <2>1. CASE DialogueNext
    BY <2>1, DatesStep, ForwardStep, InformedStep DEF DialogueInv
  <2>2. CASE UNCHANGED dvars
    <3>1. /\ UNCHANGED <<talk, began, ticks, recalled, prior, status, messages, gone, heard>>
          /\ Logged' = Logged /\ Committed' = Committed
          /\ \A t \in Talk : InHistory(t)' = InHistory(t) /\ SinceBegan(t)' = SinceBegan(t)
      BY <2>2 DEF dvars, Logged, Committed, InHistory, SinceBegan
    <3>2. TalkTyped' /\ Dated'
      BY <3>1 DEF DialogueInv, TalkTyped, Dated
    <3>3. RowsTrue' /\ HeardBefore'
      BY <3>1 DEF DialogueInv, RowsTrue, HeardBefore
    <3>4. Forward'
      BY <3>1 DEF DialogueInv, Forward
    <3>5. \A t \in Talk : \A u \in heard[t] : u \in Talk
      BY DEF DialogueInv, TalkTyped
    <3>6. FollowUpInformed'
      BY <3>1, <3>5 DEF DialogueInv, FollowUpInformed
    <3> QED
      BY <3>2, <3>3, <3>4, <3>6 DEF DialogueInv
  <2> QED
    BY <2>1, <2>2
<1> QED
  BY <1>1, <1>2, PTL DEF DialogueSpec

\* A turn asked when its client had heard others has the last question, and what it was
\* answered, in its history, as far as the history goes back.
THEOREM FollowUpsInformed == DialogueSpec => []FollowUpInformed
<1>1. DialogueInv => FollowUpInformed
  BY DEF DialogueInv
<1> QED
  BY <1>1, DialogueKeeps, PTL
-------------------------------------------------------------------------------
(* The console's numbers *)

\* The messages of a status since an instant, of one day and of all days up to it.
OnDay(c, s, d)      == {m \in Within(c) : Day(m) = d /\ m.status = s}
ThroughDay(c, s, d) == {m \in Within(c) : Day(m) <= d /\ m.status = s}

\* A message has a day, and no message is of a later day than today.
LEMMA DaysTyped ==
    ASSUME DialogueInv
    PROVE  /\ IsFiniteSet(LiveMessages) /\ ticks \div 3 \in Nat
           /\ \A m \in LiveMessages : m.status \in Statuses /\ Day(m) \in Nat /\ Day(m) <= ticks \div 3
<1>1. IsFiniteSet(LiveMessages)
  <2>1. LiveMessages \in SUBSET messages /\ IsFiniteSet(messages)
    BY DEF LiveMessages, DialogueInv, TalkTyped
  <2> QED
    BY <2>1, FS_Subset
<1>2. ticks \in Nat
  BY DEF DialogueInv, TalkTyped
<1>3. \A m \in LiveMessages : m.status \in Statuses /\ m.created \in Nat /\ m.created <= ticks
  <2> TAKE m \in LiveMessages
  <2>1. m \in messages /\ m \in Rows
    BY DEF LiveMessages, DialogueInv, TalkTyped
  <2>2. m.turn \in Talk /\ talk[m.turn] # "new" /\ m.created = began[m.turn]
    BY <2>1 DEF DialogueInv, RowsTrue, Logged
  <2>3. m.created \in 1 .. ticks
    BY <2>2 DEF DialogueInv, Dated
  <2> QED
    BY <1>2, <2>1, <2>3 DEF Rows
<1>4. \A a, b \in Nat : a <= b => a \div 3 \in Nat /\ a \div 3 <= b \div 3
  OBVIOUS
<1> QED
  BY <1>1, <1>2, <1>3, <1>4 DEF Day

\* A status of a day counts its messages, also on a day without an entry.
LEMMA DayCounted ==
    ASSUME DialogueInv, NEW c \in Nat, NEW s \in Statuses, NEW d \in Nat
    PROVE  Counted(c, d, s) = Cardinality(OnDay(c, s, d))
<1>1. CASE d \in {Day(m) : m \in Within(c)}
  BY <1>1 DEF Counted, Daily, OnDay
<1>2. CASE d \notin {Day(m) : m \in Within(c)}
  <2>1. OnDay(c, s, d) = {}
    BY <1>2 DEF OnDay
  <2> QED
    BY <1>2, <2>1, FS_EmptySet DEF Counted, Daily
<1> QED
  BY <1>1, <1>2

\* The counts of one more day.
LEMMA NextDay ==
    ASSUME DialogueInv, NEW c \in Nat, NEW s \in Statuses, NEW d \in Nat
    PROVE  /\ Cardinality(ThroughDay(c, s, d)) \in Nat
           /\ Cardinality(ThroughDay(c, s, d)) =
                 IF d = 0 THEN Counted(c, 0, s)
                 ELSE Cardinality(ThroughDay(c, s, d - 1)) + Counted(c, d, s)
<1>1. /\ IsFiniteSet(LiveMessages)
      /\ \A m \in LiveMessages : Day(m) \in Nat
  BY DaysTyped
<1>2. \A S \in SUBSET LiveMessages : IsFiniteSet(S) /\ Cardinality(S) \in Nat
  BY <1>1, FS_Subset, FS_CardinalityType
<1>a. Within(c) \subseteq LiveMessages
  BY DEF Within
<1>3. /\ ThroughDay(c, s, d) \in SUBSET LiveMessages /\ OnDay(c, s, d) \in SUBSET LiveMessages
      /\ ThroughDay(c, s, d - 1) \in SUBSET LiveMessages
  BY <1>a DEF ThroughDay, OnDay
<1>4. CASE d = 0
  <2>1. ThroughDay(c, s, 0) = OnDay(c, s, 0)
    BY <1>1, <1>a DEF ThroughDay, OnDay
  <2> QED
    BY <1>2, <1>3, <1>4, <2>1, DayCounted
<1>5. CASE d # 0
  <2>1. \A m \in LiveMessages : Day(m) <= d <=> Day(m) <= d - 1 \/ Day(m) = d
    BY <1>1, <1>5
  <2>2. \A m \in LiveMessages : ~(Day(m) <= d - 1 /\ Day(m) = d)
    BY <1>1, <1>5
  <2>3. ThroughDay(c, s, d) = ThroughDay(c, s, d - 1) \cup OnDay(c, s, d)
    BY <1>a, <2>1 DEF ThroughDay, OnDay
  <2>4. ThroughDay(c, s, d - 1) \cap OnDay(c, s, d) = {}
    BY <1>a, <2>2 DEF ThroughDay, OnDay
  <2>5. Cardinality(ThroughDay(c, s, d)) = Cardinality(ThroughDay(c, s, d - 1)) + Cardinality(OnDay(c, s, d))
    <3>1. /\ IsFiniteSet(ThroughDay(c, s, d - 1)) /\ Cardinality(ThroughDay(c, s, d - 1)) \in Nat
          /\ IsFiniteSet(OnDay(c, s, d)) /\ Cardinality(OnDay(c, s, d)) \in Nat
      BY <1>2, <1>3
    <3>2. Cardinality(ThroughDay(c, s, d - 1) \cup OnDay(c, s, d))
             = Cardinality(ThroughDay(c, s, d - 1)) + Cardinality(OnDay(c, s, d))
               - Cardinality(ThroughDay(c, s, d - 1) \cap OnDay(c, s, d))
      BY <3>1, FS_Union
    <3>3. Cardinality(ThroughDay(c, s, d - 1) \cap OnDay(c, s, d)) = 0
      BY <2>4, FS_EmptySet, Zenon
    <3>4. Cardinality(ThroughDay(c, s, d - 1) \cup OnDay(c, s, d))
             = Cardinality(ThroughDay(c, s, d - 1)) + Cardinality(OnDay(c, s, d))
      BY <3>1, <3>2, <3>3
    <3> QED
      BY <2>3, <3>4, Zenon
  <2>6. Counted(c, d, s) = Cardinality(OnDay(c, s, d))
    BY DayCounted
  <2> QED
    BY <1>2, <1>3, <1>5, <2>5, <2>6
<1> QED
  BY <1>4, <1>5

\* A set of numbers has a least one.
LEMMA LeastOf ==
    ASSUME NEW S \in SUBSET Nat, S # {}
    PROVE  \E m \in S : \A k \in S : m <= k
<1>1. IsWellFoundedOn(OpToRel(<, Nat), Nat)
  BY NatLessThanWellFounded
<1>2. PICK m \in S : \A k \in S : ~ (<<k, m>> \in OpToRel(<, Nat))
  BY <1>1, WFMin
<1>3. \A k \in S : ~ (k < m)
  BY <1>2 DEF OpToRel
<1> QED
  BY <1>3

\* The sums exist, for the counts up to a day are such sums; and they are these counts,
\* for on the first day they differed they would have the same day before.
LEMMA SumsCount ==
    ASSUME DialogueInv, NEW c \in Nat, NEW s \in Statuses, NEW d \in Nat
    PROVE  Sums(c, s)[d] = Cardinality(ThroughDay(c, s, d))
<1> DEFINE IsSum(g) == g = [e \in Nat |-> IF e = 0 THEN Counted(c, 0, s) ELSE g[e - 1] + Counted(c, e, s)]
           counts == [e \in Nat |-> Cardinality(ThroughDay(c, s, e))]
           wrong == {e \in Nat : Sums(c, s)[e] # counts[e]}
<1>1. Sums(c, s) = CHOOSE g : IsSum(g)
  BY Zenon DEF Sums
<1>2. IsSum(counts)
  <2>1. \A e \in Nat : counts[e] = IF e = 0 THEN Counted(c, 0, s) ELSE counts[e - 1] + Counted(c, e, s)
    <3> TAKE e \in Nat
    <3>1. e # 0 => e - 1 \in Nat
      OBVIOUS
    <3> QED
      BY <3>1, NextDay
  <2>2. counts = [e \in Nat |-> counts[e]]
    OBVIOUS
  <2> HIDE DEF counts
  <2> QED
    BY <2>1, <2>2
<1> HIDE DEF IsSum, counts
<1>3. IsSum(Sums(c, s))
  BY <1>1, <1>2
<1>4. \A g : IsSum(g) => \A e \in Nat : g[e] = IF e = 0 THEN Counted(c, 0, s) ELSE g[e - 1] + Counted(c, e, s)
  BY DEF IsSum
<1>5. ASSUME wrong # {} PROVE FALSE
  <2>1. PICK e \in wrong : \A k \in wrong : e <= k
    <3>1. wrong \in SUBSET Nat
      OBVIOUS
    <3> HIDE DEF wrong
    <3> QED
      BY <1>5, <3>1, LeastOf
  <2>2. e \in Nat /\ Sums(c, s)[e] # counts[e]
    OBVIOUS
  <2>3. /\ Sums(c, s)[e] = IF e = 0 THEN Counted(c, 0, s) ELSE Sums(c, s)[e - 1] + Counted(c, e, s)
        /\ counts[e] = IF e = 0 THEN Counted(c, 0, s) ELSE counts[e - 1] + Counted(c, e, s)
    BY <1>2, <1>3, <1>4, <2>2
  <2>4. e # 0 /\ Sums(c, s)[e - 1] # counts[e - 1]
    BY <2>2, <2>3
  <2>5. e - 1 \in wrong /\ ~(e <= e - 1)
    BY <2>2, <2>4
  <2> QED
    BY <2>1, <2>5
<1> QED
  BY <1>5 DEF counts

\* The numbers of the console follow from what the rows hold.
LEMMA NumbersFollow == ASSUME DialogueInv PROVE NumbersAgree
<1> SUFFICES ASSUME NEW c \in 0 .. ticks + 1
             PROVE  /\ TotalMessages = DailySum(c, "answered") + DailySum(c, "unanswered")
                                       + DailySum(c, "off_topic")
                                       + Cardinality(LiveMessages \ Within(c))
                    /\ Unanswered = DailySum(c, "unanswered")
                          + Cardinality({m \in LiveMessages \ Within(c) : m.status = "unanswered"})
  BY DEF NumbersAgree
<1> DEFINE Of(s) == {m \in Within(c) : m.status = s}
           earlier == LiveMessages \ Within(c)
           late == {m \in earlier : m.status = "unanswered"}
<1>1. /\ IsFiniteSet(LiveMessages) /\ ticks \div 3 \in Nat
      /\ \A m \in LiveMessages : m.status \in Statuses /\ Day(m) <= ticks \div 3
  BY DaysTyped
<1>0. Within(c) \in SUBSET LiveMessages /\ c \in Nat
  <2>1. ticks \in Nat
    BY DEF DialogueInv, TalkTyped
  <2> QED
    BY <2>1 DEF Within
<1>2. ASSUME NEW s \in Statuses PROVE DailySum(c, s) = Cardinality(Of(s))
  <2>1. ThroughDay(c, s, ticks \div 3) = Of(s)
    BY <1>0, <1>1 DEF ThroughDay
  <2> QED
    BY <1>0, <1>1, <2>1, SumsCount DEF DailySum
<1>3. /\ Within(c) = (Of("answered") \cup Of("unanswered")) \cup Of("off_topic")
      /\ Of("answered") \cap Of("unanswered") = {}
      /\ (Of("answered") \cup Of("unanswered")) \cap Of("off_topic") = {}
  BY <1>0, <1>1 DEF Statuses
<1>4. /\ \A s \in Statuses : Of(s) \in SUBSET LiveMessages
      /\ earlier \in SUBSET LiveMessages /\ late \in SUBSET LiveMessages
  BY <1>0
<1>5. LiveMessages = Within(c) \cup earlier /\ Within(c) \cap earlier = {}
  BY <1>0
<1>c. /\ Unanswered = Cardinality(Of("unanswered") \cup late)
      /\ Of("unanswered") \cap late = {}
  <2>1. {m \in LiveMessages : m.status = "unanswered"} = Of("unanswered") \cup late
    BY <1>0
  <2> QED
    BY <2>1 DEF Unanswered
<1> HIDE DEF Of, earlier, late
<1>a. /\ \A S \in SUBSET LiveMessages : IsFiniteSet(S) /\ Cardinality(S) \in Nat
      /\ "answered" \in Statuses /\ "unanswered" \in Statuses /\ "off_topic" \in Statuses
  BY <1>1, FS_Subset, FS_CardinalityType DEF Statuses
<1>b. ASSUME NEW S \in SUBSET LiveMessages, NEW T \in SUBSET LiveMessages, S \cap T = {}
      PROVE  Cardinality(S \cup T) = Cardinality(S) + Cardinality(T)
  <2>1. Cardinality(S \cup T) = Cardinality(S) + Cardinality(T) - Cardinality(S \cap T)
    BY <1>a, FS_Union
  <2>2. Cardinality(S \cap T) = 0
    BY <1>b, FS_EmptySet, Zenon
  <2> QED
    BY <1>a, <2>1, <2>2
<1>6. Cardinality(Within(c)) = Cardinality(Of("answered")) + Cardinality(Of("unanswered"))
                               + Cardinality(Of("off_topic"))
  <2>1. Cardinality(Of("answered") \cup Of("unanswered"))
           = Cardinality(Of("answered")) + Cardinality(Of("unanswered"))
    BY <1>3, <1>4, <1>a, <1>b
  <2>2. Cardinality(Within(c))
           = Cardinality(Of("answered") \cup Of("unanswered")) + Cardinality(Of("off_topic"))
    <3>1. Of("answered") \cup Of("unanswered") \in SUBSET LiveMessages
      BY <1>4, <1>a
    <3> QED
      BY <1>3, <1>4, <1>a, <1>b, <3>1
  <2> QED
    BY <1>4, <1>a, <2>1, <2>2
<1>7. TotalMessages = Cardinality(Within(c)) + Cardinality(earlier)
  BY <1>0, <1>4, <1>5, <1>b DEF TotalMessages
<1>8. Unanswered = Cardinality(Of("unanswered")) + Cardinality(late)
  BY <1>4, <1>a, <1>b, <1>c
<1>9. /\ TotalMessages = DailySum(c, "answered") + DailySum(c, "unanswered")
                         + DailySum(c, "off_topic") + Cardinality(earlier)
      /\ Unanswered = DailySum(c, "unanswered") + Cardinality(late)
  BY <1>0, <1>2, <1>4, <1>6, <1>7, <1>8, <1>a
<1> QED
  BY <1>9 DEF earlier, late

\* The daily numbers from any cutoff on, and what is older, add up to the totals, for any
\* number of turns on any number of days, whatever statuses Claude gives.
THEOREM NumbersAlwaysAgree == DialogueSpec => []NumbersAgree
BY DialogueKeeps, NumbersFollow, PTL
-------------------------------------------------------------------------------
(* Fractions *)

\* A larger factor makes a larger product.
LEMMA Times ==
    ASSUME NEW a \in Nat, NEW b \in Nat, NEW c \in Nat, a <= b
    PROVE  a * c <= b * c /\ c * a <= c * b /\ a * c \in Nat /\ b * c \in Nat
<1>1. PICK k \in Nat : b = a + k
  <2>1. b - a \in Nat /\ b = a + (b - a)
    OBVIOUS
  <2> QED
    BY <2>1
<1>2. b * c = a * c + k * c /\ k * c \in Nat /\ a * c \in Nat
  BY <1>1
<1>3. c * a = a * c /\ c * b = b * c
  OBVIOUS
<1> QED
  BY <1>2, <1>3

\* Of two products with one positive factor in common the larger has the larger other one.
LEMMA Cancel ==
    ASSUME NEW a \in Nat, NEW b \in Nat, NEW c \in Nat, c > 0, a * c <= b * c
    PROVE  a <= b
<1> SUFFICES ASSUME a > b PROVE FALSE
  OBVIOUS
<1>1. (b + 1) * c <= a * c
  BY Times
<1>2. (b + 1) * c = b * c + c /\ b * c \in Nat /\ a * c \in Nat
  OBVIOUS
<1> QED
  BY <1>1, <1>2

\* a/b >= c/d and c/d >= e/f.
LEMMA CrossTransitive ==
    ASSUME NEW a \in Nat, NEW b \in Nat, NEW c \in Nat, NEW d \in Nat, NEW e \in Nat, NEW f \in Nat,
           d > 0, c * b <= a * d, e * d <= c * f
    PROVE  e * b <= a * f
<1>1. /\ (c * b) * f <= (a * d) * f
      /\ (e * d) * b <= (c * f) * b
  <2>1. c * b \in Nat /\ a * d \in Nat /\ e * d \in Nat /\ c * f \in Nat
    OBVIOUS
  <2> QED
    BY <2>1, Times
<1>2. (e * b) * d = (e * d) * b /\ (a * f) * d = (a * d) * f /\ (c * b) * f = (c * f) * b
  OBVIOUS
<1>3. (e * b) * d <= (a * f) * d
  <2>1. (e * b) * d \in Nat /\ (a * f) * d \in Nat /\ (c * b) * f \in Nat
    OBVIOUS
  <2> QED
    BY <1>1, <1>2, <2>1
<1>4. e * b \in Nat /\ a * f \in Nat
  OBVIOUS
<1> QED
  BY <1>3, <1>4, Cancel

\* a/b >= c/d and e/f >= g/h: so are the sums.
LEMMA CrossSum ==
    ASSUME NEW a \in Nat, NEW b \in Nat, NEW c \in Nat, NEW d \in Nat,
           NEW e \in Nat, NEW f \in Nat, NEW g \in Nat, NEW h \in Nat,
           c * b <= a * d, g * f <= e * h
    PROVE  (c * h + g * d) * (b * f) <= (a * f + e * b) * (d * h)
<1>1. /\ (c * b) * (h * f) <= (a * d) * (h * f)
      /\ (g * f) * (d * b) <= (e * h) * (d * b)
  <2>1. c * b \in Nat /\ a * d \in Nat /\ g * f \in Nat /\ e * h \in Nat /\ h * f \in Nat /\ d * b \in Nat
    OBVIOUS
  <2> QED
    BY <2>1, Times
<1>2. (c * h + g * d) * (b * f) = (c * b) * (h * f) + (g * f) * (d * b)
  OBVIOUS
<1>3. (a * f + e * b) * (d * h) = (a * d) * (h * f) + (e * h) * (d * b)
  OBVIOUS
<1>4. /\ (c * b) * (h * f) \in Nat /\ (a * d) * (h * f) \in Nat
      /\ (g * f) * (d * b) \in Nat /\ (e * h) * (d * b) \in Nat
  OBVIOUS
<1> QED
  BY <1>1, <1>2, <1>3, <1>4

\* Two ranks below 62 are worth more than one.
LEMMA TwoBeatOne ==
    ASSUME NEW x \in 61 .. 121, NEW y \in 61 .. 121, NEW z \in Nat, z >= 61
    PROVE  1 * (x * y) < (1 * y + 1 * x) * z
<1>1. x * y <= 121 * y /\ y * x <= 121 * x
  <2>1. x \in Nat /\ y \in Nat /\ x <= 121 /\ y <= 121
    OBVIOUS
  <2> QED
    BY <2>1, Times
<1>2. (x + y) * 61 <= (x + y) * z
  <2>1. x + y \in Nat /\ 61 \in Nat
    OBVIOUS
  <2> QED
    BY <2>1, Times
<1>3. x * y = y * x /\ x * y \in Nat /\ (x + y) * z \in Nat /\ x + y > 0
  OBVIOUS
<1>4. 1 * (x * y) = x * y /\ (1 * y + 1 * x) * z = (x + y) * z
  OBVIOUS
<1> QED
  BY <1>1, <1>2, <1>3, <1>4
-------------------------------------------------------------------------------
(* The fusion *)

\* A list of the results of a search: no row twice.
Ranked(list) == /\ \E n \in Nat : DOMAIN list = 1 .. n
                /\ list \in Seq(ToSet(list)) /\ IsInjective(list)

\* Rank gives the place of each row in a list, and 0 for the others.
LEMMA Ranks ==
    ASSUME NEW list, Ranked(list)
    PROVE  /\ Len(list) \in Nat /\ DOMAIN list = 1 .. Len(list)
           /\ \A k \in DOMAIN list : list[k] \in ToSet(list) /\ Rank(list[k], list) = k
           /\ \A r \in ToSet(list) : Rank(r, list) \in 1 .. Len(list) /\ list[Rank(r, list)] = r
           /\ \A r : Rank(r, list) \in 0 .. Len(list)
           /\ \A r : r \in ToSet(list) <=> Rank(r, list) # 0
<1>1. Len(list) \in Nat /\ DOMAIN list = 1 .. Len(list)
  BY DEF Ranked
<1>2. ToSet(list) = {list[k] : k \in DOMAIN list}
  BY DEF ToSet
<1>3. ASSUME NEW k \in DOMAIN list PROVE list[k] \in ToSet(list) /\ Rank(list[k], list) = k
  <2>1. list[k] \in ToSet(list)
    BY <1>2
  <2>2. \A j \in DOMAIN list : list[j] = list[k] => j = k
    BY DEF Ranked, IsInjective
  <2> QED
    BY <2>1, <2>2 DEF Rank
<1>4. ASSUME NEW r \in ToSet(list) PROVE Rank(r, list) \in 1 .. Len(list) /\ list[Rank(r, list)] = r
  <2>1. PICK k \in DOMAIN list : r = list[k]
    BY <1>2
  <2> QED
    BY <1>1, <1>3, <2>1
<1>5. \A r : r \notin ToSet(list) => Rank(r, list) = 0
  BY DEF Rank
<1>6. \A r : r \in ToSet(list) => Rank(r, list) \in 1 .. Len(list)
  BY <1>4
<1>7. \A r : Rank(r, list) \in 0 .. Len(list)
  BY <1>1, <1>5, <1>6
<1>8. \A r : r \in ToSet(list) <=> Rank(r, list) # 0
  BY <1>1, <1>5, <1>6
<1> QED
  BY <1>1, <1>3, <1>4, <1>7, <1>8

\* The score as numerator and denominator.
LEMMA Scores ==
    ASSUME Ranked(vector), Ranked(keyword), NEW r
    PROVE  /\ Score(r)[1] \in Nat /\ Score(r)[2] \in Nat /\ Score(r)[2] > 0
           /\ Rank(r, vector) \in Nat /\ Rank(r, keyword) \in Nat
           /\ Met(r) \in Nat
<1>1. Rank(r, vector) \in Nat /\ Rank(r, keyword) \in Nat /\ Len(vector) \in Nat
  BY Ranks
<1>2. \A k \in Nat : /\ Share(k)[1] \in Nat /\ Share(k)[2] \in Nat /\ Share(k)[2] > 0
  BY DEF Share, RRF_K
<1>3. \A p, q : /\ Plus(p, q)[1] = p[1] * q[2] + q[1] * p[2]
                /\ Plus(p, q)[2] = p[2] * q[2]
  BY DEF Plus
<1> DEFINE p == Share(Rank(r, vector))
           q == Share(Rank(r, keyword))
<1>4. /\ p[1] \in Nat /\ p[2] \in Nat /\ p[2] > 0
      /\ q[1] \in Nat /\ q[2] \in Nat /\ q[2] > 0
  BY <1>1, <1>2
<1>5. Score(r)[1] = p[1] * q[2] + q[1] * p[2] /\ Score(r)[2] = p[2] * q[2]
  BY <1>3 DEF Score
<1> HIDE DEF p, q
<1>6. /\ p[1] * q[2] + q[1] * p[2] \in Nat
      /\ p[2] * q[2] \in Nat /\ p[2] * q[2] > 0
  <2>1. \A a, b, c, d \in Nat : a * d + c * b \in Nat
    OBVIOUS
  <2>2. \A b, d \in Nat : b > 0 /\ d > 0 => b * d \in Nat /\ b * d > 0
    OBVIOUS
  <2> QED
    BY <1>4, <2>1, <2>2
<1>7. Met(r) \in Nat
  BY <1>1 DEF Met
<1> QED
  BY <1>1, <1>5, <1>6, <1>7

\* A score is at least another.
AtLeast(p, q) == ~Above(q, p)

\* Scores are ordered: AtLeast is transitive ...
LEMMA AtLeastTransitive ==
    ASSUME Ranked(vector), Ranked(keyword), NEW r, NEW q, NEW s,
           AtLeast(Score(r), Score(q)), AtLeast(Score(q), Score(s))
    PROVE  AtLeast(Score(r), Score(s))
<1> DEFINE a == Score(r)[1]
           b == Score(r)[2]
           c == Score(q)[1]
           d == Score(q)[2]
           e == Score(s)[1]
           f == Score(s)[2]
<1>1. a \in Nat /\ b \in Nat /\ c \in Nat /\ d \in Nat /\ d > 0 /\ e \in Nat /\ f \in Nat
  BY Scores
<1>2. ~(c * b > a * d) /\ ~(e * d > c * f)
  BY DEF AtLeast, Above
<1> SUFFICES ~(e * b > a * f)
  BY DEF AtLeast, Above
<1> HIDE DEF a, b, c, d, e, f
<1>3. c * b <= a * d /\ e * d <= c * f
  <2>1. \A w, x, y, z \in Nat : w * x \in Nat /\ y * z \in Nat /\ (~(w * x > y * z) => w * x <= y * z)
    OBVIOUS
  <2> QED
    BY <1>1, <1>2, <2>1
<1>4. e * b <= a * f
  BY <1>1, <1>3, CrossTransitive
<1>5. e * b \in Nat /\ a * f \in Nat
  <2>1. \A x, y \in Nat : x * y \in Nat
    OBVIOUS
  <2> QED
    BY <1>1, <2>1
<1> QED
  BY <1>4, <1>5

\* ... and total.
LEMMA AtLeastTotal ==
    ASSUME Ranked(vector), Ranked(keyword), NEW r, NEW q
    PROVE  AtLeast(Score(r), Score(q)) \/ AtLeast(Score(q), Score(r))
<1>1. \A a, b, c, d \in Nat : ~(c * b > a * d) \/ ~(a * d > c * b)
  <2> SUFFICES ASSUME NEW a \in Nat, NEW b \in Nat, NEW c \in Nat, NEW d \in Nat
               PROVE  ~(c * b > a * d) \/ ~(a * d > c * b)
    OBVIOUS
  <2>1. c * b \in Nat /\ a * d \in Nat
    OBVIOUS
  <2> QED
    BY <2>1
<1> QED
  BY <1>1, Scores DEF AtLeast, Above

\* No two rows were met at the same time.
LEMMA MetApart ==
    ASSUME Ranked(vector), Ranked(keyword), NEW r \in Found, NEW q \in Found, Met(r) = Met(q)
    PROVE  r = q
<1>1. /\ \A x \in ToSet(vector) : Rank(x, vector) \in 1 .. Len(vector) /\ vector[Rank(x, vector)] = x
      /\ \A x \in ToSet(keyword) : Rank(x, keyword) \in 1 .. Len(keyword) /\ keyword[Rank(x, keyword)] = x
      /\ Len(vector) \in Nat /\ Len(keyword) \in Nat
  BY Ranks
<1>2. CASE r \in ToSet(vector) /\ q \in ToSet(vector)
  BY <1>1, <1>2 DEF Met
<1>3. CASE r \notin ToSet(vector) /\ q \notin ToSet(vector)
  <2>1. /\ r \in ToSet(keyword) /\ q \in ToSet(keyword)
        /\ Len(vector) + Rank(r, keyword) = Len(vector) + Rank(q, keyword)
    BY <1>3 DEF Found, Met
  <2>2. Rank(r, keyword) = Rank(q, keyword)
    BY <1>1, <2>1
  <2> QED
    BY <1>1, <2>1, <2>2
<1>4. CASE r \in ToSet(vector) /\ q \notin ToSet(vector)
  <2>1. q \in ToSet(keyword) /\ Rank(r, vector) = Len(vector) + Rank(q, keyword)
    BY <1>4 DEF Found, Met
  <2> QED
    BY <1>1, <1>4, <2>1
<1>5. CASE r \notin ToSet(vector) /\ q \in ToSet(vector)
  <2>1. r \in ToSet(keyword) /\ Rank(q, vector) = Len(vector) + Rank(r, keyword)
    BY <1>5 DEF Found, Met
  <2> QED
    BY <1>1, <1>5, <2>1
<1> QED
  BY <1>2, <1>3, <1>4, <1>5

\* The rows found are totally ordered.
LEMMA BeforeTotal ==
    ASSUME Ranked(vector), Ranked(keyword)
    PROVE  /\ \A r \in Found : ~Before(r, r)
           /\ \A r, q, s \in Found : Before(r, q) /\ Before(q, s) => Before(r, s)
           /\ \A r, q \in Found : r = q \/ Before(r, q) \/ Before(q, r)
<1> DEFINE G(r, q) == AtLeast(Score(r), Score(q))
<1>1. \A r, q, s : G(r, q) /\ G(q, s) => G(r, s)
  BY AtLeastTransitive
<1>2. \A r, q : G(r, q) \/ G(q, r)
  BY AtLeastTotal
<1>3. \A r, q : Before(r, q) <=> ~G(q, r) \/ (G(r, q) /\ Met(r) < Met(q))
  BY DEF Before, AtLeast
<1> HIDE DEF G
<1>4. \A r : Met(r) \in Nat
  BY Scores
<1>5. \A r, q \in Found : Met(r) = Met(q) => r = q
  BY MetApart
<1>6. \A r, q : Met(r) = Met(q) \/ Met(r) < Met(q) \/ Met(q) < Met(r)
  BY <1>4
<1>7. \A r, q, s : Met(r) < Met(q) /\ Met(q) < Met(s) => Met(r) < Met(s)
  BY <1>4
<1>8. \A r : ~(Met(r) < Met(r))
  BY <1>4
<1>9. \A r \in Found : ~Before(r, r)
  BY <1>2, <1>3, <1>8
<1>10. \A r, q, s \in Found : Before(r, q) /\ Before(q, s) => Before(r, s)
  BY <1>1, <1>2, <1>3, <1>7
<1>11. \A r, q \in Found : r = q \/ Before(r, q) \/ Before(q, r)
  BY <1>2, <1>3, <1>5, <1>6
<1> QED
  BY <1>9, <1>10, <1>11

\* Min of two numbers, which is a CHOOSE.
LEMMA Least ==
    ASSUME NEW a \in Nat, NEW b \in Nat
    PROVE  Min({a, b}) = IF a <= b THEN a ELSE b
<1> DEFINE m == IF a <= b THEN a ELSE b
<1>1. m \in {a, b} /\ \A y \in {a, b} : m =< y
  OBVIOUS
<1>2. \A x \in {a, b} : (\A y \in {a, b} : x =< y) => x = m
  OBVIOUS
<1> HIDE DEF m
<1> QED
  BY <1>1, <1>2 DEF Min

\* The first c of a list.
LEMMA Firsts ==
    ASSUME NEW S, NEW list \in Seq(S), NEW c \in Nat
    PROVE  /\ FirstOf(list, c) \in Seq(S)
           /\ Len(FirstOf(list, c)) \in 0 .. Len(list) /\ Len(FirstOf(list, c)) <= c
           /\ \A i \in 1 .. Len(list) : i <= c => i <= Len(FirstOf(list, c))
           /\ \A i \in 1 .. Len(FirstOf(list, c)) : FirstOf(list, c)[i] = list[i]
<1> DEFINE m == Min({c, Len(list)})
<1>1. Len(list) \in Nat
  OBVIOUS
<1>2. m = IF c <= Len(list) THEN c ELSE Len(list)
  BY <1>1, Least
<1>3. FirstOf(list, c) = SubSeq(list, 1, m)
  BY DEF FirstOf
<1> HIDE DEF m
<1>4. m \in 0 .. Len(list) /\ m <= c
  BY <1>1, <1>2
<1>5. SubSeq(list, 1, m) \in Seq(S) /\ Len(SubSeq(list, 1, m)) = m
      /\ \A i \in 1 .. m : SubSeq(list, 1, m)[i] = list[i]
  BY <1>1, <1>4
<1> QED
  BY <1>1, <1>2, <1>3, <1>4, <1>5

\* A list holds finitely many rows.
LEMMA ListFinite ==
    ASSUME NEW list, Ranked(list)
    PROVE  IsFiniteSet(ToSet(list))
<1>1. Len(list) \in Nat /\ DOMAIN list = 1 .. Len(list)
  BY Ranks
<1>2. list \in Surjection(1 .. Len(list), ToSet(list))
  BY <1>1 DEF Ranked, Surjection, ToSet
<1>3. IsFiniteSet(1 .. Len(list))
  BY <1>1, FS_Interval
<1> QED
  BY <1>2, <1>3, FS_Surjection

\* The fusion sorts the rows found.
LEMMA FusedSorted ==
    ASSUME Ranked(vector), Ranked(keyword)
    PROVE  /\ Cardinality(Found) \in Nat /\ Fused \in [1 .. Cardinality(Found) -> Found]
           /\ \A r \in Found : \E i \in 1 .. Cardinality(Found) : Fused[i] = r
           /\ \A i, j \in 1 .. Cardinality(Found) : i < j <=> Before(Fused[i], Fused[j])
<1> DEFINE order == {p \in Found \X Found : Before(p[1], p[2])}
<1>1. IsFiniteSet(Found)
  BY ListFinite, FS_Union DEF Found
<1>2. \A r, q \in Found : <<r, q>> \in order <=> Before(r, q)
  OBVIOUS
<1>3. order \in SUBSET (Found \X Found)
  OBVIOUS
<1> HIDE DEF order
<1>4. \A r \in Found : {q \in Found : Before(q, r)} = Ahead(Found, order, r)
  BY <1>2 DEF Ahead
<1>5. /\ Fused = [k \in 1 .. Cardinality(Found) |-> Fused[k]]
      /\ \A k \in 1 .. Cardinality(Found) : \A r \in Found : Cardinality(Ahead(Found, order, r)) = k - 1 =>
            Fused[k] \in Found /\ Cardinality(Ahead(Found, order, Fused[k])) = k - 1
  <2>1. \A k \in 1 .. Cardinality(Found) :
           Fused[k] = CHOOSE r \in Found : Cardinality({q \in Found : Before(q, r)}) = k - 1
    BY DEF Fused
  <2>2. \A k \in 1 .. Cardinality(Found) : \A r \in Found : Cardinality({q \in Found : Before(q, r)}) = k - 1 =>
           Fused[k] \in Found /\ Cardinality({q \in Found : Before(q, Fused[k])}) = k - 1
    BY <2>1
  <2>3. Fused = [k \in 1 .. Cardinality(Found) |-> Fused[k]]
    BY SMTT(30) DEF Fused
  <2> QED
    BY <1>4, <2>2, <2>3
<1>6. /\ \A r \in Found : <<r, r>> \notin order
      /\ \A r, q, s \in Found : <<r, q>> \in order /\ <<q, s>> \in order => <<r, s>> \in order
      /\ \A r, q \in Found : r = q \/ <<r, q>> \in order \/ <<q, r>> \in order
  BY <1>2, BeforeTotal
<1>7. /\ Cardinality(Found) \in Nat /\ Fused \in [1 .. Cardinality(Found) -> Found]
      /\ \A r \in Found : \E i \in 1 .. Cardinality(Found) : Fused[i] = r
      /\ \A i, j \in 1 .. Cardinality(Found) : i < j <=> <<Fused[i], Fused[j]>> \in order
  BY <1>1, <1>3, <1>5, <1>6, Sorted
<1> QED
  BY <1>2, <1>7

\* A rank no worse has a share no smaller.
LEMMA ShareNoWorse ==
    ASSUME NEW list, Ranked(list), NEW r, NEW q, NoWorse(r, q, list)
    PROVE  /\ Share(Rank(r, list))[1] \in Nat /\ Share(Rank(r, list))[2] \in Nat
           /\ Share(Rank(q, list))[1] \in Nat /\ Share(Rank(q, list))[2] \in Nat
           /\ Share(Rank(q, list))[1] * Share(Rank(r, list))[2]
                 <= Share(Rank(r, list))[1] * Share(Rank(q, list))[2]
<1> DEFINE a == Rank(r, list)
           b == Rank(q, list)
<1>1. a \in Nat /\ b \in Nat
  BY Ranks
<1>2. b # 0 => a \in 1 .. b
  BY DEF NoWorse
<1> HIDE DEF a, b
<1>3. /\ a = 0 => Share(a)[1] = 0 /\ Share(a)[2] = 1
      /\ a # 0 => Share(a)[1] = 1 /\ Share(a)[2] = 60 + a
      /\ b = 0 => Share(b)[1] = 0 /\ Share(b)[2] = 1
      /\ b # 0 => Share(b)[1] = 1 /\ Share(b)[2] = 60 + b
  BY DEF Share, RRF_K
<1>4. /\ Share(a)[1] \in Nat /\ Share(a)[2] \in Nat
      /\ Share(b)[1] \in Nat /\ Share(b)[2] \in Nat
  BY <1>1, <1>3
<1>5. CASE b = 0
  <2>1. \A x, y \in Nat : 0 * x <= y * 1
    OBVIOUS
  <2>2. Share(b)[1] * Share(a)[2] <= Share(a)[1] * Share(b)[2]
    BY <1>3, <1>4, <1>5, <2>1
  <2> QED
    BY <1>4, <2>2 DEF a, b
<1>6. CASE b # 0
  <2>1. a # 0 /\ a <= b
    BY <1>1, <1>2, <1>6
  <2>2. 1 * (60 + a) <= 1 * (60 + b)
    BY <1>1, <2>1
  <2>3. Share(b)[1] * Share(a)[2] <= Share(a)[1] * Share(b)[2]
    BY <1>3, <1>6, <2>1, <2>2
  <2> QED
    BY <1>4, <2>3 DEF a, b
<1> QED
  BY <1>5, <1>6

\* A row no worse in both searches comes before another.
LEMMA NoWorseBefore ==
    ASSUME Ranked(vector), Ranked(keyword), NEW r \in Found, NEW q \in Found, r # q,
           NoWorse(r, q, vector), NoWorse(r, q, keyword)
    PROVE  Before(r, q)
<1> DEFINE a == Share(Rank(r, vector))[1]
           b == Share(Rank(r, vector))[2]
           c == Share(Rank(q, vector))[1]
           d == Share(Rank(q, vector))[2]
           e == Share(Rank(r, keyword))[1]
           f == Share(Rank(r, keyword))[2]
           g == Share(Rank(q, keyword))[1]
           h == Share(Rank(q, keyword))[2]
<1>1. ~Above(Score(q), Score(r))
  <2>1. /\ a \in Nat /\ b \in Nat /\ c \in Nat /\ d \in Nat /\ c * b <= a * d
    BY ShareNoWorse
  <2>2. /\ e \in Nat /\ f \in Nat /\ g \in Nat /\ h \in Nat /\ g * f <= e * h
    BY ShareNoWorse
  <2>3. /\ Score(r)[1] = a * f + e * b /\ Score(r)[2] = b * f
        /\ Score(q)[1] = c * h + g * d /\ Score(q)[2] = d * h
    BY DEF Score, Plus
  <2> HIDE DEF a, b, c, d, e, f, g, h
  <2>4. (c * h + g * d) * (b * f) <= (a * f + e * b) * (d * h)
    BY <2>1, <2>2, CrossSum
  <2>5. Score(q)[1] * Score(r)[2] <= Score(r)[1] * Score(q)[2]
    BY <2>3, <2>4
  <2>6. \A x, y, z, w \in Nat : x * y <= z * w => ~(x * y > z * w)
    <3> SUFFICES ASSUME NEW x \in Nat, NEW y \in Nat, NEW z \in Nat, NEW w \in Nat, x * y <= z * w
                 PROVE  ~(x * y > z * w)
      OBVIOUS
    <3>1. x * y \in Nat /\ z * w \in Nat
      OBVIOUS
    <3> QED
      BY <3>1
  <2> QED
    BY <2>5, <2>6, Scores DEF Above
<1>2. Met(r) < Met(q)
  <2>1. /\ Len(vector) \in Nat /\ Len(keyword) \in Nat
        /\ \A x : Rank(x, vector) \in 0 .. Len(vector) /\ Rank(x, keyword) \in 0 .. Len(keyword)
        /\ \A x : x \in ToSet(vector) <=> Rank(x, vector) # 0
        /\ \A x : x \in ToSet(keyword) <=> Rank(x, keyword) # 0
    BY Ranks
  <2>2. Met(r) # Met(q)
    BY MetApart
  <2>3. CASE q \in ToSet(vector)
    <3>1. Rank(r, vector) \in 1 .. Rank(q, vector)
      BY <2>1, <2>3 DEF NoWorse
    <3>2. Met(r) = Rank(r, vector) /\ Met(q) = Rank(q, vector)
      BY <2>1, <2>3, <3>1 DEF Met
    <3> QED
      BY <2>1, <2>2, <3>1, <3>2
  <2>4. CASE q \notin ToSet(vector)
    <3>1. Rank(q, keyword) # 0 /\ Met(q) = Len(vector) + Rank(q, keyword)
      BY <2>1, <2>4 DEF Found, Met
    <3>2. Rank(r, keyword) \in 1 .. Rank(q, keyword)
      BY <3>1 DEF NoWorse
    <3>3. Met(r) = Rank(r, vector) \/ Met(r) = Len(vector) + Rank(r, keyword)
      BY DEF Met
    <3> QED
      BY <2>1, <2>2, <3>1, <3>2, <3>3
  <2> QED
    BY <2>3, <2>4
<1> QED
  BY <1>1, <1>2 DEF Before

\* A row both searches found comes before one that one of them found.
LEMMA BothBefore ==
    ASSUME Ranked(vector), Ranked(keyword), NEW r \in Found, NEW q \in Found,
           Candidates \in Nat, Candidates < RRF_K + 2,
           Len(vector) <= Candidates, Len(keyword) <= Candidates,
           r \in ToSet(vector), r \in ToSet(keyword), ~(q \in ToSet(vector) /\ q \in ToSet(keyword))
    PROVE  Before(r, q)
<1>1. /\ Len(vector) \in Nat /\ Len(keyword) \in Nat
      /\ \A x : Rank(x, vector) \in 0 .. Len(vector) /\ Rank(x, keyword) \in 0 .. Len(keyword)
      /\ \A x : x \in ToSet(vector) <=> Rank(x, vector) # 0
      /\ \A x : x \in ToSet(keyword) <=> Rank(x, keyword) # 0
  BY Ranks
<1> DEFINE x == 60 + Rank(r, vector)
           y == 60 + Rank(r, keyword)
<1>2. x \in 61 .. 121 /\ y \in 61 .. 121
  <2>1. Candidates <= 61
    BY DEF RRF_K
  <2>2. \A k, n, c \in Nat : k \in 0 .. n /\ k # 0 /\ n <= c /\ c <= 61 => 60 + k \in 61 .. 121
    OBVIOUS
  <2>3. /\ Rank(r, vector) \in 0 .. Len(vector) /\ Rank(r, vector) # 0
        /\ Rank(r, keyword) \in 0 .. Len(keyword) /\ Rank(r, keyword) # 0
    BY <1>1
  <2>4. Rank(r, vector) \in Nat /\ Rank(r, keyword) \in Nat
    BY Scores
  <2> QED
    BY <1>1, <2>1, <2>2, <2>3, <2>4
<1>3. Score(r)[1] = 1 * y + 1 * x /\ Score(r)[2] = x * y
  <2>1. Share(Rank(r, vector)) = <<1, x>> /\ Share(Rank(r, keyword)) = <<1, y>>
    BY <1>1 DEF Share, RRF_K
  <2> QED
    BY <2>1 DEF Score, Plus
<1>4. PICK z \in Nat : z >= 61 /\ Score(q)[1] = 1 /\ Score(q)[2] = z
  <2>1. CASE q \in ToSet(vector)
    <3>1. /\ Share(Rank(q, vector)) = <<1, 60 + Rank(q, vector)>>
          /\ Share(Rank(q, keyword)) = <<0, 1>>
      BY <1>1, <2>1 DEF Share, RRF_K
    <3>2. /\ Score(q)[1] = 1 * 1 + 0 * (60 + Rank(q, vector))
          /\ Score(q)[2] = (60 + Rank(q, vector)) * 1
      BY <3>1 DEF Score, Plus
    <3>3. Score(q)[1] = 1 /\ Score(q)[2] = 60 + Rank(q, vector)
      BY <1>1, <3>2
    <3> QED
      BY <1>1, <2>1, <3>3
  <2>2. CASE q \notin ToSet(vector)
    <3>1. /\ Share(Rank(q, keyword)) = <<1, 60 + Rank(q, keyword)>>
          /\ Share(Rank(q, vector)) = <<0, 1>> /\ Rank(q, keyword) # 0
      BY <1>1, <2>2 DEF Share, RRF_K, Found
    <3>2. /\ Score(q)[1] = 0 * (60 + Rank(q, keyword)) + 1 * 1
          /\ Score(q)[2] = 1 * (60 + Rank(q, keyword))
      BY <3>1 DEF Score, Plus
    <3>3. Score(q)[1] = 1 /\ Score(q)[2] = 60 + Rank(q, keyword)
      BY <1>1, <3>2
    <3> QED
      BY <1>1, <3>1, <3>3
  <2> QED
    BY <2>1, <2>2
<1> HIDE DEF x, y
<1>5. 1 * (x * y) < (1 * y + 1 * x) * z
  BY <1>2, <1>4, TwoBeatOne
<1>6. Score(q)[1] * Score(r)[2] < Score(r)[1] * Score(q)[2]
  BY <1>3, <1>4, <1>5
<1>7. Above(Score(r), Score(q))
  <2>1. \A i, j, k, l \in Nat : i * j < k * l => k * l > i * j
    <3> SUFFICES ASSUME NEW i \in Nat, NEW j \in Nat, NEW k \in Nat, NEW l \in Nat, i * j < k * l
                 PROVE  k * l > i * j
      OBVIOUS
    <3>1. i * j \in Nat /\ k * l \in Nat
      OBVIOUS
    <3> QED
      BY <3>1
  <2> QED
    BY <1>6, <2>1, Scores DEF Above
<1> QED
  BY <1>7 DEF Before

\* The rankings that a search or the reranker may answer with are lists.
LEMMA RankedOf ==
    ASSUME NEW S, NEW n \in Nat, NEW list \in [1 .. n -> S], IsInjective(list)
    PROVE  Ranked(list) /\ Len(list) = n /\ ToSet(list) \subseteq S
<1>1. DOMAIN list = 1 .. n /\ ToSet(list) = {list[k] : k \in 1 .. n}
  BY DEF ToSet
<1>2. list \in [1 .. n -> ToSet(list)]
  BY <1>1
<1>3. list \in Seq(ToSet(list)) /\ Len(list) = n
  BY <1>2
<1> QED
  BY <1>1, <1>3 DEF Ranked

\* So is what a limit leaves of one.
LEMMA RankedFirst ==
    ASSUME NEW list, Ranked(list), NEW c \in Nat
    PROVE  Ranked(FirstOf(list, c)) /\ Len(FirstOf(list, c)) <= c /\ ToSet(FirstOf(list, c)) \subseteq ToSet(list)
<1> DEFINE f == FirstOf(list, c)
<1>1. list \in Seq(ToSet(list)) /\ DOMAIN list = 1 .. Len(list) /\ Len(list) \in Nat
  BY Ranks DEF Ranked
<1>2. /\ f \in Seq(ToSet(list)) /\ Len(f) \in 0 .. Len(list) /\ Len(f) <= c
      /\ \A i \in 1 .. Len(f) : f[i] = list[i]
  BY <1>1, Firsts
<1> HIDE DEF f
<1>3. DOMAIN f = 1 .. Len(f) /\ Len(f) \in Nat /\ f \in [1 .. Len(f) -> ToSet(list)]
  BY <1>2
<1>4. \A i \in 1 .. Len(f) : i \in DOMAIN list
  BY <1>1, <1>2
<1>5. IsInjective(f)
  BY <1>2, <1>3, <1>4 DEF Ranked, IsInjective
<1>6. Ranked(f) /\ ToSet(f) \subseteq ToSet(list)
  BY <1>3, <1>5, RankedOf
<1> QED
  BY <1>2, <1>6 DEF f

\* What the fusion keeps is in the order of the searches.
LEMMA FusionRespects ==
    ASSUME Ranked(vector), Ranked(keyword), Candidates \in Nat,
           Len(vector) <= Candidates, Len(keyword) <= Candidates
    PROVE  /\ Ranked(FirstOf(Fused, Candidates))
           /\ ToSet(FirstOf(Fused, Candidates)) \subseteq Found
           /\ merged = FirstOf(Fused, Candidates) => RanksRespected
<1> DEFINE n == Cardinality(Found)
           f == FirstOf(Fused, Candidates)
<1>1. /\ n \in Nat /\ Fused \in [1 .. n -> Found]
      /\ \A r \in Found : \E i \in 1 .. n : Fused[i] = r
      /\ \A i, j \in 1 .. n : i < j <=> Before(Fused[i], Fused[j])
  BY FusedSorted
<1> HIDE DEF n
<1>2. IsInjective(Fused)
  <2> SUFFICES ASSUME NEW i \in 1 .. n, NEW j \in 1 .. n, Fused[i] = Fused[j] PROVE i = j
    BY <1>1 DEF IsInjective
  <2>1. Fused[i] \in Found /\ ~Before(Fused[i], Fused[i])
    BY <1>1, BeforeTotal
  <2>2. ~(i < j) /\ ~(j < i)
    BY <1>1, <2>1
  <2> QED
    BY <1>1, <2>2
<1>3. Ranked(Fused) /\ Len(Fused) = n /\ ToSet(Fused) \subseteq Found
  BY <1>1, <1>2, RankedOf
<1>4. Ranked(f) /\ ToSet(f) \subseteq Found
  BY <1>3, RankedFirst
<1>5. /\ Len(f) \in 0 .. n
      /\ \A i \in 1 .. Len(f) : f[i] = Fused[i]
  <2>1. Fused \in Seq(Found)
    BY <1>1
  <2> QED
    BY <1>3, <2>1, Firsts
<1> HIDE DEF f
<1>6. ASSUME merged = f PROVE RanksRespected
  <2> SUFFICES ASSUME NEW r \in Found, NEW q \in Found, r # q,
                      \/ NoWorse(r, q, vector) /\ NoWorse(r, q, keyword)
                      \/ /\ Candidates < RRF_K + 2
                         /\ r \in ToSet(vector) \cap ToSet(keyword)
                         /\ q \notin ToSet(vector) \cap ToSet(keyword),
                      q \in ToSet(merged)
               PROVE  r \in ToSet(merged) /\ Rank(r, merged) < Rank(q, merged)
    BY DEF RanksRespected
  <2>1. Before(r, q)
    BY NoWorseBefore, BothBefore
  <2>2. PICK j \in 1 .. Len(f) : f[j] = q /\ Rank(q, f) = j
    BY <1>4, <1>6, Ranks
  <2>3. PICK i \in 1 .. n : Fused[i] = r
    BY <1>1
  <2>4. j \in 1 .. n /\ Fused[j] = q
    BY <1>1, <1>5, <2>2
  <2>5. i < j
    BY <1>1, <2>1, <2>3, <2>4
  <2>6. i \in 1 .. Len(f) /\ f[i] = r
    BY <1>1, <1>5, <2>2, <2>3, <2>5
  <2>7. r \in ToSet(f) /\ Rank(r, f) = i
    BY <1>4, <2>6, Ranks
  <2> QED
    BY <1>6, <2>2, <2>5, <2>7
<1> QED
  BY <1>4, <1>6 DEF f
-------------------------------------------------------------------------------
(* The retrieval *)

\* What a row of content_chunks holds.
StoredRows == [source : Sources, position : Nat, version : Nat]

\* The types of Retrieval.
TableTyped == /\ table \subseteq StoredRows /\ IsFiniteSet(table)
              /\ version \in [Sources -> Nat] /\ replaced \subseteq Sources
              /\ stage \in {"keyword", "vector", "merge", "rerank", "expand", "done", "failed"}

\* One row for each place.
OnePlace == \A r, q \in table : Place(r) = Place(q) => r = q

\* A list of rows found: what is not replaced is still there.
Fresh(list) == /\ Ranked(list)
               /\ \A r \in ToSet(list) : r \in StoredRows /\ (r.source \notin replaced => r \in table)

\* The inductive invariant of Retrieval.  A list is empty before its search; the candidates
\* are the fusion's until they are reranked.
RetrievalInv ==
    /\ TableTyped /\ OnePlace
    /\ Fresh(keyword) /\ Fresh(vector) /\ Fresh(merged) /\ Fresh(hits)
    /\ Len(keyword) <= Candidates /\ Len(vector) <= Candidates
    /\ stage = "keyword" => keyword = <<>> /\ vector = <<>> /\ merged = <<>> /\ hits = <<>>
    /\ stage = "rerank" => merged = FirstOf(Fused, Candidates)
    /\ ContextWhole

\* The empty list.
LEMMA NothingFound ==
    /\ Ranked(<<>>) /\ Len(<<>>) = 0 /\ ToSet(<<>>) = {}
    /\ Fresh(<<>>) /\ Fresh(<<>>)'
<1>1. DOMAIN <<>> = {} /\ Len(<<>>) = 0
  OBVIOUS
<1>2. ToSet(<<>>) = {}
  BY <1>1 DEF ToSet
<1>3. IsInjective(<<>>)
  BY <1>1 DEF IsInjective
<1>4. 1 .. 0 = {} /\ <<>> \in Seq({})
  OBVIOUS
<1>5. Ranked(<<>>)
  BY <1>1, <1>2, <1>3, <1>4 DEF Ranked
<1> QED
  BY <1>1, <1>2, <1>5 DEF Fresh

\* The table after an ingest.
LEMMA Ingested ==
    ASSUME TableTyped, OnePlace, NEW s \in Sources, NEW n \in 0 .. MaxChunks, Ingest(s, n)
    PROVE  /\ TableTyped' /\ OnePlace'
           /\ \A r \in StoredRows : r.source # s => (r \in table' <=> r \in table)
           /\ replaced \subseteq replaced' /\ (stage # "keyword" => s \in replaced')
           /\ UNCHANGED <<stage, keyword, vector, merged, hits, result>>
<1> DEFINE v == version[s] + 1
           row(p) == [source |-> s, position |-> p, version |-> v]
           new == {row(p) : p \in 0 .. n - 1}
<1>1. n \in Nat
  BY RetrievalAssumption
<1>2. /\ version' = [version EXCEPT ![s] = v]
      /\ table' = {r \in table : r.source # s} \cup {[source |-> s, position |-> p, version |-> version'[s]] : p \in 0 .. n - 1}
      /\ replaced' = IF stage = "keyword" THEN replaced ELSE replaced \cup {s}
      /\ UNCHANGED <<stage, keyword, vector, merged, hits, result>>
  BY DEF Ingest, found
<1>3. version'[s] = v /\ v \in Nat /\ version' \in [Sources -> Nat]
  BY <1>2 DEF TableTyped
<1>4. table' = {r \in table : r.source # s} \cup new
  BY <1>2, <1>3
<1> HIDE DEF v
<1>5. \A p \in 0 .. n - 1 : /\ row(p) \in StoredRows /\ row(p).source = s /\ row(p).position = p
  BY <1>1, <1>3 DEF StoredRows
<1>6. IsFiniteSet(new)
  <2> DEFINE f == [p \in 0 .. n - 1 |-> row(p)]
  <2>1. f \in Surjection(0 .. n - 1, new)
    BY DEF Surjection
  <2>2. IsFiniteSet(0 .. n - 1)
    BY <1>1, FS_Interval
  <2> HIDE DEF f, new
  <2> QED
    BY <2>1, <2>2, FS_Surjection
<1>7. \A r \in new : r \in StoredRows /\ r.source = s
  BY <1>5
<1>8. \A r, q \in new : r.position = q.position => r = q
  BY <1>5
<1> HIDE DEF new
<1>9. IsFiniteSet(table')
  <2>1. IsFiniteSet({r \in table : r.source # s})
    BY FS_Subset DEF TableTyped
  <2> QED
    BY <1>4, <1>6, <2>1, FS_Union
<1>10. TableTyped'
  BY <1>2, <1>3, <1>4, <1>7, <1>9 DEF TableTyped
<1>11. OnePlace'
  BY <1>4, <1>7, <1>8 DEF OnePlace, Place
<1>12. \A r \in StoredRows : r.source # s => (r \in table' <=> r \in table)
  BY <1>4, <1>7
<1> QED
  BY <1>2, <1>10, <1>11, <1>12

\* The first hit that brings a row in.
LEMMA Bringers ==
    ASSUME Ranked(hits)
    PROVE  /\ \A q \in Brought : /\ Bringer(q) \in DOMAIN hits /\ Brings(Bringer(q), q)
                                 /\ \A j \in 1 .. Bringer(q) - 1 : ~Brings(j, q)
           /\ \A k \in DOMAIN hits : hits[k] \in Brought /\ Bringer(hits[k]) = k
<1>1. Len(hits) \in Nat /\ DOMAIN hits = 1 .. Len(hits)
  BY Ranks
<1>2. ASSUME NEW q \in Brought
      PROVE  \E k \in DOMAIN hits : Brings(k, q) /\ \A j \in 1 .. k - 1 : ~Brings(j, q)
  <2> DEFINE S == {k \in DOMAIN hits : Brings(k, q)}
             order == {p \in S \X S : p[1] < p[2]}
  <2>1. S \in SUBSET (1 .. Len(hits)) /\ S # {}
    BY <1>1 DEF Brought
  <2>2. IsFiniteSet(S)
    <3>1. IsFiniteSet(1 .. Len(hits))
      BY <1>1, FS_Interval
    <3> HIDE DEF S
    <3> QED
      BY <2>1, <3>1, FS_Subset
  <2>3. /\ \A k, l \in S : <<k, l>> \in order <=> k < l
        /\ order \in SUBSET (S \X S)
    OBVIOUS
  <2> HIDE DEF S, order
  <2>4. \A k \in S : k \in Nat
    BY <1>1, <2>1
  <2>5. /\ \A k \in S : <<k, k>> \notin order
        /\ \A k, l, m \in S : <<k, l>> \in order /\ <<l, m>> \in order => <<k, m>> \in order
    BY <2>3, <2>4
  <2>6. \A k, l \in S : k = l \/ <<k, l>> \in order \/ <<l, k>> \in order
    <3>1. \A k, l \in S : k = l \/ k < l \/ l < k
      BY <2>4
    <3> QED
      BY <2>3, <3>1
  <2>7. /\ Cardinality(S) \in Nat
        /\ \A i \in 1 .. Cardinality(S) : \E k \in S : Cardinality(Ahead(S, order, k)) = i - 1
    BY ZenonT(60), <2>2, <2>3, <2>5, <2>6, Places
  <2>8. Cardinality(S) # 0
    BY <2>1, <2>2, FS_EmptySet
  <2>9. PICK k \in S : Cardinality(Ahead(S, order, k)) = 0
    <3>1. 1 \in 1 .. Cardinality(S) /\ 1 - 1 = 0
      BY <2>7, <2>8
    <3> QED
      BY <2>7, <3>1
  <2>10. Ahead(S, order, k) = {}
    <3>1. Ahead(S, order, k) \in SUBSET S
      BY DEF Ahead
    <3>2. IsFiniteSet(Ahead(S, order, k))
      BY <2>2, <3>1, FS_Subset
    <3> QED
      BY <2>9, <3>2, FS_EmptySet
  <2>11. \A j \in S : ~(j < k)
    BY <2>3, <2>10 DEF Ahead
  <2>12. \A j \in 1 .. k - 1 : j \notin S /\ j \in DOMAIN hits
    BY <1>1, <2>1, <2>4, <2>11
  <2> QED
    BY <2>12 DEF S
<1>3. \A q \in Brought : /\ Bringer(q) \in DOMAIN hits /\ Brings(Bringer(q), q)
                          /\ \A j \in 1 .. Bringer(q) - 1 : ~Brings(j, q)
  BY <1>2 DEF Bringer
<1>4. ASSUME NEW k \in DOMAIN hits PROVE hits[k] \in Brought /\ Bringer(hits[k]) = k
  <2>1. hits[k] \in Brought
    BY DEF Brought, Brings, ToSet
  <2>2. \A j \in DOMAIN hits : Brings(j, hits[k]) => j = k
    <3> SUFFICES ASSUME NEW j \in DOMAIN hits, Brings(j, hits[k]) PROVE j = k
      OBVIOUS
    <3>1. hits[k] \notin Neighbours(hits[j])
      BY DEF Neighbours, Held
    <3>2. hits[k] = hits[j]
      BY <3>1 DEF Brings
    <3> QED
      BY <3>2 DEF Ranked, IsInjective
  <2> QED
    BY <1>3, <2>1, <2>2
<1> QED
  BY <1>3, <1>4

\* The rows brought are totally ordered.
LEMMA EarlierTotal ==
    ASSUME TableTyped, OnePlace, Fresh(hits)
    PROVE  /\ \A q \in Brought : q \in StoredRows /\ Bringer(q) \in Nat
           /\ \A q \in Brought : ~Earlier(q, q)
           /\ \A p, q, r \in Brought : Earlier(p, q) /\ Earlier(q, r) => Earlier(p, r)
           /\ \A p, q \in Brought : p = q \/ Earlier(p, q) \/ Earlier(q, p)
<1>1. \A q \in Brought : q \in StoredRows /\ q.position \in Nat
  BY DEF Brought, TableTyped, Fresh, StoredRows
<1>2. \A q \in Brought : Bringer(q) \in Nat /\ Bringer(q) \in DOMAIN hits /\ Brings(Bringer(q), q)
  BY Bringers, Ranks DEF Fresh
<1>3. ASSUME NEW p \in Brought, NEW q \in Brought, Bringer(p) = Bringer(q), p.position = q.position
      PROVE  p = q
  <2> DEFINE h == hits[Bringer(q)]
  <2>1. (p = h \/ p \in Neighbours(h)) /\ (q = h \/ q \in Neighbours(h))
    BY <1>2, <1>3 DEF Brings
  <2>2. \A r \in Neighbours(h) : r \in table /\ r.source = h.source /\ Place(h) # Place(r)
    BY <1>2 DEF Neighbours, Near, Held
  <2>3. Place(p) = Place(q)
    BY <1>3, <2>1, <2>2 DEF Place
  <2>4. CASE p = h /\ q = h
    BY <2>4
  <2>5. CASE p \in Neighbours(h) /\ q \in Neighbours(h)
    BY <2>2, <2>3, <2>5 DEF OnePlace
  <2> QED
    BY <2>1, <2>2, <2>3, <2>4, <2>5
<1>4. \A q \in Brought : ~Earlier(q, q)
  BY <1>1, <1>2 DEF Earlier
<1>5. \A p, q, r \in Brought : Earlier(p, q) /\ Earlier(q, r) => Earlier(p, r)
  BY <1>1, <1>2 DEF Earlier
<1>6. \A p, q \in Brought : p = q \/ Earlier(p, q) \/ Earlier(q, p)
  BY <1>1, <1>2, <1>3 DEF Earlier
<1> QED
  BY <1>1, <1>2, <1>4, <1>5, <1>6

\* The expansion sorts the rows brought.
LEMMA ExpandedSorted ==
    ASSUME TableTyped, OnePlace, Fresh(hits)
    PROVE  /\ Cardinality(Brought) \in Nat /\ Expanded \in [1 .. Cardinality(Brought) -> Brought]
           /\ \A q \in Brought : \E i \in 1 .. Cardinality(Brought) : Expanded[i] = q
           /\ \A i, j \in 1 .. Cardinality(Brought) : i < j <=> Earlier(Expanded[i], Expanded[j])
<1> DEFINE order == {p \in Brought \X Brought : Earlier(p[1], p[2])}
<1>1. IsFiniteSet(Brought)
  <2>1. IsFiniteSet(ToSet(hits) \cup table)
    BY ListFinite, FS_Union DEF TableTyped, Fresh
  <2>2. Brought \in SUBSET (ToSet(hits) \cup table)
    BY DEF Brought
  <2> QED
    BY <2>1, <2>2, FS_Subset
<1>2. \A p, q \in Brought : <<p, q>> \in order <=> Earlier(p, q)
  OBVIOUS
<1>3. order \in SUBSET (Brought \X Brought)
  OBVIOUS
<1> HIDE DEF order
<1>4. \A q \in Brought : {p \in Brought : Earlier(p, q)} = Ahead(Brought, order, q)
  BY <1>2 DEF Ahead
<1>5. /\ Expanded = [n \in 1 .. Cardinality(Brought) |-> Expanded[n]]
      /\ \A n \in 1 .. Cardinality(Brought) : \A q \in Brought : Cardinality(Ahead(Brought, order, q)) = n - 1 =>
            Expanded[n] \in Brought /\ Cardinality(Ahead(Brought, order, Expanded[n])) = n - 1
  <2>1. \A n \in 1 .. Cardinality(Brought) :
           Expanded[n] = CHOOSE q \in Brought : Cardinality({p \in Brought : Earlier(p, q)}) = n - 1
    BY DEF Expanded
  <2>2. \A n \in 1 .. Cardinality(Brought) : \A q \in Brought : Cardinality({p \in Brought : Earlier(p, q)}) = n - 1 =>
           Expanded[n] \in Brought /\ Cardinality({p \in Brought : Earlier(p, Expanded[n])}) = n - 1
    BY <2>1
  <2>3. Expanded = [n \in 1 .. Cardinality(Brought) |-> Expanded[n]]
    BY SMTT(30) DEF Expanded
  <2> QED
    BY <1>4, <2>2, <2>3
<1>6. /\ \A q \in Brought : <<q, q>> \notin order
      /\ \A p, q, r \in Brought : <<p, q>> \in order /\ <<q, r>> \in order => <<p, r>> \in order
      /\ \A p, q \in Brought : p = q \/ <<p, q>> \in order \/ <<q, p>> \in order
  BY <1>2, EarlierTotal
<1>7. /\ Cardinality(Brought) \in Nat /\ Expanded \in [1 .. Cardinality(Brought) -> Brought]
      /\ \A q \in Brought : \E i \in 1 .. Cardinality(Brought) : Expanded[i] = q
      /\ \A i, j \in 1 .. Cardinality(Brought) : i < j <=> <<Expanded[i], Expanded[j]>> \in order
  BY <1>1, <1>3, <1>5, <1>6, Sorted
<1> QED
  BY <1>2, <1>7

\* Between a row and the hit that brings it there are only rows this hit brings, in the
\* order of the text.
Together(list, j, k) ==
    \A i \in Min({j, k}) .. Max({j, k}) - 1 : /\ list[i].source = list[i + 1].source
                                            /\ list[i].position < list[i + 1].position

\* Max of two numbers.
LEMMA Greatest ==
    ASSUME NEW a \in Nat, NEW b \in Nat
    PROVE  Max({a, b}) = IF a <= b THEN b ELSE a
<1> DEFINE m == IF a <= b THEN b ELSE a
<1>1. m \in {a, b} /\ \A y \in {a, b} : m >= y
  OBVIOUS
<1>2. \A x \in {a, b} : (\A y \in {a, b} : x >= y) => x = m
  OBVIOUS
<1> HIDE DEF m
<1> QED
  BY <1>1, <1>2 DEF Max

\* Whatever the hits, their expansion keeps their order, holds nothing twice, puts each
\* neighbour beside its hit and misses none.
LEMMA ContextRight ==
    ASSUME TableTyped, OnePlace, Fresh(hits)
    PROVE  /\ \A j, k \in DOMAIN hits : j <= k => Rank(hits[j], Expanded) \in 1 .. Rank(hits[k], Expanded)
           /\ \A j, k \in DOMAIN Expanded : j < k =>
                 /\ Expanded[j] # Expanded[k]
                 /\ Place(Expanded[j]) = Place(Expanded[k]) => Expanded[j].source \in replaced
           /\ \A j \in DOMAIN Expanded : \E k \in DOMAIN Expanded :
                 Expanded[k] \in ToSet(hits) /\ Near(Expanded[j], Expanded[k]) /\ Together(Expanded, j, k)
           /\ \A h \in ToSet(hits) : h.source \notin replaced => {r \in table : Near(r, h)} \subseteq ToSet(Expanded)
<1> DEFINE e == Expanded
           n == Cardinality(Brought)
<1>1. /\ n \in Nat /\ e \in [1 .. n -> Brought] /\ DOMAIN e = 1 .. n
      /\ \A q \in Brought : \E i \in 1 .. n : e[i] = q
      /\ \A i, j \in 1 .. n : i < j <=> Earlier(e[i], e[j])
  BY ExpandedSorted
<1> HIDE DEF e, n
<1>2. /\ Len(hits) \in Nat /\ DOMAIN hits = 1 .. Len(hits)
      /\ ToSet(hits) = {hits[k] : k \in DOMAIN hits}
  BY Ranks DEF Fresh, ToSet
<1>3. /\ \A q \in Brought : Bringer(q) \in DOMAIN hits /\ Brings(Bringer(q), q)
      /\ \A k \in DOMAIN hits : hits[k] \in Brought /\ Bringer(hits[k]) = k
  BY Bringers DEF Fresh
<1>4. /\ \A q \in Brought : ~Earlier(q, q) /\ Bringer(q) \in Nat
      /\ \A q \in Brought : q \in StoredRows /\ q.position \in Nat
  BY EarlierTotal DEF StoredRows
<1>5. IsInjective(e)
  <2> SUFFICES ASSUME NEW i \in 1 .. n, NEW j \in 1 .. n, e[i] = e[j] PROVE i = j
    BY <1>1 DEF IsInjective
  <2>1. e[i] \in Brought /\ ~Earlier(e[i], e[i])
    BY <1>1, <1>4
  <2>2. ~(i < j) /\ ~(j < i)
    BY <1>1, <2>1
  <2> QED
    BY <1>1, <2>2
<1>6. Ranked(e) /\ ToSet(e) \subseteq Brought
  BY <1>1, <1>5, RankedOf
<1>7. \A q \in Brought : q \in ToSet(e) /\ Rank(q, e) \in 1 .. n /\ e[Rank(q, e)] = q
  <2> SUFFICES ASSUME NEW q \in Brought PROVE q \in ToSet(e) /\ Rank(q, e) \in 1 .. n /\ e[Rank(q, e)] = q
    OBVIOUS
  <2>1. PICK i \in 1 .. n : e[i] = q
    BY <1>1
  <2> QED
    BY <1>1, <1>6, <2>1, Ranks
<1>8. ASSUME NEW j \in DOMAIN hits, NEW k \in DOMAIN hits, j <= k
      PROVE  Rank(hits[j], e) \in 1 .. Rank(hits[k], e)
  <2>1. /\ hits[j] \in Brought /\ hits[k] \in Brought
        /\ Rank(hits[j], e) \in 1 .. n /\ Rank(hits[k], e) \in 1 .. n
        /\ e[Rank(hits[j], e)] = hits[j] /\ e[Rank(hits[k], e)] = hits[k]
    BY <1>3, <1>7
  <2>2. CASE j = k
    BY <1>1, <2>1, <2>2
  <2>3. CASE j < k
    <3>1. Earlier(hits[j], hits[k])
      BY <1>3, <2>3 DEF Earlier
    <3>2. Rank(hits[j], e) < Rank(hits[k], e)
      BY <1>1, <2>1, <3>1
    <3> QED
      BY <1>1, <2>1, <3>2
  <2> QED
    BY <1>2, <1>8, <2>2, <2>3
<1>9. \A q \in Brought : q.source \notin replaced => q \in table
  <2> SUFFICES ASSUME NEW q \in Brought, q.source \notin replaced PROVE q \in table
    OBVIOUS
  <2>1. q = hits[Bringer(q)] \/ q \in table
    BY <1>3 DEF Brings, Neighbours
  <2> QED
    BY <1>2, <1>3, <2>1 DEF Fresh
<1>10. ASSUME NEW j \in 1 .. n, NEW k \in 1 .. n, j < k
       PROVE  e[j] # e[k] /\ (Place(e[j]) = Place(e[k]) => e[j].source \in replaced)
  <2>1. e[j] \in Brought /\ e[k] \in Brought
    BY <1>1
  <2>2. e[j] # e[k]
    <3>1. j # k
      BY <1>1, <1>10
    <3> QED
      BY <1>1, <1>5, <3>1 DEF IsInjective
  <2>3. ASSUME Place(e[j]) = Place(e[k]), e[j].source \notin replaced PROVE FALSE
    <3>1. e[k].source \notin replaced
      BY <2>3 DEF Place
    <3>2. e[j] \in table /\ e[k] \in table
      BY <1>9, <2>1, <2>3, <3>1
    <3> QED
      BY <2>2, <2>3, <3>2 DEF OnePlace
  <2> QED
    BY <2>2, <2>3
<1>11. \A q \in Brought : Near(q, hits[Bringer(q)])
  <2> SUFFICES ASSUME NEW q \in Brought PROVE Near(q, hits[Bringer(q)])
    OBVIOUS
  <2>1. CASE q \in Neighbours(hits[Bringer(q)])
    BY <2>1 DEF Neighbours
  <2>2. CASE q = hits[Bringer(q)]
    <3>1. q.position \in Nat /\ Radius \in Nat
      BY <1>4, RetrievalAssumption
    <3>2. q.position - q.position \in -Radius .. Radius
      BY <3>1
    <3>3. Near(q, q)
      BY <3>2 DEF Near
    <3> QED
      BY <2>2, <3>3
  <2> QED
    BY <1>3, <2>1, <2>2 DEF Brings
<1>12. \A i, j \in 1 .. n : i <= j => Bringer(e[i]) <= Bringer(e[j])
  <2> SUFFICES ASSUME NEW i \in 1 .. n, NEW j \in 1 .. n, i <= j PROVE Bringer(e[i]) <= Bringer(e[j])
    OBVIOUS
  <2>1. Bringer(e[i]) \in Nat /\ Bringer(e[j]) \in Nat
    BY <1>1, <1>4
  <2>2. i = j \/ Earlier(e[i], e[j])
    <3>1. i = j \/ i < j
      BY <1>1
    <3> QED
      BY <1>1, <3>1
  <2> QED
    BY <2>1, <2>2 DEF Earlier
<1>13. ASSUME NEW j \in 1 .. n
       PROVE  \E k \in 1 .. n : e[k] \in ToSet(hits) /\ Near(e[j], e[k]) /\ Together(e, j, k)
  <2> DEFINE b == Bringer(e[j])
  <2>1. e[j] \in Brought /\ b \in DOMAIN hits
    BY <1>1, <1>3
  <2>2. PICK k \in 1 .. n : e[k] = hits[b]
    BY <1>1, <1>3, <2>1
  <2>3. Bringer(e[k]) = b /\ e[k] \in ToSet(hits)
    BY <1>2, <1>3, <2>1, <2>2
  <2>4. Near(e[j], e[k])
    BY <1>11, <2>1, <2>2
  <2>5. Together(e, j, k)
    <3> SUFFICES ASSUME NEW i \in Min({j, k}) .. Max({j, k}) - 1
                 PROVE  e[i].source = e[i + 1].source /\ e[i].position < e[i + 1].position
      BY DEF Together
    <3>1. j \in Nat /\ k \in Nat
      BY <1>1
    <3>2. \/ j <= i /\ i + 1 <= k
          \/ k <= i /\ i + 1 <= j
      BY <3>1, Least, Greatest
    <3>3. i \in 1 .. n /\ i + 1 \in 1 .. n /\ i < i + 1
      BY <1>1, <3>1, <3>2, Least
    <3>4. Bringer(e[i]) = b /\ Bringer(e[i + 1]) = b
      <4>1. Bringer(e[i]) \in Nat /\ Bringer(e[i + 1]) \in Nat /\ b \in Nat /\ i <= i + 1 /\ i \in Nat
        BY <1>1, <1>4, <2>1, <3>3
      <4>2. Bringer(e[i]) <= Bringer(e[i + 1])
        BY <1>12, <3>3, <4>1
      <4>3. CASE j <= i /\ i + 1 <= k
        <5>1. b <= Bringer(e[i]) /\ Bringer(e[i + 1]) <= b
          BY <1>12, <2>3, <3>3, <4>3
        <5> QED
          BY <4>1, <4>2, <5>1
      <4>4. CASE k <= i /\ i + 1 <= j
        <5>1. b <= Bringer(e[i]) /\ Bringer(e[i + 1]) <= b
          BY <1>12, <2>3, <3>3, <4>4
        <5> QED
          BY <4>1, <4>2, <5>1
      <4> QED
        BY <3>2, <4>3, <4>4
    <3>5. Earlier(e[i], e[i + 1]) /\ e[i] \in Brought /\ e[i + 1] \in Brought
      BY <1>1, <3>3
    <3>6. e[i].source = hits[b].source /\ e[i + 1].source = hits[b].source
      BY <1>11, <3>4, <3>5 DEF Near
    <3>7. e[i].position < e[i + 1].position
      BY <1>4, <3>4, <3>5 DEF Earlier
    <3> QED
      BY <3>6, <3>7
  <2> QED
    BY <2>3, <2>4, <2>5
<1>14. ASSUME NEW h \in ToSet(hits), h.source \notin replaced, NEW r \in table, Near(r, h)
       PROVE  r \in ToSet(e)
  <2>1. PICK k \in DOMAIN hits : hits[k] = h
    BY <1>2
  <2>2. CASE Held(r)
    <3>1. PICK g \in DOMAIN hits : Place(hits[g]) = Place(r)
      BY <2>2 DEF Held
    <3>2. hits[g].source = h.source
      BY <1>14, <3>1 DEF Place, Near
    <3>3. hits[g] \in table
      BY <1>2, <1>14, <3>2 DEF Fresh
    <3>4. r = hits[g]
      BY <3>1, <3>3 DEF OnePlace
    <3> QED
      BY <1>3, <1>7, <3>4
  <2>3. CASE ~Held(r)
    <3>1. r \in Neighbours(hits[k])
      BY <1>14, <2>1, <2>3 DEF Neighbours
    <3>2. r \in Brought
      BY <3>1 DEF Brought, Brings
    <3> QED
      BY <1>7, <3>2
  <2> QED
    BY <2>2, <2>3
<1> QED
  BY <1>1, <1>8, <1>10, <1>13, <1>14 DEF e

\* A ranking of stored rows is fresh.
LEMMA FreshRanking ==
    ASSUME TableTyped, NEW n \in Nat, NEW list \in Rankings(table, n)
    PROVE  Fresh(list) /\ Len(list) = n
<1>1. list \in [1 .. n -> table] /\ IsInjective(list)
  BY DEF Rankings
<1>2. Ranked(list) /\ Len(list) = n /\ ToSet(list) \subseteq table
  BY <1>1, RankedOf
<1> QED
  BY <1>2 DEF Fresh, TableTyped

\* An ingest between two steps of the retrieval keeps the invariant: it changes rows of a
\* source that counts as replaced from then on.
LEMMA IngestStep ==
    ASSUME RetrievalInv, NEW s \in Sources, NEW n \in 0 .. MaxChunks, Ingest(s, n)
    PROVE  RetrievalInv'
<1>0. /\ TableTyped /\ OnePlace /\ Fresh(keyword) /\ Fresh(vector) /\ Fresh(merged) /\ Fresh(hits)
      /\ Len(keyword) <= Candidates /\ Len(vector) <= Candidates
      /\ stage = "keyword" => keyword = <<>> /\ vector = <<>> /\ merged = <<>> /\ hits = <<>>
      /\ stage = "rerank" => merged = FirstOf(Fused, Candidates)
      /\ ContextWhole
  BY DEF RetrievalInv
<1>1. /\ TableTyped' /\ OnePlace'
      /\ \A r \in StoredRows : r.source # s => (r \in table' <=> r \in table)
      /\ replaced \subseteq replaced' /\ (stage # "keyword" => s \in replaced')
      /\ UNCHANGED <<stage, keyword, vector, merged, hits, result>>
  BY <1>0, Ingested
<1>2. Fresh(keyword)' /\ Fresh(vector)' /\ Fresh(merged)' /\ Fresh(hits)'
  <2>1. CASE stage = "keyword"
    <3>1. keyword' = <<>> /\ vector' = <<>> /\ merged' = <<>> /\ hits' = <<>>
      BY <1>0, <1>1, <2>1
    <3>2. \A r : r \notin ToSet(<<>>)
      BY NothingFound
    <3> QED
      BY <3>1, <3>2, NothingFound DEF Fresh
  <2>2. CASE stage # "keyword"
    <3>1. \A list : Fresh(list) => (Ranked(list) /\ \A r \in ToSet(list) : r \in StoredRows /\ (r.source \notin replaced' => r \in table'))
      BY <1>1, <2>2 DEF Fresh
    <3> QED
      BY <1>0, <1>1, <3>1 DEF Fresh
  <2> QED
    BY <2>1, <2>2
<1>3. (stage = "rerank" => merged = FirstOf(Fused, Candidates))'
  <2>1. Fused' = Fused
    BY <1>1 DEF Fused, Found, Before, Score, Met
  <2> QED
    BY <1>0, <1>1, <2>1
<1>4. ContextWhole'
  <2> SUFFICES ASSUME stage = "done" PROVE ContextWhole'
    BY <1>1 DEF ContextWhole
  <2>1. \A j, k \in DOMAIN hits : j <= k => Rank(hits[j], result) \in 1 .. Rank(hits[k], result)
    BY <1>0 DEF ContextWhole
  <2>2. OnePerPlace'
    BY <1>0, <1>1 DEF ContextWhole, OnePerPlace
  <2>3. \A j \in DOMAIN result : \E k \in DOMAIN result :
           result[k] \in ToSet(hits) /\ Near(result[j], result[k]) /\ Together(result, j, k)
    BY <1>0 DEF ContextWhole, Together
  <2>4. \A h \in ToSet(hits) : h.source \notin replaced' => {r \in table' : Near(r, h)} \subseteq ToSet(result)
    <3> SUFFICES ASSUME NEW h \in ToSet(hits), h.source \notin replaced', NEW r \in table', Near(r, h)
                 PROVE  r \in ToSet(result)
      OBVIOUS
    <3>1. h.source # s /\ h.source \notin replaced
      BY <1>1
    <3>2. r \in StoredRows /\ r.source # s
      BY <1>1, <3>1 DEF Near, TableTyped
    <3>3. r \in table
      BY <1>1, <3>2
    <3> QED
      BY <1>0, <3>1, <3>3 DEF ContextWhole
  <2> QED
    BY <1>1, <2>1, <2>2, <2>3, <2>4 DEF ContextWhole, Together
<1> QED
  BY <1>0, <1>1, <1>2, <1>3, <1>4 DEF RetrievalInv

\* Every step of the retrieval keeps it.
LEMMA RetrieveStep ==
    ASSUME RetrievalInv, Retrieve
    PROVE  RetrievalInv'
<1>0. /\ TableTyped /\ OnePlace /\ Fresh(keyword) /\ Fresh(vector) /\ Fresh(merged) /\ Fresh(hits)
      /\ Len(keyword) <= Candidates /\ Len(vector) <= Candidates
      /\ stage = "keyword" => keyword = <<>> /\ vector = <<>> /\ merged = <<>> /\ hits = <<>>
      /\ stage = "rerank" => merged = FirstOf(Fused, Candidates)
      /\ ContextWhole
      /\ Candidates \in Nat /\ TopK \in Nat /\ Limit \in Nat
  BY RetrievalAssumption DEF RetrievalInv
<1>1. /\ table' = table /\ version' = version /\ replaced' = replaced
      /\ stage' \in {"vector", "merge", "rerank", "expand", "done", "failed"}
  BY DEF Retrieve, KeywordSearch, VectorSearch, QueryFails, RrfMerge, RerankChunks, ExpandNeighbours, Step
<1>2. TableTyped' /\ OnePlace'
  BY <1>0, <1>1 DEF TableTyped, OnePlace
<1>3. /\ keyword' = keyword => Fresh(keyword)'
      /\ vector' = vector => Fresh(vector)'
      /\ merged' = merged => Fresh(merged)'
      /\ hits' = hits => Fresh(hits)'
  BY <1>0, <1>1 DEF Fresh
<1>4. Cardinality(table) \in Nat
  BY <1>0, FS_CardinalityType DEF TableTyped
<1>5. CASE KeywordSearch
  <2>1. PICK n \in 0 .. Min({Candidates, Cardinality(table)}) : keyword' \in Rankings(table, n)
    BY <1>5 DEF KeywordSearch
  <2>2. n \in Nat /\ n <= Candidates
    BY <1>0, <1>4, <2>1, Least
  <2>3. Fresh(keyword') /\ Len(keyword') = n
    BY <1>0, <2>1, <2>2, FreshRanking
  <2>4. stage' = "vector" /\ UNCHANGED <<vector, merged, hits, result>>
    BY <1>5 DEF KeywordSearch, Step
  <2>5. Fresh(keyword)'
    BY <1>1, <2>3 DEF Fresh
  <2>6. Fresh(vector)' /\ Fresh(merged)' /\ Fresh(hits)'
    BY <1>0, <1>1, <2>4 DEF Fresh
  <2> QED
    BY <1>0, <1>2, <2>2, <2>3, <2>4, <2>5, <2>6 DEF RetrievalInv, ContextWhole
<1>6. CASE VectorSearch
  <2> DEFINE n == Min({Candidates, Cardinality(table)})
  <2>1. vector' \in Rankings(table, n)
    BY <1>6 DEF VectorSearch
  <2>2. n \in Nat /\ n <= Candidates
    BY <1>0, <1>4, Least
  <2> HIDE DEF n
  <2>3. Fresh(vector') /\ Len(vector') = n
    BY <1>0, <2>1, <2>2, FreshRanking
  <2>4. stage' = "merge" /\ UNCHANGED <<keyword, merged, hits, result>>
    BY <1>6 DEF VectorSearch, Step
  <2>5. Fresh(vector)'
    BY <1>1, <2>3 DEF Fresh
  <2>6. Fresh(keyword)' /\ Fresh(merged)' /\ Fresh(hits)'
    BY <1>0, <1>1, <2>4 DEF Fresh
  <2> QED
    BY <1>0, <1>2, <2>2, <2>3, <2>4, <2>5, <2>6 DEF RetrievalInv, ContextWhole
<1>7. CASE QueryFails
  <2>1. stage' = "failed" /\ UNCHANGED <<keyword, vector, merged, hits, result>>
    BY <1>7 DEF QueryFails, Step, found
  <2>2. Fresh(keyword)' /\ Fresh(vector)' /\ Fresh(merged)' /\ Fresh(hits)'
    BY <1>0, <1>1, <2>1 DEF Fresh
  <2> QED
    BY <1>0, <1>2, <2>1, <2>2 DEF RetrievalInv, ContextWhole
<1>8. CASE RrfMerge
  <2>1. /\ stage' = "rerank" /\ merged' = FirstOf(Fused, Candidates)
        /\ UNCHANGED <<keyword, vector, hits, result>>
    BY <1>8 DEF RrfMerge, Step
  <2>2. Ranked(merged') /\ ToSet(merged') \subseteq Found
    BY <1>0, <2>1, FusionRespects DEF Fresh
  <2>3. Fresh(merged)'
    BY <1>0, <1>1, <2>2 DEF Fresh, Found
  <2>4. Fresh(keyword)' /\ Fresh(vector)' /\ Fresh(hits)'
    BY <1>0, <1>1, <2>1 DEF Fresh
  <2>5. Fused' = Fused
    BY <2>1 DEF Fused, Found, Before, Score, Met
  <2> QED
    BY <1>0, <1>2, <2>1, <2>3, <2>4, <2>5 DEF RetrievalInv, ContextWhole
<1>9. CASE RerankChunks
  <2>1. stage' = "expand" /\ UNCHANGED <<keyword, vector, merged, result>>
    BY <1>9 DEF RerankChunks, Step
  <2>2. PICK list \in Reranked : hits' = FirstOf(list, Limit)
    BY <1>9 DEF RerankChunks
  <2>3. Ranked(merged) /\ Len(merged) \in Nat
    BY <1>0, Ranks DEF Fresh
  <2>4. Ranked(list) /\ ToSet(list) \subseteq ToSet(merged)
    <3>1. CASE list = merged
      BY <2>3, <3>1
    <3>2. CASE list = FirstOf(merged, TopK)
      BY <1>0, <2>3, <3>2, RankedFirst
    <3>3. ASSUME NEW n \in 0 .. Min({TopK, Len(merged)}), list \in Rankings(ToSet(merged), n)
          PROVE  Ranked(list) /\ ToSet(list) \subseteq ToSet(merged)
      <4>1. n \in Nat
        BY <1>0, <2>3, <3>3, Least
      <4>2. list \in [1 .. n -> ToSet(merged)] /\ IsInjective(list)
        BY <3>3 DEF Rankings
      <4> QED
        BY <4>1, <4>2, RankedOf
    <3> QED
      BY <2>2, <3>1, <3>2, <3>3 DEF Reranked
  <2>5. Ranked(hits') /\ ToSet(hits') \subseteq ToSet(merged)
    BY <1>0, <2>2, <2>4, RankedFirst
  <2>6. Fresh(hits)'
    BY <1>0, <1>1, <2>5 DEF Fresh
  <2>7. Fresh(keyword)' /\ Fresh(vector)' /\ Fresh(merged)'
    BY <1>0, <1>1, <2>1 DEF Fresh
  <2> QED
    BY <1>0, <1>2, <2>1, <2>6, <2>7 DEF RetrievalInv, ContextWhole
<1>10. CASE ExpandNeighbours
  <2>1. stage' = "done" /\ result' = Expanded /\ UNCHANGED <<keyword, vector, merged, hits>>
    BY <1>10 DEF ExpandNeighbours, Step
  <2>2. Fresh(keyword)' /\ Fresh(vector)' /\ Fresh(merged)' /\ Fresh(hits)'
    BY <1>0, <1>1, <2>1 DEF Fresh
  <2>3. ContextWhole'
    <3>1. /\ \A j, k \in DOMAIN hits : j <= k => Rank(hits[j], result') \in 1 .. Rank(hits[k], result')
          /\ \A j, k \in DOMAIN result' : j < k =>
                /\ result'[j] # result'[k]
                /\ Place(result'[j]) = Place(result'[k]) => result'[j].source \in replaced
          /\ \A j \in DOMAIN result' : \E k \in DOMAIN result' :
                result'[k] \in ToSet(hits) /\ Near(result'[j], result'[k]) /\ Together(result', j, k)
          /\ \A h \in ToSet(hits) : h.source \notin replaced => {r \in table : Near(r, h)} \subseteq ToSet(result')
      BY <1>0, <2>1, ContextRight
    <3>2. OnePerPlace'
      BY <1>1, <3>1 DEF OnePerPlace
    <3> QED
      BY <1>1, <2>1, <3>1, <3>2 DEF ContextWhole, Together
  <2> QED
    BY <1>0, <1>2, <2>1, <2>2, <2>3 DEF RetrievalInv
<1> QED
  BY <1>5, <1>6, <1>7, <1>8, <1>9, <1>10 DEF Retrieve

\* The invariant is inductive and implies both properties.
LEMMA RetrievalKeeps ==
    /\ RetrievalInit => RetrievalInv
    /\ RetrievalInv /\ [RetrievalNext]_rvars => RetrievalInv'
    /\ RetrievalInv => RanksRespected /\ ContextWhole
<1>1. ASSUME RetrievalInit PROVE RetrievalInv
  <2>1. /\ keyword = <<>> /\ vector = <<>> /\ merged = <<>> /\ hits = <<>>
        /\ stage = "keyword" /\ table = {} /\ replaced = {} /\ version = [s \in Sources |-> 0]
    BY <1>1 DEF RetrievalInit
  <2>2. TableTyped /\ OnePlace
    BY <2>1, FS_EmptySet DEF TableTyped, OnePlace
  <2>3. Fresh(<<>>) /\ Len(<<>>) <= Candidates
    BY NothingFound, RetrievalAssumption
  <2> QED
    BY <2>1, <2>2, <2>3 DEF RetrievalInv, ContextWhole
<1>2. ASSUME RetrievalInv, [RetrievalNext]_rvars PROVE RetrievalInv'
  <2>1. CASE RetrievalNext
    BY <1>2, <2>1, IngestStep, RetrieveStep DEF RetrievalNext
  <2>2. CASE UNCHANGED rvars
    <3>1. UNCHANGED <<table, version, stage, keyword, vector, merged, hits, result, replaced>>
      BY <2>2 DEF rvars, found
    <3>2. Fused' = Fused
      BY <3>1 DEF Fused, Found, Before, Score, Met
    <3>3. TableTyped' /\ OnePlace' /\ Fresh(keyword)' /\ Fresh(vector)' /\ Fresh(merged)' /\ Fresh(hits)'
      BY <1>2, <3>1 DEF RetrievalInv, TableTyped, OnePlace, Fresh
    <3>4. OnePerPlace' <=> OnePerPlace
      BY <3>1 DEF OnePerPlace
    <3>5. ContextWhole'
      BY <1>2, <3>1, <3>4 DEF RetrievalInv, ContextWhole
    <3> QED
      BY <1>2, <3>1, <3>2, <3>3, <3>5 DEF RetrievalInv
  <2> QED
    BY <1>2, <2>1, <2>2
<1>3. ASSUME RetrievalInv PROVE RanksRespected /\ ContextWhole
  <2>1. stage = "rerank" => RanksRespected
    BY <1>3, FusionRespects, RetrievalAssumption DEF RetrievalInv, Fresh
  <2> QED
    BY <1>3, <2>1 DEF RetrievalInv, RanksRespected
<1> QED
  BY <1>1, <1>2, <1>3

\* The fusion never puts a row behind one that is no better in either search, whatever the
\* searches find.
THEOREM FusionIsFair == RetrievalSpec => []RanksRespected
BY RetrievalKeeps, PTL DEF RetrievalSpec

\* The context is each hit among its neighbours, nothing twice and nothing missing, unless
\* an ingest came in between.
THEOREM ContextIsWhole == RetrievalSpec => []ContextWhole
BY RetrievalKeeps, PTL DEF RetrievalSpec
===============================================================================
