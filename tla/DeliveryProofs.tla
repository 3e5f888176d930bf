--------------------------- MODULE DeliveryProofs ---------------------------
(***************************************************************************)
(* Proofs about what reaches the orchestrator of Executor.  The signals:   *)
(* the calls of a name get, one each and in their order, the events raised *)
(* for it.  The futures: for what causes alone a parked orchestrator       *)
(* misses a value or panics, or the executor panics on a refused one.      *)
(***************************************************************************)
EXTENDS SenderProofs, FiniteSetTheorems

-----------------------------------------------------------------------------
(* Ranks.                                                                  *)

\* How many elements are earlier: fewer than there are, for one of them.
LEMMA EarlierBound ==
    ASSUME NEW S \in SUBSET Nat, IsFiniteSet(S), NEW x \in Nat
    PROVE  /\ Cardinality(S) \in Nat /\ Earlier(S, x) \in Nat
           /\ x \in S => Earlier(S, x) < Cardinality(S)
<1> DEFINE T == {y \in S : y < x}
<1>1. Cardinality(S) \in Nat
  BY FS_CardinalityType
<1>2. /\ IsFiniteSet(T) /\ Cardinality(T) <= Cardinality(S)
      /\ Cardinality(S) = Cardinality(T) => S = T
  <2>1. T \in SUBSET S
    OBVIOUS
  <2> HIDE DEF T
  <2> QED BY <2>1, FS_Subset
<1>3. Cardinality(T) \in Nat
  BY <1>2, FS_CardinalityType
<1>4. x \in S => S # T
  OBVIOUS
<1>5. Earlier(S, x) = Cardinality(T)
  BY DEF Earlier
<1> HIDE DEF T
<1> QED BY <1>1, <1>2, <1>3, <1>4, <1>5

\* An element behind all others changes no rank and has the last one.
LEMMA AddLast ==
    ASSUME NEW S \in SUBSET Nat, IsFiniteSet(S), NEW n \in Nat, \A x \in S : x < n,
           NEW T, T = S \cup {n}
    PROVE  /\ IsFiniteSet(T) /\ Cardinality(T) = Cardinality(S) + 1
           /\ Earlier(T, n) = Cardinality(S)
<1>1. n \notin S
  OBVIOUS
<1>2. IsFiniteSet(T) /\ Cardinality(T) = Cardinality(S) + 1
  BY <1>1, FS_AddElement
<1>4. Earlier(T, n) = Cardinality(S)
  <2>1. ~(n < n)
    OBVIOUS
  <2>2. \A y : y \in T /\ y < n <=> y \in S
    BY <2>1
  <2>3. {y \in T : y < n} = S
    BY <2>2
  <2> QED BY <2>3 DEF Earlier
<1> QED BY <1>2, <1>4

\* It leaves the ranks of the others as they are.
LEMMA AddLater ==
    ASSUME NEW S \in SUBSET Nat, NEW n \in Nat, \A x \in S : x < n, NEW x \in S
    PROVE  Earlier(S \cup {n}, x) = Earlier(S, x)
<1>1. \A y : y \in S \cup {n} /\ y < x <=> y \in S /\ y < x
  OBVIOUS
<1>2. {y \in S \cup {n} : y < x} = {y \in S : y < x}
  BY <1>1
<1> QED BY <1>2 DEF Earlier

\* The values of the calls in A and of the queue B after them are those of the
\* events in R.
Matched(A, R, B, a, r) ==
    /\ Cardinality(A) + Len(B) = Cardinality(R)
    /\ \A h \in A, i \in R : Earlier(A, h) = Earlier(R, i) => a[h] = r[i]
    /\ \A k \in DOMAIN B, i \in R : Cardinality(A) + k = Earlier(R, i) + 1 => B[k] = r[i]

\* A call takes the head of the queue.
LEMMA MatchedFromQueue ==
    ASSUME NEW A \in SUBSET Nat, NEW R \in SUBSET Nat, IsFiniteSet(A), IsFiniteSet(R),
           NEW B \in Seq(Option), NEW a, NEW r, Matched(A, R, B, a, r), B # <<>>,
           NEW n \in Nat, \A h \in A : h < n,
           NEW c, \A h \in A : c[h] = a[h], c[n] = Head(B)
    PROVE  Matched(A \cup {n}, R, Tail(B), c, r)
<1> PICK C : C = A \cup {n}
  OBVIOUS
<1> PICK D : D = Tail(B)
  OBVIOUS
<1> PICK len : len = Len(B)
  OBVIOUS
<1>1. /\ IsFiniteSet(C) /\ Cardinality(C) = Cardinality(A) + 1
      /\ \A h \in A : Earlier(C, h) = Earlier(A, h)
      /\ Earlier(C, n) = Cardinality(A)
  <2>1. IsFiniteSet(C) /\ Cardinality(C) = Cardinality(A) + 1
    BY AddLast
  <2>2. Earlier(C, n) = Cardinality(A)
    BY AddLast
  <2>3. ASSUME NEW x \in A PROVE Earlier(C, x) = Earlier(A, x)
    BY AddLater
  <2> QED BY <2>1, <2>2, <2>3
<1>2. len \in Nat /\ len # 0 /\ DOMAIN B = 1 .. len
  BY LenProperties, EmptySeq
<1>3. /\ D \in Seq(Option) /\ Len(D) = len - 1 /\ \A k \in 1 .. len - 1 : D[k] = B[k + 1]
  BY <1>2, HeadTailProperties
<1>4. DOMAIN D = 1 .. len - 1
  BY <1>3, LenProperties
<1>5. Cardinality(A) \in Nat /\ \A i \in R : Earlier(R, i) \in Nat
  BY EarlierBound, FS_CardinalityType
<1>6. Cardinality(C) + Len(D) = Cardinality(R)
  <2>1. Cardinality(A) + len = Cardinality(R)
    BY DEF Matched
  <2> QED BY <1>1, <1>2, <1>3, <1>5, <2>1
<1>7. ASSUME NEW h \in C, NEW i \in R, Earlier(C, h) = Earlier(R, i)
      PROVE  c[h] = r[i]
  <2>1. CASE h \in A
    <3>1. Earlier(A, h) = Earlier(R, i) /\ c[h] = a[h]
      BY <1>1, <1>7, <2>1
    <3> QED BY <2>1, <3>1 DEF Matched
  <2>2. CASE h = n
    <3>1. Cardinality(A) + 1 = Earlier(R, i) + 1
      BY <1>1, <1>5, <1>7, <2>2
    <3>2. 1 \in DOMAIN B
      BY <1>2
    <3>3. B[1] = r[i]
      BY <3>1, <3>2 DEF Matched
    <3>4. Head(B) = B[1]
      OBVIOUS
    <3> QED BY <2>2, <3>3, <3>4
  <2> QED BY <2>1, <2>2
<1>8. ASSUME NEW k \in DOMAIN D, NEW i \in R, Cardinality(C) + k = Earlier(R, i) + 1
      PROVE  D[k] = r[i]
  <2>1. k \in 1 .. len - 1
    BY <1>4
  <2>2. k + 1 \in DOMAIN B /\ D[k] = B[k + 1]
    BY <1>2, <1>3, <2>1
  <2>3. Cardinality(A) + (k + 1) = Earlier(R, i) + 1
    BY <1>1, <1>5, <1>8, <2>1
  <2>4. B[k + 1] = r[i]
    BY <2>2, <2>3 DEF Matched
  <2> QED BY <2>2, <2>4
<1> QED BY <1>6, <1>7, <1>8, ZenonT(60) DEF Matched

\* Only the values of these calls and events matter.
LEMMA MatchedSame ==
    ASSUME NEW A, NEW R, NEW B, NEW a, NEW r, Matched(A, R, B, a, r),
           NEW c, \A h \in A : c[h] = a[h], NEW s, \A i \in R : s[i] = r[i]
    PROVE  Matched(A, R, B, c, s)
BY DEF Matched

\* A waiting call takes the event just raised: nothing is in the queue.
LEMMA MatchedAtOnce ==
    ASSUME NEW A \in SUBSET Nat, NEW R \in SUBSET Nat, IsFiniteSet(A), IsFiniteSet(R),
           NEW c, NEW s, Matched(A, R, <<>>, c, s),
           NEW n \in Nat, \A h \in A : h < n, NEW m \in Nat, \A i \in R : i < m,
           c[n] = s[m]
    PROVE  Matched(A \cup {n}, R \cup {m}, <<>>, c, s)
<1> PICK C : C = A \cup {n}
  OBVIOUS
<1> PICK S : S = R \cup {m}
  OBVIOUS
<1>1. /\ Cardinality(C) = Cardinality(A) + 1
      /\ \A h \in A : Earlier(C, h) = Earlier(A, h)
      /\ Earlier(C, n) = Cardinality(A)
  <2>1. IsFiniteSet(C) /\ Cardinality(C) = Cardinality(A) + 1
    BY AddLast
  <2>2. Earlier(C, n) = Cardinality(A)
    BY AddLast
  <2>3. ASSUME NEW x \in A PROVE Earlier(C, x) = Earlier(A, x)
    BY AddLater
  <2> QED BY <2>1, <2>2, <2>3
<1>2. /\ Cardinality(S) = Cardinality(R) + 1
      /\ \A i \in R : Earlier(S, i) = Earlier(R, i)
      /\ Earlier(S, m) = Cardinality(R)
  <2>1. IsFiniteSet(S) /\ Cardinality(S) = Cardinality(R) + 1
    BY AddLast
  <2>2. Earlier(S, m) = Cardinality(R)
    BY AddLast
  <2>3. ASSUME NEW x \in R PROVE Earlier(S, x) = Earlier(R, x)
    BY AddLater
  <2> QED BY <2>1, <2>2, <2>3
<1>3. /\ Cardinality(A) \in Nat /\ Cardinality(R) \in Nat
      /\ \A h \in A : Earlier(A, h) \in Nat /\ Earlier(A, h) < Cardinality(A)
      /\ \A i \in R : Earlier(R, i) \in Nat /\ Earlier(R, i) < Cardinality(R)
  BY EarlierBound, FS_CardinalityType
<1>4. Cardinality(A) = Cardinality(R)
  BY <1>3 DEF Matched
<1>5. ASSUME NEW h \in C, NEW i \in S, Earlier(C, h) = Earlier(S, i)
      PROVE  c[h] = s[i]
  <2>1. CASE h \in A /\ i \in R
    BY <1>1, <1>2, <1>5, <2>1 DEF Matched
  <2>2. CASE h \in A /\ i = m
    BY <1>1, <1>2, <1>3, <1>4, <1>5, <2>2
  <2>3. CASE h = n /\ i \in R
    BY <1>1, <1>2, <1>3, <1>4, <1>5, <2>3
  <2>4. CASE h = n /\ i = m
    BY <2>4
  <2> QED BY <2>1, <2>2, <2>3, <2>4
<1>6. Cardinality(C) + Len(<<>>) = Cardinality(S)
  BY <1>1, <1>2, <1>3, <1>4
<1> QED BY <1>5, <1>6 DEF Matched

\* Nobody waits: the event just raised goes to the end of the queue.
LEMMA MatchedInQueue ==
    ASSUME NEW A \in SUBSET Nat, NEW R \in SUBSET Nat, IsFiniteSet(A), IsFiniteSet(R),
           NEW B \in Seq(Option), NEW c, NEW s, Matched(A, R, B, c, s),
           NEW m \in Nat, \A i \in R : i < m, NEW v \in Option, s[m] = v
    PROVE  Matched(A, R \cup {m}, Append(B, v), c, s)
<1> PICK S : S = R \cup {m}
  OBVIOUS
<1> PICK D : D = Append(B, v)
  OBVIOUS
<1> PICK len : len = Len(B)
  OBVIOUS
<1>1. /\ Cardinality(S) = Cardinality(R) + 1
      /\ \A i \in R : Earlier(S, i) = Earlier(R, i)
      /\ Earlier(S, m) = Cardinality(R)
  <2>1. IsFiniteSet(S) /\ Cardinality(S) = Cardinality(R) + 1
    BY AddLast
  <2>2. Earlier(S, m) = Cardinality(R)
    BY AddLast
  <2>3. ASSUME NEW x \in R PROVE Earlier(S, x) = Earlier(R, x)
    BY AddLater
  <2> QED BY <2>1, <2>2, <2>3
<1>2. /\ Cardinality(A) \in Nat /\ Cardinality(R) \in Nat
      /\ \A h \in A : Earlier(A, h) \in Nat /\ Earlier(A, h) < Cardinality(A)
      /\ \A i \in R : Earlier(R, i) \in Nat /\ Earlier(R, i) < Cardinality(R)
  BY EarlierBound, FS_CardinalityType
<1>3. /\ len \in Nat /\ D \in Seq(Option) /\ Len(D) = len + 1
      /\ \A k \in 1 .. len : D[k] = B[k]
      /\ D[len + 1] = s[m] /\ DOMAIN B = 1 .. len
  BY AppendProperties, LenProperties
<1>4. DOMAIN D = 1 .. len + 1
  BY <1>3, LenProperties
<1>5. Cardinality(A) + len = Cardinality(R)
  BY DEF Matched
<1>6. ASSUME NEW h \in A, NEW i \in S, Earlier(A, h) = Earlier(S, i)
      PROVE  c[h] = s[i]
  <2>1. CASE i \in R
    BY <1>1, <1>6, <2>1 DEF Matched
  <2>2. CASE i = m
    BY <1>1, <1>2, <1>3, <1>5, <1>6, <2>2
  <2> QED BY <2>1, <2>2
<1>7. ASSUME NEW k \in DOMAIN D, NEW i \in S, Cardinality(A) + k = Earlier(S, i) + 1
      PROVE  D[k] = s[i]
  <2>0. k \in 1 .. len + 1
    BY <1>4
  <2>1. CASE i \in R
    <3>1. Cardinality(A) + k = Earlier(R, i) + 1
      BY <1>1, <1>7, <2>1
    <3>3. Earlier(R, i) < Cardinality(R) /\ Earlier(R, i) \in Nat
      BY <1>2, <2>1
    <3>2. k \in 1 .. len
      BY <1>2, <1>3, <1>5, <2>0, <3>1, <3>3
    <3> QED BY <1>1, <1>3, <1>7, <2>1, <3>2 DEF Matched
  <2>2. CASE i = m
    <3>1. k = len + 1
      BY <1>1, <1>2, <1>3, <1>5, <1>7, <2>0, <2>2
    <3> QED BY <1>3, <2>2, <3>1
  <2> QED BY <2>1, <2>2
<1>8. Cardinality(A) + Len(D) = Cardinality(S)
  BY <1>1, <1>2, <1>3, <1>5
<1> QED BY <1>6, <1>7, <1>8, ZenonT(60) DEF Matched

-----------------------------------------------------------------------------
(* One step.                                                               *)

\* SignalsInOrder, said of sets and functions.
Values == [h \in DOMAIN tasks |-> tasks[h].value]
Inputs == [i \in DOMAIN history |-> history[i].value]
SignalsMatched ==
    pc # "panicked" =>
        \A key \in Keys : Matched(Answered(key), Raised(key), Buffered(key), Values, Inputs)
MInv == SInv /\ AnsweredFirst /\ SignalsMatched

\* The sets are finite sets of numbers, below the next handle and the next
\* event.
LEMMA FiniteSignals ==
    ASSUME IInv, NEW key
    PROVE  /\ Answered(key) \in SUBSET Nat /\ IsFiniteSet(Answered(key))
           /\ Raised(key) \in SUBSET Nat /\ IsFiniteSet(Raised(key))
           /\ \A h \in Answered(key) : h \in Handles /\ h < Len(calls) + 1
           /\ \A i \in Raised(key) : i \in DOMAIN history /\ i < Len(history) + 1
           /\ Len(history) \in Nat /\ DOMAIN history = 1 .. Len(history)
<1>1. DOMAIN calls = 1 .. Len(calls) /\ Len(calls) \in Nat /\ Handles = 1 .. Len(calls)
  BY HandleTypes DEF Handles
<1>2. Len(history) \in Nat /\ DOMAIN history = 1 .. Len(history)
  BY LenProperties DEF IInv, TypeOK, HistoryOK
<1>3. IsFiniteSet(1 .. Len(calls)) /\ IsFiniteSet(1 .. Len(history))
  BY <1>1, <1>2, FS_Interval
<1>4. Answered(key) \in SUBSET (1 .. Len(calls))
  BY <1>1 DEF Answered
<1>5. Raised(key) \in SUBSET (1 .. Len(history))
  BY <1>2 DEF Raised
<1>6. IsFiniteSet(Answered(key)) /\ IsFiniteSet(Raised(key))
  BY <1>3, <1>4, <1>5, FS_Subset
<1> QED BY <1>1, <1>2, <1>4, <1>5, <1>6

\* Where the answered calls of a name, the events raised for it and its buffer
\* are as they were, they match as they did.
LEMMA StillMatched ==
    ASSUME IInv, NEW key, Matched(Answered(key), Raised(key), Buffered(key), Values, Inputs),
           NEW A, A = Answered(key)', A = Answered(key),
           NEW R, R = Raised(key)', R = Raised(key),
           NEW B, B = Buffered(key)', B = Buffered(key),
           \A h \in A : Values'[h] = Values[h], \A i \in R : Inputs'[i] = Inputs[i]
    PROVE  Matched(Answered(key), Raised(key), Buffered(key), Values, Inputs)'
BY DEF Matched

\* What matches now is what will match.
LEMMA MatchedNext ==
    ASSUME NEW key, NEW A, NEW R, NEW B, NEW a, NEW r, Matched(A, R, B, a, r),
           A = Answered(key)', R = Raised(key)', B = Buffered(key)',
           a = Values', r = Inputs'
    PROVE  Matched(Answered(key), Raised(key), Buffered(key), Values, Inputs)'
BY ZenonT(60) DEF Matched, Earlier

\* What every step but three kinds leaves of the signals: no call of a signal
\* gets a message or a sender.
QuietTasks ==
    /\ \A h \in DOMAIN calls : h \in DOMAIN calls' /\ calls'[h] = calls[h]
    /\ \A h \in DOMAIN calls' : h \notin DOMAIN calls =>
          /\ ~HasMessage(tasks'[h])
          /\ \A g \in DOMAIN calls : g < h
    /\ \A h \in DOMAIN calls : calls[h].name \in Keys =>
          /\ HasMessage(tasks'[h]) <=> HasMessage(tasks[h])
          /\ HasMessage(tasks[h]) => tasks'[h].value = tasks[h].value
          /\ tasks'[h].tx = "held" => tasks[h].tx = "held"

LEMMA QuietStep ==
    ASSUME MInv, QuietTasks, DOMAIN calls' = DOMAIN tasks', pc # "panicked",
           received_events' = received_events,
           \/ history' = history
           \/ \E e : IsEvent(e) /\ e.type # "EventRaised" /\ history' = Append(history, e)
    PROVE  AnsweredFirst' /\ SignalsMatched'
<1>0. /\ IInv /\ HistoryOK /\ DOMAIN tasks = Handles /\ DOMAIN calls = Handles
  BY HandleTypes DEF MInv, SInv, IInv, TypeOK
<1>1. ASSUME NEW key \in Keys
      PROVE  Answered(key)' = Answered(key)
  BY <1>0, <1>1 DEF QuietTasks, Answered
<1>2. ASSUME NEW key
      PROVE  Raised(key)' = Raised(key)
  <2>1. CASE history' = history
    BY <2>1 DEF Raised
  <2>2. ASSUME NEW e, IsEvent(e), e.type # "EventRaised", history' = Append(history, e)
        PROVE  Raised(key)' = Raised(key)
    <3>1. \A i \in DOMAIN history : i \in DOMAIN history' /\ history'[i] = history[i]
      BY <1>0, <2>2, Recorded
    <3>2. \A i \in DOMAIN history' : i \in DOMAIN history \/ history'[i] = e
      BY <1>0, <2>2, Recorded
    <3> QED BY <2>2, <3>1, <3>2 DEF Raised, RaisedFor
  <2> QED BY <2>1, <2>2
<1>3. \A i \in DOMAIN history : i \in DOMAIN history' /\ history'[i] = history[i]
  <2>1. CASE history' = history
    BY <2>1
  <2>2. ASSUME NEW e, IsEvent(e), history' = Append(history, e)
        PROVE  \A i \in DOMAIN history : i \in DOMAIN history' /\ history'[i] = history[i]
    BY <1>0, <2>2, Recorded
  <2> QED BY <2>1, <2>2
<1>4. ASSUME NEW key \in Keys
      PROVE  Matched(Answered(key), Raised(key), Buffered(key), Values, Inputs)'
  <2> PICK A : A = Answered(key)
    OBVIOUS
  <2> PICK R : R = Raised(key)
    OBVIOUS
  <2> PICK B : B = Buffered(key)
    OBVIOUS
  <2>1. A = Answered(key)' /\ R = Raised(key)' /\ B = Buffered(key)'
    BY <1>1, <1>2 DEF Buffered
  <2>2. \A h \in A : Values'[h] = Values[h]
    <3> SUFFICES ASSUME NEW h \in A PROVE Values'[h] = Values[h]
      OBVIOUS
    <3>1. h \in DOMAIN calls /\ calls[h].name = key /\ HasMessage(tasks[h])
      BY DEF Answered
    <3>2. tasks'[h].value = tasks[h].value /\ h \in DOMAIN calls'
      BY <3>1 DEF QuietTasks
    <3> QED BY <1>0, <3>1, <3>2 DEF Values
  <2>3. \A i \in R : Inputs'[i] = Inputs[i]
    BY <1>3 DEF Inputs, Raised
  <2>4. Matched(Answered(key), Raised(key), Buffered(key), Values, Inputs)
    BY DEF MInv, SignalsMatched
  <2> QED BY <1>0, <2>1, <2>2, <2>3, <2>4, StillMatched
<1>5. AnsweredFirst'
  <2> SUFFICES ASSUME NEW key \in Keys, NEW g \in Answered(key)', NEW h \in DOMAIN calls',
                      calls'[h].name = key, tasks'[h].tx = "held"
               PROVE  g < h
    BY DEF AnsweredFirst
  <2>1. g \in Answered(key) /\ g \in DOMAIN calls
    BY <1>1 DEF Answered
  <2>2. CASE h \in DOMAIN calls
    <3>1. calls[h].name = key /\ tasks[h].tx = "held"
      BY <2>2 DEF QuietTasks
    <3> QED BY <2>1, <2>2, <3>1 DEF MInv, AnsweredFirst
  <2>3. CASE h \notin DOMAIN calls
    BY <2>1, <2>3 DEF QuietTasks
  <2> QED BY <2>2, <2>3
<1> QED BY <1>4, <1>5 DEF SignalsMatched

\* What makes no call leaves every call alone.
LEMMA QuietUpdate ==
    ASSUME IInv, SameTasks, calls' = calls,
           \A h \in Handles : calls[h].name \in Keys =>
              /\ tasks'[h].tx \in {tasks[h].tx, "dropped"} /\ tasks'[h].value = tasks[h].value
              /\ tasks'[h].tx = "sent" <=> tasks[h].tx = "sent"
    PROVE  QuietTasks /\ DOMAIN calls' = DOMAIN tasks'
<1>1. /\ DOMAIN calls = Handles /\ DOMAIN tasks = Handles /\ Handles = 1 .. Len(calls)
      /\ Len(tasks) = Len(calls)
  BY HandleTypes DEF Handles, IInv, TypeOK, CallsOK
<1>2. DOMAIN tasks' = Handles
  BY <1>1, LenProperties DEF SameTasks
<1>3. \A h \in Handles : tasks'[h].completed = tasks[h].completed
  BY DEF SameTasks
<1> QED BY <1>1, <1>2, <1>3 DEF QuietTasks, HasMessage

\* A call that is not completed on the spot has no message yet.
LEMMA QuietCall ==
    ASSUME IInv, NEW call, NEW task, NewCall(call, task), ~task.completed, task.tx # "sent"
    PROVE  QuietTasks /\ DOMAIN calls' = DOMAIN tasks'
<1> PICK new : new = Len(calls) + 1
  OBVIOUS
<1>1. DOMAIN calls = Handles /\ Handles = 1 .. Len(calls) /\ Len(calls) \in Nat
  BY HandleTypes DEF Handles
<1>2. /\ calls' \in Seq(Call) /\ tasks' \in Seq(Task)
      /\ Len(calls') = new /\ Len(tasks') = new
      /\ \A h \in Handles : calls'[h] = calls[h] /\ tasks'[h] = tasks[h]
      /\ calls'[new] = call /\ tasks'[new] = task
  BY NewCallOK DEF IInv, TypeOK
<1>3. DOMAIN calls' = 1 .. new /\ DOMAIN tasks' = 1 .. new
  BY <1>2, LenProperties
<1>4. \A h \in DOMAIN calls' : h \in Handles \/ h = new
  BY <1>1, <1>3
<1> QED BY <1>1, <1>2, <1>3, <1>4 DEF QuietTasks, HasMessage

\* No call of a task has the name of a signal.
LEMMA NamesOfSignals ==
    ASSUME IInv, NEW h \in Handles
    PROVE  calls[h].name \in Keys <=> calls[h].kind = "signal"
BY HandleTypes, KeysAssumption DEF Call, TaskKinds

\* The steps that concern no signal, and a call of a signal that has to wait.
LEMMA OtherSteps ==
    ASSUME MInv,
           \/ Execute /\ ~await_signal_event
           \/ get_actions
           \/ \E e : IsEvent(e) /\ process_event(e) /\ ~EventRaised(e)
    PROVE  AnsweredFirst' /\ SignalsMatched'
<1>0. /\ SInv /\ IInv /\ CallsOK /\ DOMAIN tasks = Handles /\ DOMAIN calls = Handles
      /\ \A h \in Handles : tasks[h] \in Task
      /\ \A id \in DOMAIN pending_tasks : pending_tasks[id] \in Handles
  BY HandleTypes DEF MInv, SInv, IInv, TypeOK
<1>1. ASSUME SameTasks, calls' = calls, pc # "panicked",
             \A h \in Handles : calls[h].name \in Keys =>
                /\ tasks'[h].tx \in {tasks[h].tx, "dropped"} /\ tasks'[h].value = tasks[h].value
                /\ tasks'[h].tx = "sent" <=> tasks[h].tx = "sent",
             received_events' = received_events,
             \/ history' = history
             \/ \E e : IsEvent(e) /\ e.type # "EventRaised" /\ history' = Append(history, e)
      PROVE  AnsweredFirst' /\ SignalsMatched'
  BY <1>0, <1>1, QuietUpdate, QuietStep
<1>2. CASE create_timer \/ call_activity \/ call_sub_orchestrator
  <2>1. PICK kind \in TaskKinds : Schedule(kind)
    BY <1>2 DEF create_timer, call_activity, call_sub_orchestrator, TaskKinds
  <2>2. PICK call : NewCall(call, NewTask)
    BY <1>0, <2>1, ScheduleCalls
  <2>3. ~NewTask.completed /\ NewTask.tx # "sent"
    BY DEF NewTask
  <2>4. QuietTasks /\ DOMAIN calls' = DOMAIN tasks'
    BY <1>0, <2>2, <2>3, QuietCall
  <2>5. received_events' = received_events /\ history' = history /\ pc # "panicked"
    BY <2>1 DEF Schedule, ctx, Uncalled, InStep, Polling
  <2> QED BY <2>4, <2>5, QuietStep
<1>3. CASE TaskReady \/ TaskPending \/ TaskForsaken \/ TaskIgnored \/ TaskPanics
           \/ PolledAgain \/ FinishStep \/ Block
           \/ Complete \/ ReturnIgnored
  <2>1. KeepsSenders /\ \A h \in Handles : tasks'[h].value = tasks[h].value
    BY <1>0, <1>3, PolledSenders
  <2>2. /\ received_events' = received_events /\ history' = history /\ pc # "panicked"
    BY <1>3 DEF TaskReady, TaskPending, TaskForsaken, TaskIgnored, TaskPanics, PolledAgain,
                FinishStep, Block, Complete, ReturnIgnored, ctx, queues, Awaited, AtTask, InStep,
                AtStepEnd, AtReturn, Polling
  <2> QED BY <1>1, <2>1, <2>2 DEF KeepsSenders
<1>4. CASE ReturnAtOnce
  <2>1. tasks' = [h \in DOMAIN tasks |-> DropSender(tasks[h])]
    BY <1>4 DEF ReturnAtOnce
  <2>2. \A h \in Handles :
              /\ tasks'[h].tx \in {tasks[h].tx, "dropped"} /\ tasks'[h].value = tasks[h].value
              /\ tasks'[h].tx = "sent" <=> tasks[h].tx = "sent"
    BY <1>0, <2>1 DEF DropSender, Task
  <2>3. SameTasks /\ calls' = calls
    BY <1>0, <1>4, PollTasks
  <2>4. received_events' = received_events /\ history' = history /\ pc # "panicked"
    BY <1>4 DEF ReturnAtOnce, ctx
  <2> QED BY <1>1, <2>2, <2>3, <2>4
<1>5. CASE DrainTask \/ DrainWaiter \/ NextEvent \/ get_actions
  <2>1. UNCHANGED <<calls, tasks, received_events, history>> /\ pc # "panicked"
    BY <1>5 DEF DrainTask, DrainWaiter, NextEvent, get_actions, called, ctx, queues
  <2>2. SameTasks
    BY <1>0, <2>1, NoTask
  <2> QED BY <1>1, <2>1, <2>2
<1>6. ASSUME NEW e, IsEvent(e), process_event(e), ~EventRaised(e)
      PROVE  AnsweredFirst' /\ SignalsMatched'
  <2>1. /\ SameTasks /\ calls' = calls /\ pc # "panicked"
        /\ history' = Append(history, e)
    BY <1>0, <1>6, EventTasks, EventTaken
  <2>2. e.type # "EventRaised" /\ received_events' = received_events
    BY <1>6 DEF process_event, ExecutionStarted, ExecutionCompleted,
                ExecutionTerminated, IgnoredEvent, Ignored, TaskScheduled, TimerCreated,
                SubOrchestrationInstanceCreated, Acknowledge, TaskCompleted, TimerFired,
                TaskFailed, SubOrchestrationInstanceCompleted, Unblock, UnblockAndPoll,
                SubOrchestrationInstanceFailed, ctx, queues
  <2>3. \A h \in Handles : calls[h].name \in Keys => tasks'[h] = tasks[h]
    <3>1. CASE tasks' = tasks
      BY <3>1
    <3>2. CASE Unblock(e) /\ e.id \in DOMAIN pending_tasks
      <4> PICK w : w = pending_tasks[e.id]
        OBVIOUS
      <4>1. calls[w].kind \in TaskKinds
        BY <1>0, <3>2 DEF SInv, SenderOwned, TasksOfCalls
      <4>2. \E t : tasks' = [tasks EXCEPT ![w] = t]
        BY <3>2 DEF Unblock
      <4>3. \A h \in Handles : h # w => tasks'[h] = tasks[h]
        BY <1>0, <4>2
      <4> QED BY <1>0, <4>1, <4>3, NamesOfSignals DEF TaskKinds
    <3>3. CASE ~(Unblock(e) /\ e.id \in DOMAIN pending_tasks)
      <4>1. tasks' = tasks
        BY <1>6, <3>3 DEF process_event, ExecutionStarted, ExecutionCompleted,
                  ExecutionTerminated, IgnoredEvent, TaskScheduled, TimerCreated,
                  SubOrchestrationInstanceCreated, Acknowledge, TaskCompleted, TimerFired,
                  TaskFailed, SubOrchestrationInstanceCompleted, Unblock, UnblockAndPoll,
                  SubOrchestrationInstanceFailed, called
      <4> QED BY <4>1
    <3> QED BY <3>2, <3>3
  <2> QED BY <1>1, <1>6, <2>1, <2>2, <2>3
<1> QED BY <1>2, <1>3, <1>4, <1>5, <1>6 DEF Execute, Poll

\* A fact of arithmetic.
LEMMA OnlyOne == ASSUME NEW n \in Nat, n # 0, ~(n > 1) PROVE n = 1
OBVIOUS

\* A call of a signal: it waits, or takes the head of the buffer.
LEMMA AwaitStep ==
    ASSUME MInv, await_signal_event
    PROVE  AnsweredFirst' /\ SignalsMatched'
<1>0. /\ SInv /\ IInv /\ CallsOK /\ DOMAIN tasks = Handles /\ DOMAIN calls = Handles
      /\ Handles = 1 .. Len(calls) /\ Len(calls) \in Nat
      /\ \A h \in Handles : tasks[h] \in Task
  BY HandleTypes DEF MInv, SInv, IInv, TypeOK, Handles
<1>1. history' = history /\ pc # "panicked"
  BY DEF await_signal_event, Uncalled, InStep, Polling
<1> PICK key : key = to_lowercase(ThisOp.name)
  OBVIOUS
<1> PICK call : call = [kind |-> "signal", id |-> 0, name |-> key]
  OBVIOUS
<1>2. CASE UNCHANGED <<calls, tasks>> /\ pc' = "panicked"
  BY <1>2 DEF MInv, AnsweredFirst, Answered, SignalsMatched
<1>3. CASE key \notin DOMAIN received_events
  <2>1. /\ received_events' = received_events /\ drained' = drained
        /\ sequence_number' = sequence_number
        /\ calls' = Append(calls, call) /\ tasks' = Append(tasks, NewTask)
    BY <1>3 DEF await_signal_event
  <2>2. call \in Call /\ NewTask \in Task /\ ~NewTask.completed /\ NewTask.tx # "sent"
    BY <1>0, SignalKey DEF Call, NewTask, Task, Option
  <2>3. NewCall(call, NewTask)
    BY <2>1, <2>2 DEF NewCall
  <2>4. QuietTasks /\ DOMAIN calls' = DOMAIN tasks'
    BY <1>0, <2>2, <2>3, QuietCall
  <2> QED BY <1>1, <2>1, <2>4, QuietStep
<1>4. CASE /\ key \in DOMAIN received_events /\ pc' # "panicked"
  <2> PICK v : v = Head(received_events[key])
    OBVIOUS
  <2> PICK new : new = Len(calls) + 1
    OBVIOUS
  <2>1. /\ received_events' = PopFront(received_events, key)
        /\ drained' = drained /\ sequence_number' = sequence_number /\ pc' = pc
        /\ calls' = Append(calls, call) /\ tasks' = Append(tasks, CompletedTask(v))
    BY <1>4 DEF await_signal_event, Panic, Goto
  <2>2. /\ received_events[key] \in Seq(Option) /\ received_events[key] # <<>>
        /\ v \in Option
    <3>1. received_events[key] \in Seq(Option) /\ received_events[key] # <<>>
      BY <1>0, <1>4 DEF IInv, TypeOK, MapsOK, IsMap, NoEmptyQueue, NonEmpty
    <3> QED BY <3>1, HeadTailProperties
  <2>3. key \in Keys /\ call \in Call /\ CompletedTask(v) \in Task
    BY <1>0, <2>2, SignalKey DEF Call, CompletedTask, Task
  <2>4. NewCall(call, CompletedTask(v))
    BY <2>1, <2>3 DEF NewCall
  <2>5. /\ DOMAIN tasks' = Handles \cup {new} /\ DOMAIN calls' = Handles \cup {new}
        /\ \A h \in Handles : calls'[h] = calls[h] /\ tasks'[h] = tasks[h] /\ h < new
        /\ calls'[new] = call /\ tasks'[new] = CompletedTask(v)
    <3>1. /\ tasks' \in Seq(Task) /\ Len(tasks') = new
          /\ calls' \in Seq(Call) /\ Len(calls') = new
          /\ \A h \in Handles : calls'[h] = calls[h] /\ tasks'[h] = tasks[h]
          /\ calls'[new] = call /\ tasks'[new] = CompletedTask(v)
      BY <1>0, <2>4, NewCallOK
    <3>2. DOMAIN tasks' = 1 .. new /\ DOMAIN calls' = 1 .. new
      BY <3>1, LenProperties
    <3> QED BY <1>0, <3>1, <3>2
  <2>6. /\ HasMessage(CompletedTask(v)) /\ CompletedTask(v).value = v
        /\ CompletedTask(v).tx # "held"
    BY DEF HasMessage, CompletedTask
  <2>7. Answered(key)' = Answered(key) \cup {new}
    BY <1>0, <2>5, <2>6 DEF Answered
  <2>8. \A k : k # key => Answered(k)' = Answered(k)
    BY <1>0, <2>5 DEF Answered
  <2>9. \A k : Raised(k)' = Raised(k)
    BY <1>1 DEF Raised
  <2>10. \A h \in Handles : Values'[h] = Values[h]
    BY <1>0, <2>5 DEF Values
  <2>11. Inputs' = Inputs
    BY <1>1 DEF Inputs
  \* No call of the name waits: the value would have gone to it.
  <2>12. \A h \in Handles : calls[h].name = key => tasks[h].tx # "held"
    <3> SUFFICES ASSUME NEW h \in Handles, calls[h].name = key, tasks[h].tx = "held"
                 PROVE  FALSE
      OBVIOUS
    <3>1. InFlight(h) \/ AwaitsResult(h) \/ AwaitsSignal(h)
      BY <1>0 DEF SInv, SenderOwned, HeldIsOwned
    <3>2. ~InFlight(h) /\ key \notin DOMAIN pending_events
      BY <1>0, <1>4 DEF IInv, EventOrWaiter
    <3>3. ~AwaitsSignal(h)
      BY <1>0, <3>2 DEF SInv, SenderOwned, WaitersInOrder, AwaitsSignal
    <3>4. calls[h].kind = "signal"
      BY <1>0, <2>3, NamesOfSignals
    <3>5. ~AwaitsResult(h)
      BY <1>0, <3>4 DEF SInv, SenderOwned, TasksOfCalls, AwaitsResult, TaskKinds
    <3> QED BY <3>1, <3>2, <3>3, <3>5
  <2>13. AnsweredFirst'
    <3> SUFFICES ASSUME NEW k \in Keys, NEW g \in Answered(k)', NEW h \in DOMAIN calls',
                        calls'[h].name = k, tasks'[h].tx = "held"
                 PROVE  g < h
      BY DEF AnsweredFirst
    <3>1. h \in Handles /\ calls[h].name = k /\ tasks[h].tx = "held" /\ h \in DOMAIN calls
      BY <1>0, <2>5, <2>6
    <3>2. k # key
      BY <2>12, <3>1
    <3>3. g \in Answered(k)
      BY <2>8, <3>2
    <3> QED BY <3>1, <3>3 DEF MInv, AnsweredFirst
  <2>14. ASSUME NEW k \in Keys, k # key
         PROVE  Matched(Answered(k), Raised(k), Buffered(k), Values, Inputs)'
    <3> PICK A : A = Answered(k)
      OBVIOUS
    <3> PICK R : R = Raised(k)
      OBVIOUS
    <3> PICK B : B = Buffered(k)
      OBVIOUS
    <3>1. A = Answered(k)' /\ R = Raised(k)'
      BY <2>8, <2>9, <2>14
    <3>2. B = Buffered(k)'
      BY <1>0, <1>4, <2>1, <2>14 DEF Buffered, PopFront, Put, Remove
    <3>3. \A h \in A : Values'[h] = Values[h]
      BY <1>0, <2>10 DEF Answered
    <3>4. Matched(Answered(k), Raised(k), Buffered(k), Values, Inputs)
      BY <1>1 DEF MInv, SignalsMatched
    <3> QED BY <1>0, <2>11, <3>1, <3>2, <3>3, <3>4, StillMatched
  <2>15. Matched(Answered(key), Raised(key), Buffered(key), Values, Inputs)'
    <3> PICK A : A = Answered(key)
      OBVIOUS
    <3> PICK R : R = Raised(key)
      OBVIOUS
    <3> PICK B : B = received_events[key]
      OBVIOUS
    <3> PICK a : a = Values
      OBVIOUS
    <3> PICK r : r = Inputs
      OBVIOUS
    <3> PICK c : c = Values'
      OBVIOUS
    <3>1. Matched(A, R, B, a, r)
      BY <1>1, <1>4, <2>3 DEF MInv, SignalsMatched, Buffered
    <3>2. /\ A \in SUBSET Nat /\ IsFiniteSet(A) /\ R \in SUBSET Nat /\ IsFiniteSet(R)
          /\ \A h \in A : h \in Handles /\ h < new
      BY <1>0, FiniteSignals
    <3>3. \A h \in A : c[h] = a[h]
      BY <2>10, <3>2
    <3>4. c[new] = Head(B)
      BY <2>5, <2>6 DEF Values
    <3>5. new \in Nat /\ B \in Seq(Option) /\ B # <<>>
      BY <1>0, <2>2
    <3>6. Matched(A \cup {new}, R, Tail(B), c, r)
      BY <3>1, <3>2, <3>3, <3>4, <3>5, MatchedFromQueue, ZenonT(60)
    <3>7. A \cup {new} = Answered(key)' /\ R = Raised(key)' /\ r = Inputs'
      BY <2>7, <2>9, <2>11
    <3>8. Tail(B) = Buffered(key)'
      <4> PICK len \in Nat : len = Len(B)
        BY <3>5, LenProperties
      <4>0. Tail(B) \in Seq(Option) /\ Len(Tail(B)) = len - 1 /\ len # 0
        BY <3>5, HeadTailProperties, EmptySeq
      <4>1. CASE len > 1
        BY <1>4, <2>1, <4>1 DEF PopFront, Put, Buffered
      <4>2. CASE ~(len > 1)
        <5>1. Buffered(key)' = <<>>
          BY <1>4, <2>1, <4>2 DEF PopFront, Remove, Buffered
        <5>2. len = 1
          BY <4>0, <4>2, OnlyOne
        <5>3. Len(Tail(B)) = 0
          BY <4>0, <5>2
        <5> QED BY <4>0, <5>1, <5>3, EmptySeq
      <4> QED BY <4>1, <4>2
    <3> PICK C : C = A \cup {new}
      OBVIOUS
    <3> PICK D : D = Tail(B)
      OBVIOUS
    <3>9. Matched(C, R, D, c, r)
      BY <3>6
    <3>10. /\ C = Answered(key)' /\ R = Raised(key)' /\ D = Buffered(key)'
           /\ c = Values' /\ r = Inputs'
      BY <3>7, <3>8
    <3> QED BY <3>9, <3>10, MatchedNext
  <2> QED BY <2>13, <2>14, <2>15 DEF SignalsMatched
<1>5. key \in DOMAIN received_events =>
         (UNCHANGED <<calls, tasks>> /\ pc' = "panicked") \/ pc' = pc
  BY DEF await_signal_event, Panic, Goto
<1> QED BY <1>1, <1>2, <1>3, <1>4, <1>5

\* The next event gets the next number.
LEMMA EventAppended ==
    ASSUME HistoryOK, NEW e, NEW h, h = Append(history, e)
    PROVE  /\ Len(history) \in Nat
           /\ DOMAIN h = DOMAIN history \cup {Len(history) + 1}
           /\ \A i \in DOMAIN history : h[i] = history[i] /\ i < Len(history) + 1
           /\ h[Len(history) + 1] = e
<1> DEFINE S == {history[i] : i \in DOMAIN history} \cup {e}
<1>1. history \in Seq({history[i] : i \in DOMAIN history})
  BY DEF HistoryOK
<1>2. history \in Seq(S) /\ e \in S
  <2>1. {history[i] : i \in DOMAIN history} \subseteq S
    OBVIOUS
  <2> QED BY <1>1, <2>1
<1> HIDE DEF S
<1>3. /\ h \in Seq(S) /\ Len(h) = Len(history) + 1 /\ h[Len(history) + 1] = e
      /\ \A i \in 1 .. Len(history) : h[i] = history[i]
  BY <1>2, AppendProperties
<1>4. /\ Len(history) \in Nat /\ DOMAIN history = 1 .. Len(history)
      /\ DOMAIN h = 1 .. Len(history) + 1
  BY <1>2, <1>3, LenProperties
<1> QED BY <1>3, <1>4

\* A signal raised: its first waiter gets it, or it goes to the end of the
\* buffer.
LEMMA RaisedStep ==
    ASSUME MInv, NEW e, IsEvent(e), EventRaised(e)
    PROVE  AnsweredFirst' /\ SignalsMatched'
<1> PICK k : k = to_lowercase(e.name)
  OBVIOUS
<1> PICK m : m = Len(history) + 1
  OBVIOUS
<1>0. /\ SInv /\ IInv /\ CallsOK /\ HistoryOK /\ DOMAIN tasks = Handles /\ DOMAIN calls = Handles
      /\ Handles = 1 .. Len(calls) /\ Len(calls) \in Nat
      /\ \A h \in Handles : tasks[h] \in Task
  BY HandleTypes DEF MInv, SInv, IInv, TypeOK, Handles
<1>1. /\ calls' = calls /\ pc = "event" /\ drained = Len(calls)
      /\ history' = Append(history, e)
      /\ \A h \in Handles : tasks'[h].completed = tasks[h].completed
      /\ DOMAIN tasks' = Handles
  <2>1. SameTasks
    BY <1>0, EventTasks DEF process_event
  <2>2. calls' = calls /\ pc = "event" /\ history' = Append(history, e)
    BY DEF EventRaised, Process
  <2>3. drained = Len(calls)
    BY <1>0, <2>2 DEF IInv, Quiescent
  <2>4. DOMAIN tasks' = Handles
    BY <1>0, <2>1, LenProperties DEF SameTasks, CallsOK
  <2> QED BY <2>1, <2>2, <2>3, <2>4 DEF SameTasks
<1>2. /\ m \in Nat /\ DOMAIN history' = DOMAIN history \cup {m}
      /\ \A i \in DOMAIN history : history'[i] = history[i] /\ i < m
      /\ history'[m] = e
  BY <1>0, <1>1, EventAppended
<1>3. Raised(k)' = Raised(k) \cup {m}
  <2>1. RaisedFor(e, k)
    BY DEF EventRaised, RaisedFor
  <2> QED BY <1>2, <2>1 DEF Raised, RaisedFor
<1>4. ASSUME NEW x, x # k PROVE Raised(x)' = Raised(x)
  <2>1. ~RaisedFor(e, x)
    BY <1>4 DEF RaisedFor
  <2> QED BY <1>2, <2>1 DEF Raised, RaisedFor
<1>5. Inputs'[m] = e.value /\ \A i \in DOMAIN history : Inputs'[i] = Inputs[i]
  BY <1>2 DEF Inputs
<1>6. k \in Keys /\ e.value \in Option
  BY DEF EventRaised, IsEvent, Keys, to_lowercase
<1>7. ASSUME NEW x \in Keys
      PROVE  Matched(Answered(x), Raised(x), Buffered(x), Values, Inputs)
  BY <1>1 DEF MInv, SignalsMatched
<1>8. ASSUME NEW x \in Keys, x # k, Answered(x)' = Answered(x), Buffered(x)' = Buffered(x),
             \A h \in Answered(x) : tasks'[h] = tasks[h]
      PROVE  Matched(Answered(x), Raised(x), Buffered(x), Values, Inputs)'
  <2> PICK A : A = Answered(x)
    OBVIOUS
  <2> PICK R : R = Raised(x)
    OBVIOUS
  <2> PICK B : B = Buffered(x)
    OBVIOUS
  <2>1. A = Answered(x)' /\ R = Raised(x)' /\ B = Buffered(x)'
    BY <1>4, <1>8
  <2>2. \A h \in A : Values'[h] = Values[h]
    BY <1>0, <1>1, <1>8 DEF Values, Answered
  <2>3. \A i \in R : Inputs'[i] = Inputs[i]
    BY <1>5 DEF Raised
  <2> QED BY <1>0, <1>7, <2>1, <2>2, <2>3, StillMatched
<1> PICK A : A = Answered(k)
  OBVIOUS
<1> PICK R : R = Raised(k)
  OBVIOUS
<1> PICK a : a = Values
  OBVIOUS
<1> PICK r : r = Inputs
  OBVIOUS
<1> PICK c : c = Values'
  OBVIOUS
<1> PICK s : s = Inputs'
  OBVIOUS
<1>9. /\ A \in SUBSET Nat /\ IsFiniteSet(A) /\ R \in SUBSET Nat /\ IsFiniteSet(R)
      /\ \A h \in A : h \in Handles
      /\ \A i \in R : i \in DOMAIN history /\ i < m
  BY <1>0, FiniteSignals
<1>10. s[m] = e.value /\ \A i \in R : s[i] = r[i]
  BY <1>5, <1>9
<1>11. CASE k \notin DOMAIN pending_events
  <2> PICK B : B = Buffered(k)
    OBVIOUS
  <2>1. UNCHANGED tasks /\ received_events' = PushBack(received_events, k, e.value)
    BY <1>11 DEF EventRaised
  <2>2. \A x : Answered(x)' = Answered(x)
    BY <1>1, <2>1 DEF Answered
  <2>3. \A x : x # k => Buffered(x)' = Buffered(x)
    BY <2>1 DEF Buffered, PushBack, Put
  <2>4. B \in Seq(Option) /\ Buffered(k)' = Append(B, e.value)
    <3>1. CASE k \in DOMAIN received_events
      <4>1. B = received_events[k] /\ B \in Seq(Option)
        BY <1>0, <3>1 DEF Buffered, IInv, TypeOK, MapsOK, IsMap
      <4> QED BY <2>1, <3>1, <4>1 DEF Buffered, PushBack, Put
    <3>2. CASE k \notin DOMAIN received_events
      <4>1. B = <<>>
        BY <3>2 DEF Buffered
      <4>2. Append(B, e.value) = <<e.value>>
        BY <1>6, <4>1
      <4>3. Buffered(k)' = <<e.value>>
        BY <2>1, <3>2 DEF Buffered, PushBack, Put
      <4> QED BY <4>1, <4>2, <4>3
    <3> QED BY <3>1, <3>2
  <2>5. ASSUME NEW x \in Keys, x # k
        PROVE  Matched(Answered(x), Raised(x), Buffered(x), Values, Inputs)'
    BY <1>8, <2>1, <2>2, <2>3, <2>5
  <2>6. Matched(Answered(k), Raised(k), Buffered(k), Values, Inputs)'
    <3>1. \A h \in A : c[h] = a[h]
      BY <2>1 DEF Values
    <3>2. Matched(A, R \cup {m}, Append(B, e.value), c, s)
      <4>1. Matched(A, R, B, a, r)
        BY <1>6, <1>7
      <4>2. m \in Nat /\ (\A i \in R : i < m) /\ B \in Seq(Option) /\ e.value \in Option
        BY <1>2, <1>6, <1>9, <2>4
      <4>3. Matched(A, R, B, c, s)
        BY <1>10, <3>1, <4>1, MatchedSame
      <4> QED BY <1>9, <1>10, <4>2, <4>3, MatchedInQueue
    <3> PICK S : S = R \cup {m}
      OBVIOUS
    <3> PICK D : D = Append(B, e.value)
      OBVIOUS
    <3>3. /\ A = Answered(k)' /\ S = Raised(k)' /\ D = Buffered(k)'
          /\ c = Values' /\ s = Inputs'
      BY <1>3, <2>2, <2>4
    <3> QED BY <3>2, <3>3, MatchedNext
  <2>7. AnsweredFirst'
    BY <1>1, <2>1, <2>2 DEF MInv, AnsweredFirst
  <2> QED BY <2>5, <2>6, <2>7 DEF SignalsMatched
<1>12. CASE k \in DOMAIN pending_events
  <2> PICK h : h = pending_events[k][1]
    OBVIOUS
  <2> PICK len : len = Len(pending_events[k])
    OBVIOUS
  <2>1. len \in Nat /\ len # 0 /\ DOMAIN pending_events[k] = 1 .. len /\ 1 \in 1 .. len
    <3>1. pending_events[k] \in Seq(Handles) /\ pending_events[k] # <<>>
      BY <1>0, <1>12, HandleTypes
    <3>2. len \in Nat /\ len # 0 /\ DOMAIN pending_events[k] = 1 .. len
      BY <3>1, LenProperties, EmptySeq
    <3> QED BY <3>2
  <2>2. /\ h \in Handles /\ calls[h].kind = "signal" /\ calls[h].name = k
        /\ tasks[h].tx = "held"
    <3>1. h \in Handles
      BY <1>0, <1>12, <2>1, HandleTypes
    <3>2. calls[h].kind = "signal" /\ calls[h].name = k /\ AwaitsSignal(h)
      BY <1>0, <1>12, <2>1 DEF SInv, SenderOwned, WaitersInOrder, AwaitsSignal
    <3> QED BY <1>0, <3>1, <3>2 DEF SInv, SenderOwned, HeldIsOwned
  <2>3. /\ tasks' = [tasks EXCEPT ![h] = Send(tasks[h], e.value)]
        /\ received_events' = received_events
        /\ ~Accepts(tasks[h]) => pc' = "panicked"
    <3>1. Head(pending_events[k]) = h
      OBVIOUS
    <3> QED BY <1>12, <3>1 DEF EventRaised, Panic
  <2>4. /\ \A g \in Handles : g # h => tasks'[g] = tasks[g]
        /\ tasks'[h].tx # "held"
        /\ ~Accepts(tasks[h]) => tasks'[h].tx = "dropped"
        /\ Accepts(tasks[h]) => tasks'[h].tx = "sent" /\ tasks'[h].value = e.value
    BY <1>0, <2>2, <2>3 DEF Send, Task
  \* Who else waits for this name called later.
  <2>5. ASSUME NEW g \in Handles, calls[g].name = k, tasks[g].tx = "held", g # h
        PROVE  h < g
    <3>1. InFlight(g) \/ AwaitsResult(g) \/ AwaitsSignal(g)
      BY <1>0, <2>5 DEF SInv, SenderOwned, HeldIsOwned
    <3>2. ~InFlight(g)
      BY <1>0, <1>1 DEF InFlight, InChannel
    <3>3. ~AwaitsResult(g)
      BY <1>0, <1>6, <2>5, NamesOfSignals DEF SInv, SenderOwned, TasksOfCalls, AwaitsResult,
         TaskKinds
    <3>4. PICK x \in DOMAIN pending_events : \E i \in DOMAIN pending_events[x] :
              pending_events[x][i] = g
      BY <3>1, <3>2, <3>3 DEF AwaitsSignal
    <3>5. PICK i \in DOMAIN pending_events[x] : pending_events[x][i] = g
      BY <3>4
    <3>6. x = k
      BY <1>0, <2>5, <3>5 DEF SInv, SenderOwned, WaitersInOrder
    <3>7. i \in 1 .. len /\ i # 1
      BY <2>1, <2>5, <3>5, <3>6
    <3>8. i \in 2 .. len
      BY <2>1, <3>7, Larger
    <3>9. 1 \in 1 .. i - 1
      BY <2>1, <3>8
    <3> QED BY <1>0, <1>12, <3>5, <3>6, <3>9 DEF SInv, SenderOwned, WaitersInOrder
  <2>6. \A g \in A : g < h
    BY <1>0, <1>6, <2>2 DEF MInv, AnsweredFirst
  <2>7. ASSUME NEW x, x # k PROVE Answered(x)' = Answered(x)
    <3>1. \A g \in Handles : calls[g].name = x => tasks'[g] = tasks[g]
      BY <2>2, <2>4, <2>7
    <3> QED BY <1>0, <1>1, <3>1 DEF Answered
  <2>8. \A g \in Answered(k)' : g \in A \/ (Accepts(tasks[h]) /\ g = h)
    <3> SUFFICES ASSUME NEW g \in Answered(k)'
                 PROVE  g \in A \/ (Accepts(tasks[h]) /\ g = h)
      OBVIOUS
    <3>1. g \in Handles /\ calls[g].name = k /\ HasMessage(tasks'[g])
      BY <1>0, <1>1 DEF Answered
    <3>2. CASE g # h
      <4>1. HasMessage(tasks[g])
        BY <2>4, <3>1, <3>2
      <4> QED BY <1>0, <3>1, <4>1 DEF Answered
    <3>3. CASE g = h /\ ~Accepts(tasks[h])
      BY <1>0, <1>1, <2>4, <3>1, <3>3 DEF Answered, HasMessage
    <3> QED BY <3>2, <3>3
  <2>9. AnsweredFirst'
    <3> SUFFICES ASSUME NEW x \in Keys, NEW g \in Answered(x)', NEW j \in DOMAIN calls',
                        calls'[j].name = x, tasks'[j].tx = "held"
                 PROVE  g < j
      BY DEF AnsweredFirst
    <3>1. j \in Handles /\ j # h /\ calls[j].name = x /\ tasks[j].tx = "held"
      BY <1>0, <1>1, <2>4
    <3>2. CASE g \in Answered(x)
      BY <1>0, <3>1, <3>2 DEF MInv, AnsweredFirst
    <3>3. CASE g \notin Answered(x)
      <4>1. x = k /\ g = h
        BY <2>7, <2>8, <3>3
      <4> QED BY <2>5, <3>1, <4>1
    <3> QED BY <3>2, <3>3
  <2>10. CASE ~Accepts(tasks[h])
    BY <2>3, <2>9, <2>10 DEF SignalsMatched
  <2>11. CASE Accepts(tasks[h])
    <3>1. Answered(k)' = A \cup {h}
      <4>1. h \in Answered(k)'
        BY <1>0, <1>1, <2>2, <2>4, <2>11 DEF Answered, HasMessage
      <4>2. \A g \in A : g \in Handles /\ g # h
        BY <1>0, <1>9, <2>2, <2>6
      <4>3. \A g \in A : g \in Answered(k)'
        BY <1>0, <1>1, <2>4, <4>2 DEF Answered
      <4> QED BY <2>8, <4>1, <4>3
    <3>2. Buffered(k) = <<>> /\ \A x : Buffered(x)' = Buffered(x)
      <4>1. k \notin DOMAIN received_events
        BY <1>0, <1>12 DEF IInv, EventOrWaiter
      <4> QED BY <2>3, <4>1 DEF Buffered
    <3>3. ASSUME NEW x \in Keys, x # k
          PROVE  Matched(Answered(x), Raised(x), Buffered(x), Values, Inputs)'
      <4>1. \A g \in Answered(x) : tasks'[g] = tasks[g]
        BY <1>0, <2>2, <2>4, <3>3 DEF Answered
      <4> QED BY <1>8, <2>7, <3>2, <3>3, <4>1
    <3>4. Matched(Answered(k), Raised(k), Buffered(k), Values, Inputs)'
      <4>1. c[h] = s[m] /\ \A g \in A : c[g] = a[g]
        <5>1. \A g \in A : g \in Handles /\ g # h
          BY <1>0, <1>9, <2>2, <2>6
        <5> QED BY <1>0, <1>1, <1>10, <2>2, <2>4, <2>11, <5>1 DEF Values
      <4>2. Matched(A, R, <<>>, a, r)
        BY <1>6, <1>7, <3>2
      <4>3. h \in Nat
        BY <1>0, <2>2
      <4>4. Matched(A \cup {h}, R \cup {m}, <<>>, c, s)
        <5>1. m \in Nat /\ \A i \in R : i < m
          BY <1>2, <1>9
        <5>2. \A i \in R : s[i] = r[i]
          BY <1>10
        <5>3. Matched(A, R, <<>>, c, s)
          BY <4>1, <4>2, <5>2, MatchedSame
        <5> QED BY <1>9, <2>6, <4>1, <4>3, <5>1, <5>3, MatchedAtOnce
      <4> PICK C : C = A \cup {h}
        OBVIOUS
      <4> PICK S : S = R \cup {m}
        OBVIOUS
      <4> PICK D : D = <<>>
        OBVIOUS
      <4>5. /\ C = Answered(k)' /\ S = Raised(k)' /\ D = Buffered(k)'
            /\ c = Values' /\ s = Inputs'
        BY <1>3, <3>1, <3>2
      <4> QED BY <4>4, <4>5, MatchedNext
    <3> QED BY <2>9, <3>3, <3>4 DEF SignalsMatched
  <2> QED BY <2>10, <2>11
<1> QED BY <1>11, <1>12

-----------------------------------------------------------------------------
(* The theorems.                                                           *)

\* At first there are neither calls nor events.
THEOREM InitMInv == Init => MInv
<1> SUFFICES ASSUME Init PROVE MInv
  OBVIOUS
<1>1. calls = <<>> /\ history = <<>> /\ DOMAIN received_events = {}
  BY EmptyMapIsMap DEF Init
<1>2. AnsweredFirst
  BY <1>1 DEF AnsweredFirst
<1>3. ASSUME NEW key
      PROVE  Answered(key) = {} /\ Raised(key) = {} /\ Buffered(key) = <<>>
  BY <1>1 DEF Answered, Raised, Buffered
<1>4. Cardinality({}) + Len(<<>>) = Cardinality({})
  BY FS_EmptySet
<1>5. SignalsMatched
  BY <1>3, <1>4 DEF SignalsMatched, Matched
<1> QED BY <1>2, <1>5, InitSInv DEF MInv

\* Every step keeps the signals in order.
THEOREM StepMInv == MInv /\ (AnyStep \/ UNCHANGED vars) => MInv'
<1>1. ASSUME MInv, AnyStep PROVE MInv'
  <2>1. SInv'
    BY <1>1, StepSInv DEF MInv
  <2>2. CASE Execute \/ get_actions
    <3>1. CASE await_signal_event
      BY <1>1, <2>1, <3>1, AwaitStep DEF MInv
    <3>2. CASE ~await_signal_event
      BY <1>1, <2>1, <2>2, <3>2, OtherSteps DEF MInv
    <3> QED BY <3>1, <3>2
  <2>3. ASSUME NEW e, IsEvent(e), process_event(e) PROVE MInv'
    <3>1. CASE EventRaised(e)
      BY <1>1, <2>1, <2>3, <3>1, RaisedStep DEF MInv
    <3>2. CASE ~EventRaised(e)
      BY <1>1, <2>1, <2>3, <3>2, OtherSteps DEF MInv
    <3> QED BY <3>1, <3>2
  <2> QED BY <1>1, <2>2, <2>3 DEF AnyStep
<1>2. ASSUME MInv, UNCHANGED vars PROVE MInv'
  <2>1. UNCHANGED <<history, pc, calls, tasks, received_events>>
    BY <1>2 DEF vars, future, called, ctx
  <2>2. SInv'
    BY <1>2, StepSInv DEF MInv
  <2>3. AnsweredFirst'
    BY <1>2, <2>1 DEF MInv, AnsweredFirst, Answered
  <2>4. SignalsMatched'
    BY <1>2, <2>1 DEF MInv, SignalsMatched, Matched, Answered, Raised, Buffered, Values, Inputs,
            RaisedFor, Earlier
  <2> QED BY <2>2, <2>3, <2>4 DEF MInv
<1> QED BY <1>1, <1>2

\* The functions and sets of MInv say what OInv says.
LEMMA SignalsOfMatched == MInv => OInv
<1> SUFFICES ASSUME MInv PROVE OInv
  OBVIOUS
<1>1. DOMAIN tasks = Handles /\ DOMAIN calls = Handles
  BY HandleTypes DEF MInv, SInv
<1>2. ASSUME pc # "panicked", NEW key \in Keys
      PROVE  AllMatched(key) /\ GivenInOrder(key) /\ KeptInOrder(key)
  <2>1. Matched(Answered(key), Raised(key), Buffered(key), Values, Inputs)
    BY <1>2 DEF MInv, SignalsMatched
  <2>2. \A h \in Answered(key) : Values[h] = tasks[h].value
    BY <1>1 DEF Values, Answered
  <2>3. \A i \in Raised(key) : Inputs[i] = history[i].value
    BY DEF Inputs, Raised
  <2>4. AllMatched(key)
    BY <2>1 DEF Matched, AllMatched
  <2>5. GivenInOrder(key)
    BY <2>1, <2>2, <2>3 DEF Matched, GivenInOrder
  <2>6. KeptInOrder(key)
    BY <2>1, <2>3 DEF Matched, KeptInOrder
  <2> QED BY <2>4, <2>5, <2>6
<1> QED BY <1>2 DEF MInv, OInv, SignalsInOrder

\* So in every run, up to a panic, the calls of a name have got, and its buffer
\* holds, the events raised for it, each once and in their order.
THEOREM SignalsOnceAndInOrder == Spec => []SignalsInOrder
<1>1. MInv /\ [Next]_vars => MInv'
  BY StepMInv, NextIsAnyStep
<1>2. MInv => SignalsInOrder
  BY SignalsOfMatched DEF OInv
<1> QED BY InitMInv, <1>1, <1>2, PTL DEF Spec

-----------------------------------------------------------------------------
(* One step.                                                               *)

\* The polling actions that call, and those that do not.
Calls == create_timer \/ call_activity \/ call_sub_orchestrator \/ await_signal_event
Rests == TaskPending \/ TaskForsaken \/ TaskIgnored \/ TaskPanics \/ PolledAgain \/ Block
         \/ Complete \/ ReturnIgnored
Drains == DrainTask \/ DrainWaiter \/ NextEvent \/ get_actions

LEMMA StepKinds ==
    ASSUME AnyStep
    PROVE  \/ Calls \/ TaskReady \/ FinishStep \/ Rests \/ ReturnAtOnce \/ Drains
           \/ \E e : IsEvent(e) /\ StartsOnce(e) /\ process_event(e)
BY DEF AnyStep, Execute, Poll, Calls, Rests, Drains

\* Nothing is done after a panic.
LEMMA NotPanicked == ASSUME AnyStep PROVE pc # "panicked"
<1>1. ASSUME NEW e, process_event(e) PROVE pc # "panicked"
  BY <1>1, EventTaken
<1> QED BY <1>1 DEF AnyStep, Execute, Poll, create_timer, call_activity, call_sub_orchestrator,
       Schedule, await_signal_event, TaskReady, TaskPending, TaskForsaken, TaskIgnored,
       TaskPanics, PolledAgain, FinishStep, Block, Complete, ReturnAtOnce, ReturnIgnored,
       DrainTask, DrainWaiter, NextEvent, Awaited, AtTask, Uncalled, InStep, AtStepEnd, AtReturn,
       Polling, get_actions

\* A call stays where it is in the program.  It makes a task that has a sender
\* or is completed, unless it panics.
LEMMA CallMade ==
    ASSUME IInv, Calls
    PROVE  /\ Uncalled /\ UNCHANGED <<history, fn, name, step, op, base>>
           /\ \/ pc' = pc /\ panic' = panic
              \/ pc' = "panicked" /\ panic' = "no value"
           /\ \/ UNCHANGED <<calls, tasks>>
              \/ /\ Len(calls') = Len(calls) + 1
                 /\ DOMAIN tasks' = 1 .. Len(calls) + 1
                 /\ \A h \in Handles : tasks'[h] = tasks[h]
                 /\ tasks'[Len(calls) + 1].rx = "waiting"
                 /\ \/ tasks'[Len(calls) + 1].tx = "held"
                    \/ tasks'[Len(calls) + 1].completed
<1>0. CallsOK
  BY DEF IInv, TypeOK
<1>1. ASSUME NEW call, NEW task, NewCall(call, task), task.rx = "waiting",
             task.tx = "held" \/ task.completed
      PROVE  /\ Len(calls') = Len(calls) + 1
             /\ DOMAIN tasks' = 1 .. Len(calls) + 1
             /\ \A h \in Handles : tasks'[h] = tasks[h]
             /\ tasks'[Len(calls) + 1].rx = "waiting"
             /\ \/ tasks'[Len(calls) + 1].tx = "held"
                \/ tasks'[Len(calls) + 1].completed
  BY <1>0, <1>1, NewCallOK, LenProperties
<1>2. NewTask.rx = "waiting" /\ NewTask.tx = "held"
  BY DEF NewTask
<1>3. CASE create_timer \/ call_activity \/ call_sub_orchestrator
  <2>1. PICK kind \in TaskKinds : Schedule(kind)
    BY <1>3 DEF create_timer, call_activity, call_sub_orchestrator, TaskKinds
  <2>2. Uncalled /\ UNCHANGED <<history, fn, name, step, op, base, pc, panic>>
    BY <2>1 DEF Schedule, future
  <2>3. PICK call \in Call : NewCall(call, NewTask)
    BY <2>1, ScheduleCalls
  <2> QED BY <1>1, <1>2, <2>2, <2>3
<1>4. CASE await_signal_event
  <2>1. Uncalled /\ UNCHANGED <<history, fn, name, step, op, base>>
    BY <1>4 DEF await_signal_event, future
  <2>2. \/ pc' = pc /\ panic' = panic
        \/ pc' = "panicked" /\ panic' = "no value"
    BY <1>4 DEF await_signal_event, Goto, Panic
  <2>3. CASE UNCHANGED <<calls, tasks>>
    BY <2>1, <2>2, <2>3
  <2>4. ASSUME NEW call \in Call, NEW task \in Task, NewCall(call, task)
        PROVE  task.rx = "waiting" /\ (task.tx = "held" \/ task.completed)
    <3>1. tasks' = Append(tasks, task) /\ tasks \in Seq(Task)
      BY <1>0, <2>4 DEF NewCall, CallsOK
    <3>2. \E value : tasks' = Append(tasks, CompletedTask(value))
                     \/ tasks' = Append(tasks, NewTask) \/ tasks' = tasks
      BY <1>4 DEF await_signal_event
    <3> PICK n : n = Len(tasks) + 1
      OBVIOUS
    <3>3. ASSUME NEW t, tasks' = Append(tasks, t) PROVE tasks'[n] = t
      BY <1>0, <3>3 DEF CallsOK
    <3>4. tasks' # tasks
      <4>1. Len(tasks') = Len(tasks) + 1 /\ Len(tasks) \in Nat
        BY <3>1, AppendProperties, LenProperties
      <4> QED BY <4>1
    <3>5. \A value : CompletedTask(value).completed /\ CompletedTask(value).rx = "waiting"
      BY DEF CompletedTask
    <3> QED BY <1>2, <3>1, <3>2, <3>3, <3>4, <3>5
  <2>5. CASE ~UNCHANGED <<calls, tasks>>
    <3>1. \E call \in Call, task \in Task : NewCall(call, task)
      BY <1>4, <2>5, SignalCalls
    <3> QED BY <1>1, <2>1, <2>2, <2>4, <3>1
  <2> QED BY <2>3, <2>5
<1> QED BY <1>3, <1>4 DEF Calls

\* An event leaves the futures alone.  It drops the sender of one that waits
\* only when it is a result without a value.
LEMMA EventFutures ==
    ASSUME IInv, NEW e, IsEvent(e), process_event(e), NEW h \in Handles
    PROVE  /\ tasks'[h].rx = tasks[h].rx
           /\ \/ tasks'[h].tx = tasks[h].tx
              \/ tasks'[h].tx = "sent"
              \/ tasks[h].rx = "dropped"
              \/ e.type \in Resolved /\ e.value = None
<1>0. /\ DOMAIN tasks = Handles /\ \A g \in Handles : tasks[g] \in Task
      /\ \A id \in DOMAIN pending_tasks : pending_tasks[id] \in Handles
      /\ \A key \in DOMAIN pending_events :
            /\ pending_events[key] \in Seq(Handles) /\ pending_events[key] # <<>>
  BY HandleTypes
<1>1. CASE tasks' = tasks
  BY <1>1
<1>2. ASSUME NEW w, tasks' = [tasks EXCEPT ![w] = Send(tasks[w], e.value)]
      PROVE  /\ tasks'[h].rx = tasks[h].rx
             /\ \/ tasks'[h].tx = tasks[h].tx
                \/ tasks'[h].tx = "sent"
                \/ tasks[h].rx = "dropped"
  <2>1. tasks[h] \in Task
    BY <1>0
  <2>2. tasks'[h] \in {tasks[h], Send(tasks[h], e.value)}
    BY <1>0, <1>2
  <2> QED BY <2>1, <2>2 DEF Send, Accepts, Task
<1>3. ASSUME NEW w, tasks' = [tasks EXCEPT ![w] = DropSender(tasks[w])]
      PROVE  tasks'[h].rx = tasks[h].rx
  <2>1. tasks[h] \in Task
    BY <1>0
  <2>2. tasks'[h] \in {tasks[h], DropSender(tasks[h])}
    BY <1>0, <1>3
  <2> QED BY <2>1, <2>2 DEF DropSender, Task
<1>4. CASE EventRaised(e)
  <2>1. tasks' = tasks \/ \E w : tasks' = [tasks EXCEPT ![w] = Send(tasks[w], e.value)]
    BY <1>4 DEF EventRaised
  <2> QED BY <1>1, <1>2, <2>1
<1>5. CASE Unblock(e) /\ e.type \in Resolved
  <2>1. \/ tasks' = tasks
        \/ \E w : tasks' = [tasks EXCEPT ![w] = Send(tasks[w], e.value)]
        \/ e.value = None /\ \E w : tasks' = [tasks EXCEPT ![w] = DropSender(tasks[w])]
    BY <1>5 DEF Unblock
  <2> QED BY <1>1, <1>2, <1>3, <1>5, <2>1
<1>6. CASE ~EventRaised(e) /\ ~(Unblock(e) /\ e.type \in Resolved)
  <2>1. tasks' = tasks
    BY <1>6 DEF process_event, ExecutionStarted, ExecutionCompleted,
                ExecutionTerminated, IgnoredEvent, TaskScheduled, TimerCreated,
                SubOrchestrationInstanceCreated, Acknowledge, TaskCompleted, TimerFired,
                TaskFailed, SubOrchestrationInstanceCompleted, UnblockAndPoll,
                SubOrchestrationInstanceFailed, Resolved, called
  <2> QED BY <1>1, <2>1
<1> QED BY <1>4, <1>5, <1>6

\* An event that gives something to a future polls it, or is a failed task's, or
\* panics.
LEMMA GivenIsPolled ==
    ASSUME NEW e, IsEvent(e), process_event(e), pc' = "drain", e.type # "TaskFailed", fn = "pending"
    PROVE  tasks' = tasks
BY DEF process_event, ExecutionStarted, ExecutionCompleted,
       ExecutionTerminated, IgnoredEvent, TaskScheduled, TimerCreated,
       SubOrchestrationInstanceCreated, Acknowledge, TaskCompleted, TimerFired,
       TaskFailed, SubOrchestrationInstanceCompleted, UnblockAndPoll, ThenPoll,
       SubOrchestrationInstanceFailed, EventRaised, called, Goto, Panic

\* What polls and drains do to the futures: a value is taken, or the futures of
\* a step are dropped.
LEMMA PollFutures ==
    ASSUME IInv, TaskReady \/ FinishStep \/ Rests \/ ReturnAtOnce \/ Drains
    PROVE  /\ calls' = calls /\ history' = history
           /\ DOMAIN tasks' = Handles /\ Handles' = Handles
           /\ \A h \in Handles :
                 /\ tasks'[h].completed = tasks[h].completed
                 /\ ~ReturnAtOnce => tasks'[h].tx = tasks[h].tx
                 /\ tasks'[h].rx \in {tasks[h].rx, "failed", "taken", "dropped"}
                 /\ tasks'[h].rx = "failed" => tasks[h].rx = "failed" \/ Forsaken(tasks[h])
                 /\ ~FinishStep /\ tasks'[h].rx = "dropped" => tasks[h].rx = "dropped"
                 /\ tasks[h].rx = "taken" => tasks'[h].rx = "taken"
                 /\ Unfinished(tasks'[h]) => Unfinished(tasks[h])
<1>0. /\ DOMAIN tasks = Handles /\ \A g \in Handles : tasks[g] \in Task
      /\ Handles = 1 .. Len(calls) /\ Len(calls) \in Nat /\ CallsOK
  BY HandleTypes DEF Handles, IInv, TypeOK
<1>1. SameTasks /\ calls' = calls /\ history' = history
  <2>1. CASE Drains
    BY <1>0, <2>1, NoTask DEF Drains, DrainTask, DrainWaiter, NextEvent, get_actions, called
  <2>2. CASE TaskReady \/ FinishStep \/ Rests \/ ReturnAtOnce
    BY <2>2, PollTasks DEF Rests, TaskReady, TaskPending, TaskForsaken, TaskIgnored, TaskPanics,
           PolledAgain, FinishStep, Block, Complete, ReturnAtOnce, ReturnIgnored
  <2> QED BY <2>1, <2>2
<1>2. DOMAIN tasks' = Handles /\ Handles' = Handles
  <2>1. Len(tasks') = Len(calls) /\ tasks' \in Seq(Task)
    BY <1>0, <1>1 DEF SameTasks, CallsOK
  <2> QED BY <1>0, <1>1, <2>1, LenProperties DEF Handles
<1>3. ASSUME NEW h \in Handles
      PROVE  /\ ~ReturnAtOnce => tasks'[h].tx = tasks[h].tx
             /\ tasks'[h].rx \in {tasks[h].rx, "failed", "taken", "dropped"}
             /\ tasks'[h].rx = "failed" => tasks[h].rx = "failed" \/ Forsaken(tasks[h])
             /\ ~FinishStep /\ tasks'[h].rx = "dropped" => tasks[h].rx = "dropped"
             /\ tasks[h].rx = "taken" => tasks'[h].rx = "taken"
             /\ Unfinished(tasks'[h]) => Unfinished(tasks[h])
  <2>0. tasks[h] \in Task
    BY <1>0
  <2>1. CASE TaskReady
    <3>1. tasks'[h] \in {tasks[h], Take(tasks[h])}
      BY <1>0, <2>1 DEF TaskReady
    <3> QED BY <2>0, <3>1 DEF Take, Unfinished, Task
  <2>2. CASE FinishStep
    <3>1. tasks'[h] \in {tasks[h], DropFuture(tasks[h])}
      BY <1>0, <2>2 DEF FinishStep
    <3> QED BY <2>0, <2>2, <3>1 DEF DropFuture, Unfinished, Task
  <2>3. CASE ReturnAtOnce
    <3>1. tasks'[h] = DropSender(tasks[h])
      BY <1>0, <2>3 DEF ReturnAtOnce
    <3> QED BY <2>0, <2>3, <3>1 DEF DropSender, Unfinished, Task
  <2>4. CASE TaskForsaken
    <3> PICK g : g = ThisCall
      OBVIOUS
    <3>1. tasks' = [tasks EXCEPT ![g] = Fail(tasks[g])] /\ Forsaken(tasks[g])
      BY <2>4 DEF TaskForsaken
    <3>2. \/ tasks'[h] = tasks[h]
          \/ tasks'[h] = Fail(tasks[h]) /\ Forsaken(tasks[h])
      BY <1>0, <3>1
    <3> QED BY <2>0, <3>2 DEF Fail, Forsaken, Unfinished, Task
  <2>5. CASE (Rests /\ ~TaskForsaken) \/ Drains
    <3>1. tasks' = tasks
      BY <2>5 DEF Rests, Drains, TaskPending, TaskIgnored, TaskPanics, PolledAgain, Block, Complete,
                  ReturnIgnored, DrainTask, DrainWaiter, NextEvent, get_actions, called
    <3> QED BY <3>1
  <2> QED BY <2>1, <2>2, <2>3, <2>4, <2>5 DEF Rests
<1> QED BY <1>1, <1>2, <1>3 DEF SameTasks

-----------------------------------------------------------------------------
(* Where the orchestrator is among its calls.                              *)

LEMMA KnownBody ==
    ASSUME Known
    PROVE  /\ Body \in Seq(Step) /\ Len(Body) \in Nat /\ DOMAIN Body = 1 .. Len(Body)
           /\ \A k \in 1 .. Len(Body) : Len(Body[k].ops) \in Nat
<1>1. Registry[name] \in Program
  BY RegistryAssumption DEF Known
<1>2. Body \in Seq(Step)
  BY <1>1 DEF Program, Body
<1>3. Len(Body) \in Nat /\ DOMAIN Body = 1 .. Len(Body)
  BY <1>2, LenProperties
<1>4. ASSUME NEW k \in 1 .. Len(Body) PROVE Len(Body[k].ops) \in Nat
  <2>1. Body[k] \in Step
    BY <1>2, ElementOfSeq
  <2>2. Body[k].ops \in Seq(Op)
    BY <2>1 DEF Step
  <2> QED BY <2>2, LenProperties
<1> QED BY <1>2, <1>3, <1>4

\* What the types say of where it is.
LEMMA PositionTypes ==
    ASSUME SInv, AtOwnCalls
    PROVE  /\ IInv /\ Len(calls) \in Nat /\ Handles = 1 .. Len(calls) /\ DOMAIN tasks = Handles
           /\ \A h \in Handles : tasks[h] \in Task
           /\ step \in Nat /\ step >= 1 /\ op \in Nat /\ op >= 1 /\ base \in 0 .. Len(calls)
           /\ Polling => /\ Known /\ HasStarted
                         /\ pc = "first" => fn = "none"
                         /\ pc # "first" => fn = "pending"
           /\ fn # "none" => Known
           /\ Known /\ step <= Len(Body) =>
                 Len(Body[step].ops) \in Nat /\ Len(calls) <= base + Len(Body[step].ops)
<1>1. IInv /\ PositionOK /\ Running /\ OnceStarted
  BY DEF SInv, IInv, TypeOK
<1>2. /\ Len(calls) \in Nat /\ Handles = 1 .. Len(calls) /\ DOMAIN tasks = Handles
      /\ \A h \in Handles : tasks[h] \in Task
  BY <1>1, HandleTypes DEF Handles
<1>3. step \in Nat /\ step >= 1 /\ op \in Nat /\ op >= 1 /\ base \in 0 .. Len(calls)
  BY <1>1, <1>2 DEF PositionOK, AtOwnCalls
<1>4. Polling => /\ Known /\ HasStarted
                 /\ pc = "first" => fn = "none"
                 /\ pc # "first" => fn = "pending"
  BY <1>1 DEF Polling, Running, OnceStarted, Known
<1>5. fn # "none" => Known
  BY <1>1 DEF Running, Known
<1>6. ASSUME Known, step <= Len(Body)
      PROVE  Len(Body[step].ops) \in Nat /\ Len(calls) <= base + Len(Body[step].ops)
  <2>1. step \in 1 .. Len(Body)
    BY <1>3, <1>6, KnownBody
  <2> QED BY <1>6, <2>1, KnownBody DEF AtOwnCalls
<1> QED BY <1>1, <1>2, <1>3, <1>4, <1>5, <1>6

\* A race that is decided stays so.
LEMMA StaysDecided ==
    ASSUME Decided, UNCHANGED <<name, step, base>>, \A h : IsTaken(h) => IsTaken(h)'
    PROVE  Decided'
<1>1. Body' = Body /\ StepHandles' = StepHandles
  BY DEF Body, StepHandles
<1> QED BY <1>1 DEF Decided

\* A call goes one further than what was passed over.
LEMMA CallAtOwn ==
    ASSUME SInv, AtOwnCalls, Calls
    PROVE  AtOwnCalls' /\ (Decided => Decided')
<1>0. /\ IInv /\ Len(calls) \in Nat /\ Handles = 1 .. Len(calls) /\ DOMAIN tasks = Handles
      /\ op \in Nat /\ op >= 1 /\ base \in 0 .. Len(calls) /\ step \in Nat
  BY PositionTypes
<1>1. /\ Uncalled /\ UNCHANGED <<history, fn, name, step, op, base>>
      /\ pc' = pc \/ pc' = "panicked"
  BY <1>0, CallMade
<1>2. Polling /\ Known /\ HasStarted /\ step <= Len(Body) /\ op <= Len(Body[step].ops)
      /\ base + op > Len(calls) /\ Len(Body[step].ops) \in Nat
  BY <1>1, PositionTypes DEF Uncalled, InStep, ThisCall
<1>3. Body' = Body /\ HasStarted' /\ Known'
  BY <1>1, <1>2 DEF Body, HasStarted, Known
<1>4. CASE UNCHANGED <<calls, tasks>>
  <2>1. \A h : IsTaken(h) => IsTaken(h)'
    BY <1>4 DEF IsTaken
  <2>2. Decided => Decided'
    BY <1>1, <2>1, StaysDecided
  <2> QED BY <1>0, <1>1, <1>2, <1>3, <1>4, <2>2 DEF AtOwnCalls, Polling
<1>5. CASE /\ Len(calls') = Len(calls) + 1
           /\ DOMAIN tasks' = 1 .. Len(calls) + 1
           /\ \A h \in Handles : tasks'[h] = tasks[h]
  <2>1. \A h : IsTaken(h) => IsTaken(h)'
    BY <1>0, <1>5 DEF IsTaken
  <2>2. Decided => Decided'
    BY <1>1, <2>1, StaysDecided
  <2>3. base' <= Len(calls')
    BY <1>0, <1>1, <1>5
  <2>4. ASSUME NEW h \in DOMAIN tasks', h <= base' PROVE ~Unfinished(tasks'[h])
    <3>1. h \in Handles /\ h <= base
      BY <1>0, <1>1, <1>5, <2>4
    <3> QED BY <1>0, <1>5, <3>1 DEF AtOwnCalls
  <2>5. Len(calls') <= base' + Len(Body'[step'].ops)
    BY <1>0, <1>1, <1>2, <1>3, <1>5
  <2>6. Decided' \/ base' + op' <= Len(calls') + 1
    BY <1>0, <1>1, <1>2, <1>5, <2>2 DEF AtOwnCalls
  <2>7. step' <= Len(Body') /\ op' <= Len(Body'[step'].ops) + 1
    BY <1>0, <1>1, <1>2, <1>3
  <2>8. Polling' \/ pc' = "panicked"
    BY <1>1, <1>2 DEF Polling
  <2>9. ~(step' > Len(Body'))
    <3>1. step' \in Nat /\ Len(Body') \in Nat
      BY <1>0, <1>1, <1>2, <1>3, KnownBody
    <3> QED BY <2>7, <3>1
  <2> QED BY <1>3, <2>2, <2>3, <2>4, <2>5, <2>6, <2>7, <2>8, <2>9 DEF AtOwnCalls
<1> QED BY <1>0, <1>4, <1>5, CallMade

\* A value that is taken decides a race.
LEMMA ReadyTaken ==
    ASSUME SInv, AtOwnCalls, TaskReady, NEW h, h = ThisCall
    PROVE  /\ h \in Handles /\ tasks'[h].rx = "taken"
           /\ Body[step].mode = "any" => Decided'
<1>0. /\ IInv /\ Len(calls) \in Nat /\ Handles = 1 .. Len(calls) /\ DOMAIN tasks = Handles
      /\ \A g \in Handles : tasks[g] \in Task
      /\ op \in Nat /\ op >= 1 /\ base \in 0 .. Len(calls) /\ step \in Nat
  BY PositionTypes
<1>1. /\ AtTask /\ UNCHANGED <<name, step, base>>
      /\ tasks' = [tasks EXCEPT ![h] = Take(tasks[h])]
  BY DEF TaskReady, Awaited
<1>2. Polling /\ Known /\ op <= Len(Body[step].ops) /\ h <= Len(calls) /\ h = base + op
      /\ Len(Body[step].ops) \in Nat
  BY <1>1, PositionTypes DEF AtTask, InStep, ThisCall
<1>3. h \in Handles /\ h \in StepHandles
  BY <1>0, <1>2 DEF StepHandles
<1>4. DOMAIN tasks' = Handles /\ tasks'[h].rx = "taken"
  <2>1. DOMAIN tasks' = Handles /\ tasks'[h] = Take(tasks[h]) /\ tasks[h] \in Task
    BY <1>0, <1>1, <1>3
  <2> QED BY <2>1 DEF Take, Task
<1>5. IsTaken(h)'
  BY <1>3, <1>4 DEF IsTaken
<1>6. Body' = Body /\ StepHandles' = StepHandles
  BY <1>1 DEF Body, StepHandles
<1> QED BY <1>1, <1>3, <1>4, <1>5, <1>6 DEF Decided

\* So do the other steps of a poll, one past each call; the next step begins
\* behind all calls.
LEMMA PollAtOwn ==
    ASSUME SInv, AtOwnCalls,
           TaskReady \/ TaskPending \/ TaskForsaken \/ TaskIgnored \/ TaskPanics \/ PolledAgain
    PROVE  AtOwnCalls' /\ (Decided => Decided')
<1>0. /\ IInv /\ Len(calls) \in Nat /\ Handles = 1 .. Len(calls) /\ DOMAIN tasks = Handles
      /\ \A h \in Handles : tasks[h] \in Task
      /\ op \in Nat /\ op >= 1 /\ base \in 0 .. Len(calls) /\ step \in Nat
  BY PositionTypes
<1>1. /\ AtTask /\ UNCHANGED <<history, fn, name, step, base, calls>>
      /\ pc' = pc \/ pc' = "panicked"
  BY DEF TaskReady, TaskPending, TaskForsaken, TaskIgnored, TaskPanics, PolledAgain, Awaited,
     Goto, Panic, called, future
<1>2. Polling /\ Known /\ HasStarted /\ step <= Len(Body) /\ op <= Len(Body[step].ops)
      /\ base + op <= Len(calls) /\ Len(Body[step].ops) \in Nat /\ ThisCall = base + op
  BY <1>1, PositionTypes DEF AtTask, InStep, ThisCall
<1>3. Body' = Body /\ HasStarted' /\ Known'
  BY <1>1, <1>2 DEF Body, HasStarted, Known
<1>4. /\ DOMAIN tasks' = Handles
      /\ \A h \in Handles :
            /\ Unfinished(tasks'[h]) => Unfinished(tasks[h])
            /\ tasks[h].rx = "taken" => tasks'[h].rx = "taken"
  BY <1>0, PollFutures DEF Rests
<1>5. Decided => Decided'
  <2>1. \A h : IsTaken(h) => IsTaken(h)'
    BY <1>0, <1>4 DEF IsTaken
  <2> QED BY <1>1, <2>1, StaysDecided
<1>6. \A h \in DOMAIN tasks' : h <= base' => ~Unfinished(tasks'[h])
  <2>1. \A h \in Handles : h <= base => ~Unfinished(tasks[h])
    BY <1>0 DEF AtOwnCalls
  <2> QED BY <1>1, <1>4, <2>1
<1>7. \/ op' = op + 1
      \/ pc' = "panicked"
      \/ op' = Len(Body[step].ops) + 1 /\ Decided'
  <2>1. CASE TaskPending \/ TaskForsaken \/ TaskIgnored \/ TaskPanics \/ PolledAgain
    BY <2>1 DEF TaskPending, TaskForsaken, TaskIgnored, TaskPanics, PolledAgain, Panic
  <2>2. CASE TaskReady /\ Body[step].mode = "any"
    <3>1. (op' = Len(Body[step].ops) + 1) \/ pc' = "panicked"
      BY <2>2 DEF TaskReady, Panic
    <3>2. Decided'
      BY <2>2, ReadyTaken
    <3> QED BY <3>1, <3>2
  <2>3. CASE TaskReady /\ Body[step].mode # "any"
    BY <2>3 DEF TaskReady, Panic
  <2> QED BY <2>1, <2>2, <2>3
<1>8. base' <= Len(calls') /\ Len(calls') <= base' + Len(Body'[step'].ops)
  BY <1>0, <1>1, <1>2, <1>3, PositionTypes
<1>9. step' <= Len(Body') /\ ~(step' > Len(Body'))
  <2>1. Len(Body) \in Nat
    BY <1>2, KnownBody
  <2> QED BY <1>0, <1>1, <1>2, <1>3, <2>1
<1>10. CASE pc' = "panicked"
  BY <1>1, <1>3, <1>5, <1>6, <1>8, <1>9, <1>10 DEF AtOwnCalls, Polling
<1>11. CASE pc' = pc /\ op' = op + 1
  <2>1. op' <= Len(Body'[step'].ops) + 1 /\ base' + op' <= Len(calls') + 1
    BY <1>0, <1>1, <1>2, <1>3, <1>11
  <2> QED BY <1>1, <1>2, <1>3, <1>5, <1>6, <1>8, <1>9, <1>11, <2>1 DEF AtOwnCalls, Polling
<1>12. CASE pc' = pc /\ op' = Len(Body[step].ops) + 1 /\ Decided'
  <2>1. op' <= Len(Body'[step'].ops) + 1
    BY <1>1, <1>2, <1>3, <1>12
  <2> QED BY <1>1, <1>2, <1>3, <1>5, <1>6, <1>8, <1>9, <1>12, <2>1 DEF AtOwnCalls, Polling
<1> QED BY <1>1, <1>5, <1>7, <1>10, <1>11, <1>12

LEMMA FinishAtOwn ==
    ASSUME SInv, AtOwnCalls, FinishStep
    PROVE  AtOwnCalls'
<1>0. /\ IInv /\ Len(calls) \in Nat /\ Handles = 1 .. Len(calls) /\ DOMAIN tasks = Handles
      /\ \A h \in Handles : tasks[h] \in Task
      /\ base \in 0 .. Len(calls) /\ step \in Nat
  BY PositionTypes
<1>1. /\ Polling /\ step <= Len(Body) /\ UNCHANGED <<history, pc, fn, name, calls>>
      /\ step' = step + 1 /\ op' = 1 /\ base' = Len(calls)
      /\ tasks' = [h \in DOMAIN tasks |-> IF h > base THEN DropFuture(tasks[h]) ELSE tasks[h]]
  BY DEF FinishStep, AtStepEnd
<1>2. Known /\ HasStarted /\ Len(Body) \in Nat
  BY <1>1, PositionTypes, KnownBody
<1>3. Body' = Body /\ HasStarted' /\ Known' /\ Polling'
  BY <1>1, <1>2 DEF Body, HasStarted, Known, Polling
<1>4. ASSUME NEW h \in DOMAIN tasks' PROVE ~Unfinished(tasks'[h])
  <2>1. h \in Handles /\ tasks[h] \in Task
    BY <1>0, <1>1
  <2>2. CASE h > base
    <3>1. tasks'[h] = DropFuture(tasks[h])
      BY <1>0, <1>1, <2>1, <2>2
    <3> QED BY <2>1, <3>1 DEF DropFuture, Unfinished, Task
  <2>3. CASE h <= base
    <3>1. tasks'[h] = tasks[h]
      BY <1>0, <1>1, <2>1, <2>3
    <3> QED BY <1>0, <2>1, <2>3, <3>1 DEF AtOwnCalls
  <2> QED BY <1>0, <2>1, <2>2, <2>3
<1>5. CASE step + 1 <= Len(Body)
  <2>1. step + 1 \in 1 .. Len(Body) /\ ~(step + 1 > Len(Body))
    BY <1>0, <1>2, <1>5
  <2>2. Len(Body[step + 1].ops) \in Nat
    BY <1>2, <2>1, KnownBody
  <2>3. /\ Len(calls') <= base' + Len(Body'[step'].ops) /\ op' <= Len(Body'[step'].ops) + 1
        /\ base' + op' <= Len(calls') + 1 /\ base' <= Len(calls')
    BY <1>0, <1>1, <1>3, <2>2
  <2> QED BY <1>1, <1>3, <1>4, <2>1, <2>3 DEF AtOwnCalls
<1>6. CASE ~(step + 1 <= Len(Body))
  <2>1. ~(step' <= Len(Body')) /\ base' <= Len(calls')
    BY <1>0, <1>1, <1>3, <1>6
  <2> QED BY <1>1, <1>3, <1>4, <2>1 DEF AtOwnCalls
<1> QED BY <1>5, <1>6

\* A poll that is over leaves it at the step's first call.
LEMMA ReturnAtOwn ==
    ASSUME SInv, AtOwnCalls, Block \/ Complete \/ ReturnAtOnce \/ ReturnIgnored \/ Drains
    PROVE  AtOwnCalls'
<1>0. /\ IInv /\ Handles = 1 .. Len(calls) /\ DOMAIN tasks = Handles
  BY PositionTypes
<1>1. UNCHANGED <<history, name, step, base, calls>> /\ pc' \in {"event", "drain", "done"}
  BY DEF Block, Complete, ReturnAtOnce, ReturnIgnored, Drains, DrainTask, DrainWaiter,
         NextEvent, get_actions, future, called, Goto
<1>2. op' = 1
  <2>1. CASE Block
    BY <2>1 DEF Block
  <2>2. CASE Complete \/ ReturnAtOnce \/ ReturnIgnored
    <3>1. op' = op /\ Polling /\ step > Len(Body)
      BY <2>2 DEF Complete, ReturnAtOnce, ReturnIgnored, AtReturn, future
    <3> QED BY <3>1, PositionTypes DEF AtOwnCalls
  <2>3. CASE Drains
    <3>1. op' = op /\ pc \in {"event", "drain"}
      BY <2>3 DEF Drains, DrainTask, DrainWaiter, NextEvent, get_actions, future
    <3> QED BY <3>1 DEF AtOwnCalls, Polling
  <2> QED BY <2>1, <2>2, <2>3
<1>3. \A h \in DOMAIN tasks' : h <= base' => ~Unfinished(tasks'[h])
  <2>1. DOMAIN tasks' = Handles /\ \A h \in Handles : Unfinished(tasks'[h]) => Unfinished(tasks[h])
    BY <1>0, PollFutures DEF Rests
  <2>2. \A h \in Handles : h <= base => ~Unfinished(tasks[h])
    BY <1>0 DEF AtOwnCalls
  <2> QED BY <1>1, <2>1, <2>2
<1>4. ~Polling' /\ Body' = Body /\ HasStarted' = HasStarted /\ Known' = Known
  BY <1>1 DEF Polling, Body, HasStarted, Known
<1>5. ~HasStarted' => step' = 1 /\ op' = 1 /\ base' = 0
  BY <1>1, <1>2, <1>4 DEF AtOwnCalls
<1> QED BY <1>1, <1>2, <1>3, <1>4, <1>5 DEF AtOwnCalls

\* An event finds it there, or at its start.
LEMMA EventAtOwn ==
    ASSUME SInv, AtOwnCalls, NEW e, IsEvent(e), StartsOnce(e), process_event(e)
    PROVE  AtOwnCalls'
<1>0. /\ IInv /\ Len(calls) \in Nat /\ Handles = 1 .. Len(calls) /\ DOMAIN tasks = Handles
      /\ base \in 0 .. Len(calls) /\ step \in Nat /\ step >= 1
  BY PositionTypes
<1>1. UNCHANGED <<step, op, base, calls, fn>> /\ pc = "event" /\ op = 1
  <2>1. UNCHANGED <<step, op, base, calls, fn>> /\ pc = "event"
    BY <1>0, EventControl, EventTasks, EventTaken
  <2> QED BY <2>1 DEF AtOwnCalls, Polling
<1>2. \A h \in DOMAIN tasks' : h <= base' => ~Unfinished(tasks'[h])
  <2>1. DOMAIN tasks' = Handles
    <3>1. Len(tasks') = Len(tasks) /\ tasks' \in Seq(Task) /\ Len(tasks) = Len(calls)
      BY <1>0, EventTasks DEF SameTasks, IInv, TypeOK, CallsOK
    <3> QED BY <1>0, <3>1, LenProperties
  <2>2. \A h \in Handles : Unfinished(tasks'[h]) = Unfinished(tasks[h])
    BY <1>0, EventFutures DEF Unfinished
  <2>3. \A h \in Handles : h <= base => ~Unfinished(tasks[h])
    BY <1>0 DEF AtOwnCalls
  <2> QED BY <1>1, <2>1, <2>2, <2>3
<1>3. HasStarted => HasStarted'
  BY <1>0, StartedStep DEF AnyStep
<1>4. base' <= Len(calls') /\ base' + op' <= Len(calls') + 1
  BY <1>0, <1>1
<1>5. ASSUME name' # name PROVE calls = <<>> /\ base = 0 /\ HasStarted'
  <2>1. e.type = "ExecutionStarted"
    BY <1>5 DEF process_event, ExecutionStarted, ExecutionCompleted, ExecutionTerminated,
                IgnoredEvent, TaskScheduled, TimerCreated, SubOrchestrationInstanceCreated,
                Acknowledge, TaskCompleted, TimerFired, TaskFailed,
                SubOrchestrationInstanceCompleted, SubOrchestrationInstanceFailed,
                UnblockAndPoll, Unblock, EventRaised, future
  <2>2. ~HasStarted
    BY <2>1 DEF StartsOnce
  <2>3. calls = <<>> /\ base = 0
    BY <2>2 DEF AtOwnCalls, SInv, OnceStarted
  <2>4. \E i \in DOMAIN history' : history'[i] = e
    BY <1>0, EventTaken, Recorded DEF IInv, TypeOK
  <2> QED BY <2>1, <2>3, <2>4 DEF HasStarted
<1>6. Known' /\ step' <= Len(Body') =>
          Len(Body'[step'].ops) \in Nat /\ Len(calls') <= base' + Len(Body'[step'].ops)
  <2>1. CASE name' = name
    <3>1. Known' = Known /\ Body' = Body
      BY <2>1 DEF Known, Body
    <3> QED BY <1>1, <3>1, PositionTypes
  <2>2. CASE name' # name
    <3>1. Len(calls') = 0 /\ base' = 0
      BY <1>1, <1>5, <2>2
    <3>2. ASSUME Known', step' <= Len(Body') PROVE Len(Body'[step'].ops) \in Nat
      <4>1. Registry[name'] \in Program
        BY <3>2, RegistryAssumption DEF Known
      <4>2. Registry[name'].body \in Seq(Step)
        BY <4>1 DEF Program
      <4>3. step' \in 1 .. Len(Registry[name'].body)
        BY <1>0, <1>1, <3>2, <4>2, LenProperties DEF Body
      <4>4. Registry[name'].body[step'] \in Step
        BY <4>2, <4>3, ElementOfSeq
      <4>5. Registry[name'].body[step'].ops \in Seq(Op)
        BY <4>4 DEF Step
      <4> QED BY <4>5, LenProperties DEF Body
    <3> QED BY <3>1, <3>2
  <2> QED BY <2>1, <2>2
<1>7. Known' /\ step' > Len(Body') => Len(calls') = base' /\ op' = 1
  <2>1. CASE name' = name
    <3>1. Known' = Known /\ Body' = Body
      BY <2>1 DEF Known, Body
    <3> QED BY <1>1, <3>1 DEF AtOwnCalls
  <2>2. CASE name' # name
    BY <1>1, <1>5, <2>2
  <2> QED BY <2>1, <2>2
<1>8. Polling' => Known'
  BY PositionTypes, EventControl DEF Polling, Known
<1>9. Polling' /\ step' <= Len(Body') => op' <= Len(Body'[step'].ops) + 1
  BY <1>1, <1>6, <1>8
<1>10. ~HasStarted' => step' = 1 /\ op' = 1 /\ base' = 0
  BY <1>1, <1>3 DEF AtOwnCalls
<1> QED BY <1>1, <1>2, <1>4, <1>6, <1>7, <1>9, <1>10 DEF AtOwnCalls

LEMMA AtOwnStep ==
    ASSUME SInv, AtOwnCalls, AnyStep
    PROVE  AtOwnCalls'
BY StepKinds, CallAtOwn, PollAtOwn, FinishAtOwn, ReturnAtOwn, EventAtOwn DEF Rests

-----------------------------------------------------------------------------
(* Who waits, and who has a sender.                                        *)

\* And what is new in it is the event just taken.
LEMMA JustRecorded ==
    ASSUME IInv, NEW e, IsEvent(e), history' = Append(history, e)
    PROVE  \E i \in DOMAIN history' : history'[i] = e
BY Recorded DEF IInv, TypeOK

\* A result without a value stays in the history.
LEMMA StaysValued ==
    ASSUME IInv, AnyStep, Valued'
    PROVE  /\ Valued
           /\ \A e : history' = Append(history, e) /\ IsEvent(e) =>
                 ~(e.type \in Resolved /\ e.value = None)
BY HistoryGrows, JustRecorded DEF Valued

\* Whoever is to blame stays so.
LEMMA StaysBlameless ==
    ASSUME IInv, AnyStep, Blameless'
    PROVE  /\ Blameless
           /\ \A e : history' = Append(history, e) /\ IsEvent(e) => e.type # "TaskFailed"
<1>1. budget > 0
  <2>1. budget' \in {budget, budget - 1} \/ budget' = budget
    <3>1. ASSUME NEW e, process_event(e) PROVE budget' = budget
      BY <3>1 DEF process_event, ExecutionStarted, ExecutionCompleted, ExecutionTerminated,
                IgnoredEvent, TaskScheduled, TimerCreated, SubOrchestrationInstanceCreated,
                Acknowledge, TaskCompleted, TimerFired, TaskFailed,
                SubOrchestrationInstanceCompleted, SubOrchestrationInstanceFailed,
                UnblockAndPoll, Unblock, EventRaised
    <3>2. CASE TaskReady \/ TaskForsaken \/ TaskPanics
      BY <3>2 DEF TaskReady, TaskForsaken, TaskPanics, Spend
    <3>3. CASE ~(TaskReady \/ TaskForsaken \/ TaskPanics) /\ (Execute \/ get_actions)
      BY <3>3 DEF Execute, Poll, create_timer, call_activity, call_sub_orchestrator, Schedule,
           await_signal_event, TaskPending, TaskIgnored, PolledAgain, FinishStep, Block, Complete,
           ReturnAtOnce, ReturnIgnored, DrainTask, DrainWaiter, NextEvent, get_actions
    <3> QED BY <3>1, <3>2, <3>3 DEF AnyStep
  <2>2. budget' > 0 /\ budget \in Nat
    BY BudgetAssumption DEF IInv, TypeOK, BudgetOK, Blameless
  <2> QED BY <2>1, <2>2
<1>2. AllGiven'
  BY DEF Blameless
<1>3. Valued
  BY <1>2, StaysValued DEF AllGiven
<1>4. \A i \in DOMAIN history : history[i].type # "TaskFailed"
  BY <1>2, HistoryGrows DEF AllGiven
<1>5. \A e : history' = Append(history, e) /\ IsEvent(e) => e.type # "TaskFailed"
  BY <1>2, JustRecorded DEF AllGiven
<1> QED BY <1>1, <1>3, <1>4, <1>5 DEF Blameless, AllGiven

\* Nobody's sender is dropped who goes on waiting.
LEMMA NoneForsakenStep ==
    ASSUME SInv, AtOwnCalls, NoneForsaken, AnyStep, Valued'
    PROVE  NoneForsaken'
<1>0. /\ IInv /\ Len(calls) \in Nat /\ Handles = 1 .. Len(calls) /\ DOMAIN tasks = Handles
      /\ Polling => (pc = "first" => fn = "none") /\ (pc # "first" => fn = "pending")
  BY PositionTypes
<1>1. CASE Calls
  <2>1. UNCHANGED fn /\ pc' \in {pc, "panicked"}
    BY <1>0, <1>1, CallMade
  <2>2. CASE UNCHANGED <<calls, tasks>>
    BY <1>0, <2>1, <2>2 DEF NoneForsaken
  <2>3. CASE /\ DOMAIN tasks' = 1 .. Len(calls) + 1
             /\ \A h \in Handles : tasks'[h] = tasks[h]
             /\ tasks'[Len(calls) + 1].rx = "waiting"
             /\ \/ tasks'[Len(calls) + 1].tx = "held"
                \/ tasks'[Len(calls) + 1].completed
    <3>1. \A h \in DOMAIN tasks' : h \in Handles \/ h = Len(calls) + 1
      BY <1>0, <2>3
    <3> QED BY <1>0, <2>1, <2>3, <3>1 DEF NoneForsaken, Forsaken
  <2> QED BY <1>0, <1>1, <2>2, <2>3, CallMade
<1>2. CASE (TaskReady \/ FinishStep \/ Rests \/ Drains) /\ ~ReturnAtOnce
  <2>0. TaskReady \/ FinishStep \/ Rests => Polling
    BY DEF TaskReady, FinishStep, Rests, TaskPending, TaskForsaken, TaskIgnored, TaskPanics,
           PolledAgain, Block, Complete, ReturnIgnored, Awaited, AtTask, InStep, AtStepEnd,
           AtReturn
  <2>1. \/ fn = "pending" \/ pc = "first"
        \/ ~(fn' = "pending" \/ pc' = "first")
    <3>1. CASE Drains
      BY <3>1 DEF Drains, DrainTask, DrainWaiter, NextEvent, get_actions, future, Goto
    <3> QED BY <1>0, <1>2, <2>0, <3>1
  <2>2. /\ DOMAIN tasks' = Handles
        /\ \A h \in Handles :
              /\ tasks'[h].completed = tasks[h].completed
              /\ tasks'[h].tx = tasks[h].tx
              /\ tasks'[h].rx = "failed" => tasks[h].rx = "failed" \/ Forsaken(tasks[h])
              /\ Unfinished(tasks'[h]) => Unfinished(tasks[h])
    BY <1>0, <1>2, PollFutures
  <2>3. ASSUME NEW h \in Handles PROVE tasks'[h].rx # "failed"
    <3>1. CASE Polling
      <4>1. ~Forsaken(tasks[h])
        BY <1>0, <3>1 DEF NoneForsaken
      <4> QED BY <1>0, <2>2, <4>1 DEF NoneForsaken
    <3>2. CASE ~Polling
      <4>1. Drains
        BY <1>2, <2>0, <3>2
      <4>2. tasks' = tasks
        BY <4>1 DEF Drains, DrainTask, DrainWaiter, NextEvent, get_actions, called
      <4> QED BY <1>0, <4>2 DEF NoneForsaken
    <3> QED BY <3>1, <3>2
  <2>4. ASSUME NEW h \in Handles, Forsaken(tasks'[h]) PROVE Forsaken(tasks[h])
    <3>1. tasks[h].rx # "failed"
      BY <1>0 DEF NoneForsaken
    <3> QED BY <2>2, <2>4, <3>1 DEF Forsaken, Unfinished
  <2> QED BY <1>0, <2>1, <2>2, <2>3, <2>4 DEF NoneForsaken
<1>3. CASE ReturnAtOnce
  <2>1. fn' = fn /\ pc = "first" /\ pc' = "drain" /\ Polling
    BY <1>3 DEF ReturnAtOnce, future, Goto, AtReturn
  <2>2. /\ DOMAIN tasks' = Handles
        /\ \A h \in Handles :
              tasks'[h].rx = "failed" => tasks[h].rx = "failed" \/ Forsaken(tasks[h])
    BY <1>0, <1>3, PollFutures
  <2> QED BY <1>0, <2>1, <2>2 DEF NoneForsaken
<1>4. ASSUME NEW e, IsEvent(e), StartsOnce(e), process_event(e) PROVE NoneForsaken'
  <2>1. SameTasks /\ UNCHANGED <<fn, calls>> /\ history' = Append(history, e) /\ pc = "event"
    BY <1>0, <1>4, EventTasks, EventControl, EventTaken
  <2>2. DOMAIN tasks' = Handles
    <3>1. Len(tasks') = Len(calls) /\ tasks' \in Seq(Task)
      BY <1>0, <2>1 DEF SameTasks, IInv, TypeOK, CallsOK
    <3> QED BY <1>0, <3>1, LenProperties
  <2>3. ~(e.type \in Resolved /\ e.value = None)
    BY <1>0, <1>4, <2>1, StaysValued
  <2>4. \A h \in Handles :
           /\ tasks'[h].rx = tasks[h].rx
           /\ \/ tasks'[h].tx = tasks[h].tx
              \/ tasks'[h].tx = "sent"
              \/ tasks[h].rx = "dropped"
    BY <1>0, <1>4, <2>3, EventFutures
  <2>5. CASE pc' = "first"
    <3>1. e.type = "ExecutionStarted"
      BY <1>4, <2>5, <2>1 DEF process_event, ExecutionStarted, ExecutionCompleted,
                  ExecutionTerminated, IgnoredEvent, TaskScheduled, TimerCreated,
                  SubOrchestrationInstanceCreated, Acknowledge, TaskCompleted, TimerFired,
                  TaskFailed, SubOrchestrationInstanceCompleted,
                  SubOrchestrationInstanceFailed, UnblockAndPoll, EventRaised, ThenPoll, Goto, Panic
    <3>2. calls = <<>>
      BY <1>4, <3>1 DEF StartsOnce, SInv, OnceStarted
    <3>3. Handles = {}
      BY <1>0, <3>2
    <3> QED BY <2>2, <3>3 DEF NoneForsaken
  <2>6. CASE pc' # "first"
    <3>1. \A h \in Handles : tasks'[h].completed = tasks[h].completed
      BY <1>0, <2>1 DEF SameTasks
    <3>2. \A h \in Handles : Forsaken(tasks'[h]) => Forsaken(tasks[h])
      BY <2>4, <3>1 DEF Forsaken
    <3> QED BY <1>0, <2>1, <2>2, <2>4, <2>6, <3>2 DEF NoneForsaken
  <2> QED BY <2>5, <2>6
<1> QED BY <1>1, <1>2, <1>3, <1>4, StepKinds

\* Nor is anything polled again.
LEMMA PolledOnceStep ==
    ASSUME SInv, AtOwnCalls, NoneForsaken, AnyStep, panic # "polled again"
    PROVE  panic' # "polled again"
<1>0. Handles = 1 .. Len(calls) /\ DOMAIN tasks = Handles /\ Len(calls) \in Nat
      /\ op \in Nat /\ op >= 1 /\ base \in 0 .. Len(calls)
  BY PositionTypes
<1>1. ~PolledAgain
  <2> SUFFICES ASSUME Awaited, NEW g, g = ThisCall PROVE tasks[g].rx # "failed"
    BY DEF PolledAgain
  <2>1. g = base + op /\ g <= Len(calls)
    BY DEF Awaited, AtTask, InStep, ThisCall
  <2>2. g \in Handles
    BY ONLY <1>0, <2>1
  <2> QED BY <1>0, <2>2 DEF NoneForsaken
<1>2. CASE Execute \/ get_actions
  BY <1>1, <1>2 DEF Execute, Poll, create_timer, call_activity, call_sub_orchestrator, Schedule,
           await_signal_event, TaskReady, TaskPending, TaskForsaken, TaskIgnored, TaskPanics,
           FinishStep, Block, Complete, ReturnAtOnce, ReturnIgnored, DrainTask, DrainWaiter,
           NextEvent, get_actions, Goto, Panic
<1>3. ASSUME NEW e, IsEvent(e), process_event(e) PROVE panic' # "polled again"
  BY <1>3, EventControl
<1> QED BY <1>2, <1>3 DEF AnyStep

\* A task that is polled in vain has a sender, as long as there is budget.
LEMMA PolledInVain ==
    ASSUME SInv, AtOwnCalls, budget > 0, TaskPending,
           NEW h, h = ThisCall, tasks[h].rx = "waiting"
    PROVE  tasks[h].tx = "held"
<1>1. /\ Handles = 1 .. Len(calls) /\ DOMAIN tasks = Handles /\ Len(calls) \in Nat
      /\ base \in 0 .. Len(calls) /\ op \in Nat /\ op >= 1
      /\ \A i \in Handles : tasks[i] \in Task
      /\ Polling => (pc = "first" => fn = "none") /\ (pc # "first" => fn = "pending")
  BY PositionTypes
<1>2. Polling /\ base + op <= Len(calls) /\ h = base + op
  BY DEF TaskPending, Awaited, AtTask, InStep, ThisCall
<1>3. h \in Handles
  BY <1>1, <1>2
<1>4. ~HasMessage(tasks[h]) /\ ~Forsaken(tasks[h])
  BY DEF TaskPending, Allowed
<1>5. ~tasks[h].completed /\ tasks[h].tx # "sent"
  BY <1>4 DEF HasMessage
<1>6. tasks[h].tx # "dropped"
  BY <1>4, <1>5 DEF Forsaken
<1> QED BY <1>1, <1>3, <1>5, <1>6 DEF Task

\* What a poll has passed over, it has passed over with a sender.
LEMMA PassedStep ==
    ASSUME SInv, AtOwnCalls, AtOwnCalls', NoneForsaken, PassedHeld, AnyStep, Blameless',
           Polling', step' <= Len(Body'), ~Decided',
           NEW h \in DOMAIN tasks', h < base' + op', tasks'[h].rx = "waiting"
    PROVE  tasks'[h].tx = "held"
<1>0. /\ IInv /\ Len(calls) \in Nat /\ Handles = 1 .. Len(calls) /\ DOMAIN tasks = Handles
      /\ op \in Nat /\ op >= 1 /\ base \in 0 .. Len(calls) /\ step \in Nat
      /\ Polling => (pc = "first" => fn = "none") /\ (pc # "first" => fn = "pending")
  BY PositionTypes
<1>2. budget > 0
  BY <1>0, StaysBlameless DEF Blameless
<1>3. CASE Calls
  <2>1. /\ Uncalled /\ UNCHANGED <<name, step, op, base>>
    BY <1>0, <1>3, CallMade
  <2>2. Polling /\ step <= Len(Body) /\ ~Decided
    BY <1>3, <2>1, CallAtOwn DEF Uncalled, InStep
  <2>3. base + op <= Len(calls) + 1
    BY <2>2 DEF AtOwnCalls
  <2>4. h \in Handles /\ tasks'[h] = tasks[h]
    <3>1. h < Len(calls) + 1
      <4>1. h < base + op
        BY <2>1
      <4>2. DOMAIN tasks' = Handles \/ DOMAIN tasks' = 1 .. Len(calls) + 1
        BY <1>0, <1>3, CallMade
      <4> QED BY <1>0, <2>3, <4>1, <4>2
    <3>2. h \in Handles
      <4>1. DOMAIN tasks' = Handles \/ DOMAIN tasks' = 1 .. Len(calls) + 1
        BY <1>0, <1>3, CallMade
      <4> QED BY <1>0, <3>1, <4>1
    <3> QED BY <1>0, <1>3, <3>2, CallMade
  <2> QED BY <1>0, <2>1, <2>2, <2>4 DEF PassedHeld
<1>4. CASE TaskReady \/ TaskPending \/ TaskForsaken \/ TaskIgnored \/ TaskPanics \/ PolledAgain
  <2>1. /\ AtTask /\ UNCHANGED <<name, step, base>>
    BY <1>4 DEF TaskReady, TaskPending, TaskForsaken, TaskIgnored, TaskPanics, PolledAgain,
       Awaited, future
  <2>2. Polling /\ step <= Len(Body) /\ ~Decided /\ ThisCall = base + op
    BY <1>4, <2>1, PollAtOwn DEF AtTask, InStep, ThisCall
  <2>3. /\ h \in Handles /\ Unfinished(tasks[h]) /\ tasks'[h].tx = tasks[h].tx
        /\ tasks[h].rx = "waiting"
    <3>1. ~ReturnAtOnce
      <4>1. Len(Body) \in Nat
        BY <2>2, PositionTypes, KnownBody
      <4> QED BY <1>0, <2>2, <4>1 DEF ReturnAtOnce, AtReturn
    <3>2. h \in Handles /\ Unfinished(tasks[h]) /\ tasks'[h].tx = tasks[h].tx
      BY <1>0, <1>4, <3>1, PollFutures DEF Rests, Unfinished
    <3> QED BY <1>0, <3>2 DEF NoneForsaken, Unfinished
  <2>4. CASE h < base + op
    BY <1>0, <2>2, <2>3, <2>4 DEF PassedHeld
  <2>5. CASE ~(h < base + op)
    <3>1. CASE TaskPending
      <4>1. op' = op + 1
        BY <3>1 DEF TaskPending
      <4>2. h = ThisCall
        BY <1>0, <2>1, <2>2, <2>3, <2>5, <4>1
      <4> QED BY <1>2, <2>3, <3>1, <4>2, PolledInVain
    <3>2. CASE TaskReady
      <4>1. Body[step].mode # "any" /\ pc' # "panicked"
        BY <3>2, ReadyTaken DEF Polling
      <4>2. op' = op + 1
        BY <3>2, <4>1 DEF TaskReady, Panic
      <4>3. h = ThisCall
        BY <1>0, <2>1, <2>2, <2>3, <2>5, <4>2
      <4> QED BY <3>2, <4>3, ReadyTaken
    <3>3. CASE TaskIgnored
      BY <2>2, <3>3 DEF TaskIgnored, Decided
    <3>4. CASE TaskPanics
      BY <3>4 DEF TaskPanics, Panic, Polling
    <3>5. CASE PolledAgain
      BY <3>5 DEF PolledAgain, Panic, Polling
    <3>6. CASE TaskForsaken
      <4>1. op' = op + 1 /\ Forsaken(tasks[ThisCall])
        BY <3>6 DEF TaskForsaken
      <4>2. h = ThisCall
        BY <1>0, <2>1, <2>2, <2>3, <2>5, <4>1
      <4> QED BY <1>0, <2>2, <2>3, <4>1, <4>2 DEF NoneForsaken
    <3> QED BY <1>4, <3>1, <3>2, <3>3, <3>4, <3>5, <3>6
  <2> QED BY <2>4, <2>5
<1>5. CASE FinishStep
  <2>1. base' = Len(calls) /\ op' = 1
    BY <1>5 DEF FinishStep
  <2>2. DOMAIN tasks' = Handles
    BY <1>0, <1>5, PollFutures
  <2>3. h <= base'
    BY <1>0, <2>1, <2>2
  <2> QED BY <2>3 DEF AtOwnCalls, Unfinished
<1>6. CASE Block \/ Complete \/ ReturnAtOnce \/ ReturnIgnored \/ Drains
  BY <1>6 DEF Block, Complete, ReturnAtOnce, ReturnIgnored, Drains, DrainTask, DrainWaiter,
         NextEvent, get_actions, Goto, Polling
<1>7. ASSUME NEW e, IsEvent(e), StartsOnce(e), process_event(e) PROVE FALSE
  <2>1. op' = op /\ base' = base /\ pc = "event"
    BY <1>7, EventControl, EventTaken
  <2>2. op = 1
    BY <2>1 DEF AtOwnCalls, Polling
  <2>3. h \in Nat
    <3>1. Len(tasks') = Len(calls) /\ tasks' \in Seq(Task)
      BY <1>0, <1>7, EventTasks DEF SameTasks, IInv, TypeOK, CallsOK
    <3> QED BY <1>0, <3>1, LenProperties
  <2>4. h <= base'
    BY <1>0, <2>1, <2>2, <2>3
  <2> QED BY <2>4 DEF AtOwnCalls, Unfinished
<1> QED BY <1>3, <1>4, <1>5, <1>6, <1>7, StepKinds DEF Rests

\* A poll that is over has passed over all; nothing but a poll gives a value.
LEMMA ParkedStep ==
    ASSUME SInv, AtOwnCalls, PassedHeld, AnyStep, Blameless',
           pc' \in {"event", "drain", "done"}, fn' = "pending",
           NEW h \in DOMAIN tasks', tasks'[h].rx = "waiting"
    PROVE  tasks'[h].tx = "held"
<1>0. /\ IInv /\ Len(calls) \in Nat /\ Handles = 1 .. Len(calls) /\ DOMAIN tasks = Handles
      /\ op \in Nat /\ op >= 1 /\ base \in 0 .. Len(calls) /\ step \in Nat
      /\ Polling => Known /\ (pc = "first" => fn = "none")
  BY PositionTypes
<1>1. CASE Calls \/ TaskReady \/ TaskPending \/ TaskForsaken \/ TaskIgnored \/ TaskPanics
           \/ PolledAgain \/ FinishStep
  <2>1. pc' \in {pc, "panicked"} /\ Polling
    <3>1. CASE Calls
      BY <1>0, <3>1, CallMade DEF Uncalled, InStep
    <3>2. CASE ~Calls
      BY <1>1, <3>2 DEF TaskReady, TaskPending, TaskForsaken, TaskIgnored, TaskPanics,
              PolledAgain, FinishStep, Goto, Panic, Awaited, AtTask, InStep, AtStepEnd
    <3> QED BY <3>1, <3>2
  <2> QED BY <2>1 DEF Polling
<1>2. CASE Block
  <2>1. /\ Polling /\ step <= Len(Body) /\ ~StepDone /\ op > Len(Body[step].ops)
        /\ tasks' = tasks
    BY <1>2 DEF Block, AtStepEnd, called
  <2>2. Len(Body[step].ops) \in Nat /\ Len(calls) <= base + Len(Body[step].ops)
    BY <1>0, <2>1, PositionTypes
  <2>3. h < base + op
    BY <1>0, <2>1, <2>2
  <2>4. ~Decided
    BY <2>1 DEF Decided, StepDone
  <2> QED BY <2>1, <2>3, <2>4 DEF PassedHeld
<1>3. CASE Complete \/ ReturnIgnored \/ ReturnAtOnce
  <2>1. fn' # "pending"
    BY <1>0, <1>3 DEF Complete, ReturnIgnored, ReturnAtOnce, AtReturn, future
  <2> QED BY <2>1
<1>4. CASE Drains
  <2>1. tasks' = tasks /\ fn' = fn /\ pc \in {"event", "drain"}
    BY <1>4 DEF Drains, DrainTask, DrainWaiter, NextEvent, get_actions, called, future
  <2> QED BY <2>1 DEF PassedHeld
<1>5. ASSUME NEW e, IsEvent(e), StartsOnce(e), process_event(e) PROVE tasks'[h].tx = "held"
  <2>1. pc = "event" /\ fn = "pending" /\ history' = Append(history, e) /\ pc' = "drain"
    BY <1>5, EventControl, EventTaken
  <2>2. e.type # "TaskFailed"
    BY <1>0, <1>5, <2>1, StaysBlameless
  <2>3. tasks' = tasks
    BY <1>5, <2>1, <2>2, GivenIsPolled
  <2> QED BY <2>1, <2>3 DEF PassedHeld
<1> QED BY <1>1, <1>2, <1>3, <1>4, <1>5, StepKinds DEF Rests

-----------------------------------------------------------------------------
(* Who is refused.                                                         *)

LEMMA RacedOnce ==
    ASSUME Known, Raced, name' = name, step' \in {step, step + 1}, step \in Nat
    PROVE  Known' /\ Raced'
<1>1. PICK k \in DOMAIN Body : k < step /\ Body[k].mode \in {"any", "none"}
  BY DEF Raced
<1>2. Body' = Body /\ Known' /\ k \in Nat
  BY <1>1, KnownBody DEF Body, Known
<1>3. k < step'
  BY <1>1, <1>2
<1> QED BY <1>1, <1>2, <1>3 DEF Raced

\* A future that still waits is dropped by a race, or with a timer that is not
\* awaited.
LEMMA DroppedStep ==
    ASSUME SInv, AtOwnCalls, DroppedByRace, AnyStep
    PROVE  DroppedByRace'
<1>0. /\ IInv /\ Len(calls) \in Nat /\ Handles = 1 .. Len(calls) /\ DOMAIN tasks = Handles
      /\ \A h \in Handles : tasks[h] \in Task
      /\ base \in 0 .. Len(calls) /\ step \in Nat /\ step >= 1
  BY PositionTypes
<1>1. CASE Calls
  <2>1. UNCHANGED <<name, step>> /\ step \in Nat
    BY <1>0, <1>1, CallMade
  <2>2. ASSUME NEW h \in DOMAIN tasks', tasks'[h].rx = "dropped"
        PROVE  h \in Handles /\ tasks'[h] = tasks[h]
    <3>1. CASE UNCHANGED <<calls, tasks>>
      BY <1>0, <2>2, <3>1
    <3>2. CASE /\ DOMAIN tasks' = 1 .. Len(calls) + 1
               /\ \A i \in Handles : tasks'[i] = tasks[i]
               /\ tasks'[Len(calls) + 1].rx = "waiting"
      <4>1. h \in Handles \/ h = Len(calls) + 1
        BY <1>0, <2>2, <3>2
      <4> QED BY <2>2, <3>2, <4>1
    <3> QED BY <1>0, <1>1, <3>1, <3>2, CallMade
  <2> QED BY <1>0, <2>1, <2>2, RacedOnce DEF DroppedByRace
<1>2. CASE (TaskReady \/ Rests \/ ReturnAtOnce \/ Drains) /\ ~FinishStep
  <2>1. UNCHANGED <<name, step>>
    BY <1>2 DEF TaskReady, Rests, TaskPending, TaskForsaken, TaskIgnored, TaskPanics,
           PolledAgain, Block, Complete, ReturnIgnored, ReturnAtOnce, Drains, DrainTask,
           DrainWaiter, NextEvent, get_actions, future
  <2>2. /\ DOMAIN tasks' = Handles
        /\ \A h \in Handles : tasks'[h].rx = "dropped" => tasks[h].rx = "dropped"
    BY <1>0, <1>2, PollFutures
  <2> QED BY <1>0, <2>1, <2>2, RacedOnce DEF DroppedByRace
<1>3. CASE FinishStep
  <2>1. /\ Polling /\ step <= Len(Body) /\ StepDone /\ name' = name /\ step' = step + 1
        /\ tasks' = [h \in DOMAIN tasks |-> IF h > base THEN DropFuture(tasks[h]) ELSE tasks[h]]
    BY <1>3 DEF FinishStep, AtStepEnd
  <2>2. Known /\ Len(calls) <= base + Len(Body[step].ops) /\ Len(Body[step].ops) \in Nat
    BY <1>0, <2>1, PositionTypes
  <2>3. step \in DOMAIN Body /\ Body[step].mode \in {"all", "any", "none", "never"}
    <3>1. step \in 1 .. Len(Body)
      BY <1>0, <2>1, <2>2, KnownBody
    <3>2. Body[step] \in Step
      BY <2>2, <3>1, KnownBody, ElementOfSeq
    <3> QED BY <2>2, <3>1, <3>2, KnownBody DEF Step
  <2>4. Body' = Body /\ Known'
    BY <2>1, <2>2 DEF Body, Known
  <2>5. CASE Body[step].mode \in {"any", "none"}
    <3>1. step < step'
      BY <1>0, <2>1
    <3>2. Raced'
      BY <2>3, <2>4, <2>5, <3>1 DEF Raced
    <3> QED BY <2>4, <3>2 DEF DroppedByRace
  <2>6. CASE Body[step].mode = "all"
    <3>1. \A h \in StepHandles : IsTaken(h)
      BY <2>1, <2>6 DEF StepDone
    <3>2. ASSUME NEW h \in DOMAIN tasks', tasks'[h].rx = "dropped"
          PROVE  tasks[h].rx = "dropped" /\ h \in Handles
      <4>1. h \in Handles /\ tasks'[h] \in {tasks[h], DropFuture(tasks[h])}
        BY <1>0, <2>1, <3>2
      <4>2. CASE h > base
        <5>1. h \in StepHandles
          BY <1>0, <2>2, <4>1, <4>2 DEF StepHandles
        <5>2. tasks[h].rx = "taken"
          BY <3>1, <5>1 DEF IsTaken
        <5>3. DropFuture(tasks[h]) = tasks[h]
          BY <5>2 DEF DropFuture, Unfinished
        <5> QED BY <3>2, <4>1, <5>2, <5>3
      <4>3. CASE ~(h > base)
        BY <1>0, <2>1, <3>2, <4>1, <4>3
      <4> QED BY <4>2, <4>3
    <3> QED BY <1>0, <2>1, <3>2, RacedOnce DEF DroppedByRace
  <2>7. CASE Body[step].mode = "never"
    BY <2>1, <2>7 DEF StepDone
  <2> QED BY <2>3, <2>5, <2>6, <2>7
<1>4. ASSUME NEW e, IsEvent(e), StartsOnce(e), process_event(e) PROVE DroppedByRace'
  <2>1. UNCHANGED <<step, calls>>
    BY <1>0, <1>4, EventControl, EventTasks
  <2>2. DOMAIN tasks' = Handles
    <3>1. Len(tasks') = Len(calls) /\ tasks' \in Seq(Task)
      BY <1>0, <1>4, EventTasks DEF SameTasks, IInv, TypeOK, CallsOK
    <3> QED BY <1>0, <3>1, LenProperties
  <2>3. \A h \in Handles : tasks'[h].rx = tasks[h].rx
    BY <1>0, <1>4, EventFutures
  <2>4. CASE name' = name
    BY <1>0, <2>1, <2>2, <2>3, <2>4, RacedOnce DEF DroppedByRace
  <2>5. CASE name' # name
    <3>1. e.type = "ExecutionStarted"
      BY <1>4, <2>5 DEF process_event, ExecutionStarted, ExecutionCompleted,
                  ExecutionTerminated, IgnoredEvent, TaskScheduled, TimerCreated,
                  SubOrchestrationInstanceCreated, Acknowledge, TaskCompleted, TimerFired,
                  TaskFailed, SubOrchestrationInstanceCompleted,
                  SubOrchestrationInstanceFailed, UnblockAndPoll, Unblock, EventRaised, future
    <3>2. calls = <<>>
      BY <1>4, <3>1 DEF StartsOnce, SInv, OnceStarted
    <3>3. Handles = {}
      BY <1>0, <3>2
    <3> QED BY <2>2, <3>3 DEF DroppedByRace
  <2> QED BY <2>4, <2>5
<1> QED BY <1>1, <1>2, <1>3, <1>4, StepKinds

\* The executor panics on a refusal only when the future is gone.
LEMMA RefusedStep ==
    ASSUME SInv, AtOwnCalls, DroppedByRace, Stopped, AnyStep
    PROVE  Stopped' /\ RefusalHasCause'
<1>0. panic = "none"
  BY NotPanicked DEF Stopped
<1>1. CASE Execute \/ get_actions
  <2>1. \/ panic' = panic
        \/ pc' = "panicked" /\ panic' \in {"no value", "decode", "polled again"}
    BY <1>1 DEF Execute, Poll, create_timer, call_activity, call_sub_orchestrator, Schedule,
           await_signal_event, TaskReady, TaskPending, TaskForsaken, TaskIgnored, TaskPanics,
           PolledAgain, FinishStep, Block, Complete, ReturnAtOnce, ReturnIgnored, DrainTask,
           DrainWaiter, NextEvent, get_actions, Goto, Panic
  <2> QED BY <1>0, <2>1 DEF Stopped, RefusalHasCause
<1>2. ASSUME NEW e, IsEvent(e), StartsOnce(e), process_event(e)
      PROVE  Stopped' /\ RefusalHasCause'
  <2>1. /\ IInv /\ DOMAIN tasks = Handles /\ step \in Nat
        /\ \A id \in DOMAIN pending_tasks : pending_tasks[id] \in Handles
        /\ \A key \in DOMAIN pending_events :
              /\ pending_events[key] # <<>> /\ pending_events[key] \in Seq(Handles)
              /\ Len(pending_events[key]) \in Nat
              /\ \A i \in DOMAIN pending_events[key] : pending_events[key][i] \in Handles
    BY PositionTypes, HandleTypes
  <2>2. Stopped'
    BY <1>0, <1>2, EventControl DEF Stopped
  <2>3. CASE panic' # "unblock"
    BY <2>2, <2>3 DEF RefusalHasCause
  <2>4. CASE panic' = "unblock"
    <3>1. name' = name /\ step' = step
      BY <1>0, <1>2, <2>4, EventControl
    <3>2. \E h \in Handles : tasks[h].rx = "dropped"
      <4>1. CASE EventRaised(e)
        <5> PICK k : k = to_lowercase(e.name)
          OBVIOUS
        <5>1. k \in DOMAIN pending_events /\ ~Accepts(tasks[Head(pending_events[k])])
          BY <1>0, <2>4, <4>1 DEF EventRaised, ThenPoll, Goto, Panic
        <5>2. Head(pending_events[k]) \in Handles
          <6>1. Len(pending_events[k]) # 0
            BY <2>1, <5>1, EmptySeq
          <6> QED BY <2>1, <5>1, <6>1
        <5> QED BY <5>1, <5>2 DEF Accepts
      <4>2. CASE ~EventRaised(e)
        <5>1. Refused(e)
          BY <1>0, <1>2, <2>4, <4>2 DEF process_event, ExecutionStarted, ExecutionCompleted,
                  ExecutionTerminated, IgnoredEvent, TaskScheduled, TimerCreated,
                  SubOrchestrationInstanceCreated, Acknowledge, TaskCompleted, TimerFired,
                  TaskFailed, SubOrchestrationInstanceCompleted,
                  SubOrchestrationInstanceFailed, UnblockAndPoll, ThenPoll, Goto, Panic
        <5> QED BY <2>1, <5>1 DEF Refused, Accepts
      <4> QED BY <4>1, <4>2
    <3>3. Known /\ Raced
      BY <2>1, <3>2 DEF DroppedByRace
    <3> QED BY <2>1, <2>2, <3>1, <3>3, RacedOnce DEF RefusalHasCause
  <2> QED BY <2>3, <2>4
<1> QED BY <1>1, <1>2 DEF AnyStep

-----------------------------------------------------------------------------
(* The theorems.                                                           *)

\* A body that has not begun has called nothing.
LEMMA InitAtOwn == ASSUME Init PROVE AtOwnCalls
<1>1. /\ calls = <<>> /\ tasks = <<>> /\ step = 1 /\ op = 1 /\ base = 0 /\ pc = "event"
      /\ Len(calls) = 0 /\ ~Polling
  BY DEF Init, Polling
<1>2. ASSUME Known, step <= Len(Body) PROVE Len(calls) <= base + Len(Body[step].ops)
  <2>1. Len(Body[step].ops) \in Nat
    BY <1>1, <1>2, KnownBody
  <2> QED BY <1>1, <2>1
<1> QED BY <1>1, <1>2 DEF AtOwnCalls

THEOREM InitFInv == Init => FInv
<1> SUFFICES ASSUME Init PROVE FInv
  OBVIOUS
<1>1. tasks = <<>> /\ panic = "none"
  BY DEF Init
<1>2. NoneForsaken /\ panic # "polled again"
  BY <1>1 DEF NoneForsaken
<1> QED BY <1>2, InitSInv, InitAtOwn DEF FInv

\* Every action keeps the senders of those who wait, unless a result has no
\* value.
THEOREM StepFInv == FInv /\ (AnyStep \/ UNCHANGED vars) => FInv'
<1> SUFFICES ASSUME FInv, AnyStep \/ UNCHANGED vars PROVE FInv'
  OBVIOUS
<1>1. CASE AnyStep
  <2>1. SInv /\ AtOwnCalls /\ SInv' /\ AtOwnCalls' /\ IInv
    BY <1>1, StepSInv, AtOwnStep DEF FInv, SInv
  <2>2. ASSUME Valued' PROVE NoneForsaken' /\ panic' # "polled again"
    <3>1. NoneForsaken /\ panic # "polled again"
      BY <1>1, <2>1, <2>2, StaysValued DEF FInv
    <3> QED BY <1>1, <2>1, <2>2, <3>1, NoneForsakenStep, PolledOnceStep
  <2> QED BY <2>1, <2>2 DEF FInv
<1>2. CASE UNCHANGED vars
  <2>1. SInv'
    BY <1>2, StepSInv DEF FInv
  <2>2. UNCHANGED <<history, pc, panic, name, step, op, base, fn, calls, tasks, budget>>
    BY <1>2 DEF vars, future, called
  <2>3. /\ UNCHANGED <<Body, Known, StepHandles, Polling, HasStarted>>
        /\ \A h : IsTaken(h)' = IsTaken(h)
    BY <2>2 DEF Body, Known, StepHandles, Polling, HasStarted, IsTaken
  <2>4. Decided' = Decided
    BY <2>2, <2>3 DEF Decided
  <2>5. AtOwnCalls'
    BY <2>2, <2>3, <2>4 DEF FInv, AtOwnCalls
  <2>6. Valued' => NoneForsaken' /\ panic' # "polled again"
    BY <2>2 DEF FInv, Valued, NoneForsaken
  <2> QED BY <2>1, <2>5, <2>6 DEF FInv
<1> QED BY <1>1, <1>2

THEOREM InitWInv == Init => WInv
<1> SUFFICES ASSUME Init PROVE WInv
  OBVIOUS
<1>1. tasks = <<>> /\ pc = "event" /\ fn = "none" /\ ~Polling
  BY DEF Init, Polling
<1>2. PassedHeld
  BY <1>1 DEF PassedHeld
<1> QED BY <1>2, InitFInv DEF WInv

\* Every action keeps what the lost wakeup needs.
THEOREM StepWInv == WInv /\ (AnyStep \/ UNCHANGED vars) => WInv'
<1> SUFFICES ASSUME WInv, AnyStep \/ UNCHANGED vars PROVE WInv'
  OBVIOUS
<1>0. FInv'
  BY StepFInv DEF WInv
<1>1. CASE AnyStep
  <2>1. SInv /\ AtOwnCalls /\ AtOwnCalls' /\ IInv
    BY <1>0 DEF WInv, FInv, SInv
  <2>2. ASSUME Blameless' PROVE PassedHeld'
    <3>1. NoneForsaken /\ PassedHeld
      BY <1>1, <2>1, <2>2, StaysBlameless DEF WInv, FInv, Blameless, AllGiven
    <3>3. ASSUME Polling', step' <= Len(Body'), ~Decided',
                 NEW h \in DOMAIN tasks', h < base' + op', tasks'[h].rx = "waiting"
          PROVE  tasks'[h].tx = "held"
      BY <1>1, <2>1, <2>2, <3>1, <3>3, PassedStep
    <3>4. ASSUME pc' \in {"event", "drain", "done"}, fn' = "pending",
                 NEW h \in DOMAIN tasks', tasks'[h].rx = "waiting"
          PROVE  tasks'[h].tx = "held"
      BY <1>1, <2>1, <2>2, <3>1, <3>4, ParkedStep
    <3> QED BY <3>3, <3>4 DEF PassedHeld
  <2> QED BY <1>0, <2>2 DEF WInv
<1>2. CASE UNCHANGED vars
  <2>1. UNCHANGED <<history, pc, name, step, op, base, fn, calls, tasks, budget>>
    BY <1>2 DEF vars, future, called
  <2>2. /\ UNCHANGED <<Body, StepHandles, Polling>> /\ \A h : IsTaken(h)' = IsTaken(h)
    BY <2>1 DEF Body, StepHandles, Polling, IsTaken
  <2>3. Decided' = Decided
    BY <2>1, <2>2 DEF Decided
  <2>4. Blameless' => PassedHeld'
    BY <2>1, <2>2, <2>3 DEF WInv, Blameless, AllGiven, Valued, PassedHeld
  <2> QED BY <1>0, <2>4 DEF WInv
<1> QED BY <1>1, <1>2

\* The orchestrator's poll panics over a signal without input (types.rs:418), a
\* value that cannot be decoded (types.rs:429) or a result without a value, whose
\* task is polled again after its receiver failed (task.rs:54), and never in a
\* history without any of them.
THEOREM NoCauselessPanic == Spec => []PollPanicHasCause
<1>1. FInv /\ [Next]_vars => FInv'
  BY StepFInv, NextIsAnyStep
<1>2. AInv /\ [Next]_vars => AInv'
  BY StepAInv, NextIsAnyStep
<1>3. FInv /\ AInv => PollPanicHasCause
  BY DEF FInv, AInv, PollPanicHasCause
<1> QED BY InitFInv, InitAInv, <1>1, <1>2, <1>3, PTL DEF Spec

\* Whatever the history: the orchestrator is at its own calls and, when nobody
\* is to blame, nobody waits who will not be answered.
THEOREM WakeupInvariance == Spec => []WInv
<1>1. WInv /\ [Next]_vars => WInv'
  BY StepWInv, NextIsAnyStep
<1> QED BY InitWInv, <1>1, PTL DEF Spec

\* Who is parked was passed over.
LEMMA ParkedHeld == ASSUME WInv PROVE LostWakeupHasCause
BY DEF WInv, FInv, NoneForsaken, PassedHeld, LostWakeupHasCause, NoLostWakeup,
       Blameless, AllGiven, Unfinished

\* An orchestrator that waits between two events (executor.rs:357) waits for
\* tasks whose senders are held, or a failed task, a result without a value or
\* tokio's budget is to blame.
THEOREM LostForCause == Spec => []LostWakeupHasCause
<1>1. WInv => LostWakeupHasCause
  BY ParkedHeld
<1> QED BY WakeupInvariance, <1>1, PTL

THEOREM InitRInv == Init => RInv
<1> SUFFICES ASSUME Init PROVE RInv
  OBVIOUS
<1>1. tasks = <<>> /\ panic = "none"
  BY DEF Init
<1>2. DroppedByRace /\ Stopped /\ RefusalHasCause
  BY <1>1 DEF DroppedByRace, Stopped, RefusalHasCause
<1> QED BY <1>2, InitSInv, InitAtOwn DEF RInv

\* Every action keeps what the refusal needs.
THEOREM StepRInv == RInv /\ (AnyStep \/ UNCHANGED vars) => RInv'
<1> SUFFICES ASSUME RInv, AnyStep \/ UNCHANGED vars PROVE RInv'
  OBVIOUS
<1>1. CASE AnyStep
  BY <1>1, StepSInv, AtOwnStep, DroppedStep, RefusedStep DEF RInv
<1>2. CASE UNCHANGED vars
  <2>1. SInv'
    BY <1>2, StepSInv DEF RInv
  <2>2. UNCHANGED <<history, pc, panic, name, step, op, base, fn, calls, tasks>>
    BY <1>2 DEF vars, future, called
  <2>3. /\ UNCHANGED <<Body, Known, StepHandles, Polling, HasStarted>>
        /\ \A h : IsTaken(h)' = IsTaken(h)
    BY <2>2 DEF Body, Known, StepHandles, Polling, HasStarted, IsTaken
  <2>4. Decided' = Decided /\ Raced' = Raced
    BY <2>2, <2>3 DEF Decided, Raced
  <2>5. AtOwnCalls'
    BY <2>2, <2>3, <2>4 DEF RInv, AtOwnCalls
  <2>6. DroppedByRace' /\ Stopped' /\ RefusalHasCause'
    BY <2>2, <2>3, <2>4 DEF RInv, DroppedByRace, Stopped, RefusalHasCause
  <2> QED BY <2>1, <2>5, <2>6 DEF RInv
<1> QED BY <1>1, <1>2

\* Whatever the history, a future is dropped only by a race.
THEOREM RefusalInvariance == Spec => []RInv
<1>1. RInv /\ [Next]_vars => RInv'
  BY StepRInv, NextIsAnyStep
<1> QED BY InitRInv, <1>1, PTL DEF Spec

\* "failed to unblock ..." (executor.rs:306 and its siblings) needs an
\* orchestrator that has left a race, or a timer it does not await, behind it.
THEOREM RefusedForCause == Spec => []RefusalHasCause
<1>1. RInv => RefusalHasCause
  BY DEF RInv
<1> QED BY RefusalInvariance, <1>1, PTL
-----------------------------------------------------------------------------
(* Tokio's budget.                                                         *)

\* One event sends one value at most.
LEMMA EventSendsOne ==
    ASSUME IInv, NEW e, IsEvent(e), process_event(e)
    PROVE  \E g : \A h \in Handles : tasks'[h].tx = "sent" => tasks[h].tx = "sent" \/ h = g
<1>0. DOMAIN tasks = Handles /\ \A h \in Handles : tasks[h] \in Task
  BY HandleTypes
<1>1. CASE tasks' = tasks
  BY <1>1
<1>2. CASE Unblock(e) /\ tasks' # tasks
  <2> PICK g : g = pending_tasks[e.id]
    OBVIOUS
  <2>1. \E t : tasks' = [tasks EXCEPT ![g] = t]
    BY <1>2 DEF Unblock
  <2> QED BY <1>0, <2>1
<1>3. CASE EventRaised(e) /\ tasks' # tasks
  <2> PICK g : g = Head(pending_events[to_lowercase(e.name)])
    OBVIOUS
  <2>1. \E t : tasks' = [tasks EXCEPT ![g] = t]
    BY <1>3 DEF EventRaised
  <2> QED BY <1>0, <2>1
<1> QED BY <1>1, <1>2, <1>3
        DEF process_event, ExecutionStarted, ExecutionCompleted, ExecutionTerminated,
            IgnoredEvent, TaskScheduled, TimerCreated, SubOrchestrationInstanceCreated,
            Acknowledge, TaskCompleted, TimerFired, TaskFailed,
            SubOrchestrationInstanceCompleted, SubOrchestrationInstanceFailed,
            UnblockAndPoll, called

LEMMA SentByEvents ==
    ASSUME SInv, AnyStep, Cardinality(SentTasks) <= Len(history)
    PROVE  Cardinality(SentTasks') <= Len(history')
<1>0. /\ IInv /\ HistoryOK /\ Len(history) \in Nat /\ Len(calls) \in Nat /\ Handles = 1 .. Len(calls)
      /\ DOMAIN tasks = Handles /\ IsFiniteSet(Handles)
  BY HandleTypes, LenProperties, FS_Interval DEF SInv, IInv, TypeOK, HistoryOK, CallsOK
<1>1. IsFiniteSet(SentTasks) /\ Cardinality(SentTasks) \in Nat
  <2>1. SentTasks \subseteq Handles
    BY <1>0 DEF SentTasks
  <2> QED BY <1>0, <2>1, FS_Subset, FS_CardinalityType
<1>2. ASSUME NEW e, IsEvent(e), process_event(e) PROVE Cardinality(SentTasks') <= Len(history')
  <2>1. Len(history') = Len(history) + 1
    BY <1>0, <1>2, EventTaken, AppendProperties DEF HistoryOK
  <2>2. PICK g : \A h \in Handles : tasks'[h].tx = "sent" => tasks[h].tx = "sent" \/ h = g
    BY <1>0, <1>2, EventSendsOne
  <2>3. SentTasks' \subseteq SentTasks \cup {g}
    <3>1. DOMAIN tasks' = Handles
      <4>1. tasks' \in Seq(Task) /\ Len(tasks') = Len(calls)
        BY <1>0, <1>2, EventTasks DEF SameTasks, IInv, TypeOK, CallsOK
      <4> QED BY <1>0, <4>1, LenProperties
    <3> QED BY <1>0, <2>2, <3>1 DEF SentTasks
  <2>4. /\ IsFiniteSet(SentTasks \cup {g})
        /\ Cardinality(SentTasks \cup {g}) <= Cardinality(SentTasks) + 1
    <3>1. ASSUME NEW S, IsFiniteSet(S), Cardinality(S) \in Nat
          PROVE  IsFiniteSet(S \cup {g}) /\ Cardinality(S \cup {g}) <= Cardinality(S) + 1
      <4>1. CASE g \in S
        <5>1. S \cup {g} = S
          BY <4>1
        <5>2. Cardinality(S) <= Cardinality(S) + 1
          BY ONLY <3>1
        <5> QED BY ONLY <5>1, <5>2, <3>1
      <4>2. CASE g \notin S
        <5>1. IsFiniteSet(S \cup {g}) /\ Cardinality(S \cup {g}) = Cardinality(S) + 1
          BY <3>1, <4>2, FS_AddElement
        <5> QED BY ONLY <3>1, <5>1
      <4> QED BY <4>1, <4>2
    <3> QED BY <1>1, <3>1
  <2>5. Cardinality(SentTasks') <= Cardinality(SentTasks \cup {g}) /\ IsFiniteSet(SentTasks')
    BY <2>3, <2>4, FS_Subset
  <2>6. Cardinality(SentTasks') \in Nat /\ Cardinality(SentTasks \cup {g}) \in Nat
    BY <2>4, <2>5, FS_CardinalityType
  <2> QED BY <1>0, <1>1, <2>1, <2>4, <2>5, <2>6
<1>3. CASE Execute \/ get_actions
  <2>1. history' = history
    BY <1>3, EventOrNone
  <2>2. SentTasks' \subseteq SentTasks
    <3>1. CASE Calls
      <4>1. \/ SameTasks /\ UNCHANGED calls
            \/ \E call \in Call, task \in Task : NewCall(call, task) /\ task.tx # "sent"
        BY <1>0, CallCases
      <4>2. CASE UNCHANGED <<calls, tasks>>
        BY <4>2 DEF SentTasks
      <4>3. CASE ~UNCHANGED <<calls, tasks>>
        <5>1. /\ Len(calls') = Len(calls) + 1 /\ DOMAIN tasks' = 1 .. Len(calls) + 1
              /\ \A h \in Handles : tasks'[h] = tasks[h]
          BY <1>0, <3>1, <4>3, CallMade
        <5>2. PICK call \in Call, task \in Task : NewCall(call, task) /\ task.tx # "sent"
          BY <1>0, <4>1, <5>1
        <5>3. tasks'[Len(calls) + 1] = task
          BY <1>0, <5>2, NewCallOK DEF IInv, TypeOK
        <5>4. \A h \in 1 .. Len(calls) + 1 : h \in Handles \/ h = Len(calls) + 1
          BY <1>0
        <5> QED BY <1>0, <5>1, <5>2, <5>3, <5>4 DEF SentTasks
      <4> QED BY <4>2, <4>3
    <3>2. CASE ReturnAtOnce
      <4>1. tasks' = [h \in DOMAIN tasks |-> DropSender(tasks[h])]
        BY <3>2 DEF ReturnAtOnce
      <4> QED BY <4>1 DEF SentTasks, DropSender
    <3>3. CASE TaskReady \/ FinishStep \/ (Rests /\ ~ReturnAtOnce) \/ (Drains /\ ~ReturnAtOnce)
      <4>1. DOMAIN tasks' = Handles /\ (~ReturnAtOnce => \A h \in Handles : tasks'[h].tx = tasks[h].tx)
        BY <1>0, <3>3, PollFutures
      <4>2. CASE ~ReturnAtOnce
        BY <1>0, <4>1, <4>2 DEF SentTasks
      <4> QED BY <3>2, <4>2
    <3>4. Calls \/ ReturnAtOnce \/ TaskReady \/ FinishStep \/ Rests \/ Drains
      BY <1>3 DEF Execute, Poll, Calls, Rests, Drains
    <3> QED BY <3>1, <3>2, <3>3, <3>4
  <2>3. Cardinality(SentTasks') <= Cardinality(SentTasks) /\ IsFiniteSet(SentTasks')
    BY <1>1, <2>2, FS_Subset
  <2>4. Cardinality(SentTasks') \in Nat
    BY <2>3, FS_CardinalityType
  <2> QED BY <1>0, <1>1, <2>1, <2>3, <2>4
<1> QED BY <1>2, <1>3 DEF AnyStep

\* What was received stays so, and what else the budget is spent on is received
\* by that.
LEMMA BudgetReceived ==
    ASSUME SInv, AtOwnCalls, NoneForsaken, budget > 0, AnyStep, pc' # "panicked",
           budget + Cardinality(ReceivedTasks) >= Budget
    PROVE  budget' + Cardinality(ReceivedTasks') >= Budget
<1>0. /\ IInv /\ Len(calls) \in Nat /\ Handles = 1 .. Len(calls)
      /\ DOMAIN tasks = Handles /\ IsFiniteSet(Handles)
      /\ \A h \in Handles : tasks[h] \in Task
      /\ budget \in Nat /\ Budget \in Nat
  <2>1. IInv /\ Len(calls) \in Nat /\ Handles = 1 .. Len(calls)
    BY LenProperties DEF SInv, IInv, TypeOK, CallsOK, Handles
  <2>2. DOMAIN tasks = Handles /\ \A h \in Handles : tasks[h] \in Task
    BY <2>1, HandleTypes
  <2>3. budget \in Nat /\ Budget \in Nat
    BY <2>1, BudgetAssumption DEF IInv, TypeOK, BudgetOK
  <2>4. IsFiniteSet(Handles)
    BY <2>1, FS_Interval
  <2> QED BY <2>1, <2>2, <2>3, <2>4
<1>1. IsFiniteSet(ReceivedTasks) /\ Cardinality(ReceivedTasks) \in Nat
  <2>1. ReceivedTasks \subseteq Handles
    BY <1>0 DEF ReceivedTasks, SentTasks
  <2> QED BY <1>0, <2>1, FS_Subset, FS_CardinalityType
<1>2. IsFiniteSet(ReceivedTasks') /\ Cardinality(ReceivedTasks') \in Nat
  <2>1. SInv'
    BY StepSInv
  <2>2. Len(calls') \in Nat /\ DOMAIN tasks' = 1 .. Len(calls')
    BY <2>1, LenProperties DEF SInv, IInv, TypeOK, CallsOK
  <2>3. IsFiniteSet(1 .. Len(calls')) /\ ReceivedTasks' \subseteq 1 .. Len(calls')
    BY <2>2, FS_Interval DEF ReceivedTasks, SentTasks
  <2> QED BY <2>3, FS_Subset, FS_CardinalityType
<1>3. ReceivedTasks \subseteq ReceivedTasks'
  <2> SUFFICES ASSUME NEW h \in Handles, tasks[h].tx = "sent", tasks[h].rx # "waiting"
               PROVE  h \in DOMAIN tasks' /\ tasks'[h].tx = "sent" /\ tasks'[h].rx # "waiting"
    BY <1>0 DEF ReceivedTasks, SentTasks
  <2>1. h \in DOMAIN tasks' /\ tasks'[h].tx = "sent"
    BY <1>0, SenderStep DEF TaskStays
  <2>2. ASSUME Calls PROVE tasks'[h].rx = tasks[h].rx
    BY <1>0, <2>2, CallMade
  <2>3. ASSUME TaskReady \/ FinishStep \/ Rests \/ ReturnAtOnce \/ Drains
        PROVE  tasks'[h].rx \in {tasks[h].rx, "failed", "taken", "dropped"}
    BY <1>0, <2>3, PollFutures
  <2>4. ASSUME NEW e, IsEvent(e), process_event(e) PROVE tasks'[h].rx = tasks[h].rx
    BY <1>0, <2>4, EventFutures
  <2> QED BY <2>1, <2>2, <2>3, <2>4, StepKinds
<1>4. Cardinality(ReceivedTasks) <= Cardinality(ReceivedTasks')
  BY <1>2, <1>3, FS_Subset
<1>5. CASE budget' = budget
  BY <1>0, <1>1, <1>2, <1>4, <1>5
<1>6. CASE TaskReady
  <2> PICK g : g = ThisCall
    OBVIOUS
  <2>1. /\ g \in Handles /\ tasks'[g].rx = "taken"
    BY <1>6, ReadyTaken
  <2>2. /\ IsReady(tasks[g])
        /\ budget' = IF Receives(tasks[g]) /\ budget > 0 THEN budget - 1 ELSE budget
    BY <1>6 DEF TaskReady, Spend
  <2>3. CASE Receives(tasks[g])
    <3>1. tasks[g].tx = "sent" /\ tasks[g].rx = "waiting"
      BY <2>2, <2>3 DEF Receives, IsReady, HasMessage
    <3>2. tasks'[g].tx = "sent" /\ g \in DOMAIN tasks'
      BY <1>0, <2>1, <3>1, SenderStep DEF TaskStays
    <3>3. g \in ReceivedTasks' /\ g \notin ReceivedTasks
      BY <2>1, <3>1, <3>2 DEF ReceivedTasks, SentTasks
    <3>4. /\ IsFiniteSet(ReceivedTasks \cup {g})
          /\ Cardinality(ReceivedTasks \cup {g}) = Cardinality(ReceivedTasks) + 1
      BY <1>1, <3>3, FS_AddElement
    <3>5. ReceivedTasks \cup {g} \subseteq ReceivedTasks'
      BY <1>3, <3>3
    <3>6. Cardinality(ReceivedTasks) + 1 <= Cardinality(ReceivedTasks')
      BY <1>2, <3>4, <3>5, FS_Subset
    <3>7. budget' = budget - 1
      BY <2>2, <2>3
    <3> QED BY <1>0, <1>1, <1>2, <3>6, <3>7
  <2>4. CASE ~Receives(tasks[g])
    BY <1>5, <2>2, <2>4
  <2> QED BY <2>3, <2>4
<1>7. CASE ~TaskReady
  <2>1. ~TaskPanics
    BY DEF TaskPanics, Panic
  <2>2. ~TaskForsaken
    <3> SUFFICES ASSUME Awaited, NEW g, g = ThisCall PROVE ~Forsaken(tasks[g])
      BY DEF TaskForsaken
    <3>1. /\ op \in Nat /\ op >= 1 /\ base \in 0 .. Len(calls)
          /\ Polling => (pc = "first" => fn = "none") /\ (pc # "first" => fn = "pending")
      BY PositionTypes
    <3>2. Polling /\ g = base + op /\ g <= Len(calls)
      BY DEF Awaited, AtTask, InStep, ThisCall
    <3>3. g \in Handles
      BY <1>0, <3>1, <3>2
    <3> QED BY <1>0, <3>1, <3>2, <3>3 DEF NoneForsaken
  <2>3. budget' = budget
    BY <1>7, <2>1, <2>2 DEF AnyStep, Execute, Poll, create_timer, call_activity,
       call_sub_orchestrator, Schedule, await_signal_event, TaskPending, TaskIgnored, PolledAgain,
       FinishStep, Block, Complete, ReturnAtOnce, ReturnIgnored, DrainTask, DrainWaiter,
       NextEvent, get_actions, process_event, ExecutionStarted, ExecutionCompleted,
       ExecutionTerminated, IgnoredEvent, TaskScheduled, TimerCreated,
       SubOrchestrationInstanceCreated, Acknowledge, TaskCompleted, TimerFired, TaskFailed,
       SubOrchestrationInstanceCompleted, SubOrchestrationInstanceFailed,
       UnblockAndPoll, Unblock, EventRaised
  <2> QED BY <1>5, <2>3
<1> QED BY <1>6, <1>7

\* What is on the way is never too much.
LEMMA BudgetLeft ==
    ASSUME SInv, SpendInv, Len(history) <= MaxEvents, MaxEvents < Budget, pc # "panicked"
    PROVE  budget > 0
<1>1. /\ IsFiniteSet(Handles) /\ DOMAIN tasks = Handles
      /\ Len(history) \in Nat /\ budget \in Nat
  <2>1. Len(calls) \in Nat /\ Handles = 1 .. Len(calls) /\ Len(history) \in Nat /\ IInv
    BY LenProperties DEF SInv, IInv, TypeOK, CallsOK, HistoryOK, Handles
  <2>2. DOMAIN tasks = Handles
    BY <2>1, HandleTypes
  <2>3. IsFiniteSet(Handles)
    BY <2>1, FS_Interval
  <2>4. budget \in Nat
    BY <2>1, BudgetAssumption DEF IInv, TypeOK, BudgetOK
  <2> QED BY <2>1, <2>2, <2>3, <2>4
<1>2. SentTasks \subseteq Handles /\ ReceivedTasks \subseteq SentTasks
  BY <1>1 DEF SentTasks, ReceivedTasks
<1>3. IsFiniteSet(SentTasks)
  BY <1>1, <1>2, FS_Subset
<1>4. Cardinality(ReceivedTasks) <= Cardinality(SentTasks) /\ IsFiniteSet(ReceivedTasks)
  BY <1>2, <1>3, FS_Subset
<1>5. Cardinality(ReceivedTasks) \in Nat /\ Cardinality(SentTasks) \in Nat
  BY <1>3, <1>4, FS_CardinalityType
<1> QED BY <1>1, <1>4, <1>5, BudgetAssumption, BoundAssumption DEF SpendInv

THEOREM InitGInv == Init => GInv
<1> SUFFICES ASSUME Init PROVE GInv
  OBVIOUS
<1>1. history = <<>> /\ tasks = <<>> /\ budget = Budget /\ Len(history) = 0
  BY DEF Init
<1>2. SentTasks = {} /\ ReceivedTasks = {}
  BY <1>1 DEF SentTasks, ReceivedTasks
<1>3. Cardinality({}) = 0
  BY FS_EmptySet
<1> QED BY <1>1, <1>2, <1>3, InitWInv, BoundAssumption, BudgetAssumption
        DEF GInv, AllGiven, Valued, SpendInv

\* Only what an event says is added to the history.
Longer(e) == /\ history' = Append(history, e)
             /\ Len(history') = Len(history) + 1
             /\ Len(history) < MaxEvents

LEMMA EventsAdded ==
    ASSUME SInv, Next
    PROVE  history' = history \/ \E e \in Events : Longer(e)
<1>1. ASSUME NEW e \in Events, Deliverable(e), process_event(e)
      PROVE  Longer(e)
  <2>1. IInv /\ IsEvent(e) /\ history \in Seq({history[i] : i \in DOMAIN history})
    BY EventsAssumption DEF SInv, IInv, TypeOK, HistoryOK
  <2>2. history' = Append(history, e)
    BY <1>1, <2>1, EventTaken
  <2>3. Len(history') = Len(history) + 1
    BY <2>1, <2>2, AppendProperties
  <2> QED BY <1>1, <2>2, <2>3 DEF Deliverable, Longer
<1>2. ASSUME Execute \/ get_actions PROVE history' = history
  BY <1>2, EventOrNone
<1> QED BY <1>1, <1>2 DEF Next

\* Every step keeps the count.
LEMMA StepGInv ==
    ASSUME Gentle, GInv, Next
    PROVE  GInv'
<1>0. AnyStep /\ SInv /\ AtOwnCalls /\ WInv
  BY NextIsAnyStep DEF GInv, WInv, FInv
<1>1. WInv' /\ SInv'
  BY <1>0, StepWInv DEF WInv, FInv
<1>2. Len(history') <= MaxEvents
  <2>1. Len(history) \in Nat
    BY <1>0, LenProperties DEF SInv, IInv, TypeOK, HistoryOK
  <2>2. CASE history' = history
    BY <2>2 DEF GInv
  <2>3. ASSUME NEW e \in Events, Longer(e) PROVE Len(history') <= MaxEvents
    BY <2>1, <2>3, BoundAssumption DEF Longer
  <2> QED BY <1>0, <2>2, <2>3, EventsAdded
<1>3. AllGiven'
  <2>1. CASE history' = history
    BY <2>1 DEF GInv, AllGiven, Valued
  <2>2. ASSUME NEW e \in Events, Longer(e) PROVE AllGiven'
    <3>1. history \in Seq({history[i] : i \in DOMAIN history})
      BY <1>0 DEF SInv, IInv, TypeOK, HistoryOK
    <3>2. \A i \in DOMAIN history' : history'[i] = e \/ (i \in DOMAIN history /\ history'[i] = history[i])
      BY <2>2, <3>1, AppendProperties DEF Longer
    <3> QED BY <3>2 DEF GInv, AllGiven, Valued, Gentle
  <2> QED BY <1>0, <2>1, <2>2, EventsAdded
<1>4. ASSUME MaxEvents < Budget PROVE SpendInv'
  <2>1. SpendInv /\ pc # "panicked"
    BY <1>0, <1>4, NotPanicked DEF GInv
  <2>2. budget > 0
    BY <1>0, <1>4, <2>1, BudgetLeft DEF GInv
  <2>3. NoneForsaken
    BY DEF GInv, WInv, FInv, AllGiven
  <2>4. Cardinality(SentTasks') <= Len(history')
    BY <1>0, <2>1, SentByEvents DEF SpendInv
  <2>5. ASSUME pc' # "panicked" PROVE budget' + Cardinality(ReceivedTasks') >= Budget
    BY <1>0, <2>1, <2>2, <2>3, <2>5, BudgetReceived DEF SpendInv
  <2> QED BY <2>4, <2>5 DEF SpendInv
<1> QED BY <1>1, <1>2, <1>3, <1>4 DEF GInv

THEOREM GentleInvariance ==
    ASSUME Gentle
    PROVE  Spec => []GInv
<1>1. GInv /\ [Next]_vars => GInv'
  <2>1. GInv /\ Next => GInv'
    BY StepGInv
  <2>2. ASSUME GInv, UNCHANGED vars PROVE GInv'
    <3>1. WInv'
      BY <2>2, StepWInv DEF GInv
    <3>2. UNCHANGED <<history, pc, tasks, budget>>
      BY <2>2 DEF vars, future, called
    <3>3. SentTasks' = SentTasks
      BY <3>2 DEF SentTasks
    <3>4. ReceivedTasks' = ReceivedTasks
      BY <3>2, <3>3 DEF ReceivedTasks
    <3> QED BY <2>2, <3>1, <3>2, <3>3, <3>4 DEF GInv, AllGiven, Valued, SpendInv
  <2> QED BY <2>1, <2>2
<1> QED BY InitGInv, <1>1, PTL DEF Spec

\* An orchestrator that waits between two events (executor.rs:357) waits for
\* tasks whose senders are held, when no history has a failed activity (whose
\* arm does not poll, executor.rs:239) or a result without a value, and one poll
\* of a tokio task may receive more often than the history is long.
THEOREM NoWakeupLost ==
    ASSUME Gentle, MaxEvents < Budget
    PROVE  Spec => []NoLostWakeup
<1>1. GInv => NoLostWakeup
  <2> SUFFICES ASSUME GInv, pc \in {"event", "done"} PROVE NoLostWakeup
    BY DEF NoLostWakeup
  <2>1. SInv /\ WInv /\ SpendInv /\ pc # "panicked" /\ Len(history) <= MaxEvents
    BY DEF GInv, WInv, FInv
  <2>2. budget > 0
    BY <2>1, BudgetLeft
  <2>3. PassedHeld /\ NoneForsaken
    BY <2>1, <2>2 DEF GInv, WInv, FInv, Blameless, AllGiven
  <2> QED BY <2>3 DEF PassedHeld, NoneForsaken, NoLostWakeup, Unfinished
<1> QED BY GentleInvariance, <1>1, PTL
=============================================================================
