-------------------------- MODULE TransfersProofs --------------------------
(***************************************************************************)
(* Proofs about Transfers for any number of tasks, threads, attempts and   *)
(* failures, whatever the remote holds already and whatever it knows.      *)
(***************************************************************************)
EXTENDS Transfers, SequenceTheorems, FiniteSetTheorems, TLAPS

-----------------------------------------------------------------------------
(* The inductive invariant.  A task is in one place: it waits, a thread    *)
(* works on it, it is deferred, it is reported, or its error has ended the *)
(* pool.                                                                   *)

Listed(list) == {list[k] : k \in 1..Len(list)}
Distinct(list) == \A j, k \in 1..Len(list) : list[j] = list[k] => j = k

PoolPc == {"submit", "loop", "wait", "take", "pause", "exit", "returned"}
PoolType == pool \in [pc : PoolPc, done : SUBSET Tasks, how : {"ok", "raised", "cancelled"}]

TokenType ==
    token \in [good : Nat, stored : Nat, access : BOOLEAN, saved : BOOLEAN, lost : BOOLEAN,
              crossed : BOOLEAN]

EachOnce ==
    /\ Distinct(pending)
    /\ \A t \in Listed(pending) : t \notin inFlight /\ t \notin deferred
    /\ \A t \in inFlight : t \notin deferred
    /\ \A t \in Tasks :
        /\ results[t] \in {0, 1}
        /\ results[t] = 1 =>
             t \notin Listed(pending) /\ t \notin inFlight /\ t \notin deferred /\ t \in remote

NoneForgotten ==
    pool.how # "raised" =>
        \A t \in Tasks :
            t \in Listed(pending) \/ t \in inFlight \/ t \in deferred \/ results[t] = 1

\* A thread works only on a task in flight, and says that it has ended well only when
\* the object is stored.
ThreadServes(t) ==
    /\ t \in inFlight => thread[t].pc # "none"
    /\ thread[t].pc \notin {"none", "ended"} => t \in inFlight
    /\ thread[t].pc = "ended" => thread[t].outcome # "none"
    /\ thread[t].pc = "ended" /\ thread[t].outcome = "ok" => t \in remote
ThreadsServe == \A t \in Tasks : ThreadServes(t)

DoneHaveEnded == \A t \in pool.done : t \in inFlight /\ thread[t].pc = "ended"

AtEnd == pool.pc \in {"exit", "returned"}
AllSeenTo == inFlight = {} /\ pending = <<>> /\ deferred = {}

EndsWell ==
    /\ ~AtEnd => pool.how = "ok"
    /\ pool.pc = "loop" /\ inFlight = {} => AllSeenTo
    /\ AtEnd /\ pool.how = "ok" => AllSeenTo
    /\ pool.pc = "returned" => \A t \in Tasks : thread[t].pc \in {"none", "ended"}

TypeInv == TypeOK /\ PoolType
PoolInv == EachOnce /\ NoneForgotten /\ ThreadsServe /\ DoneHaveEnded /\ EndsWell
Inv == TypeInv /\ PoolInv

-----------------------------------------------------------------------------
(* Lists of tasks and the set of futures.                                  *)

LEMMA TasksFinite ==
    ASSUME NEW S \in SUBSET Tasks
    PROVE  IsFiniteSet(S) /\ Cardinality(S) \in Nat
<1>1. IsFiniteSet(Tasks)
  BY FS_Interval, TransferAssumption DEF Tasks
<1> QED BY <1>1, FS_Subset, FS_CardinalityType

\* The prefix of a list without repetitions is a set of as many tasks.
LEMMA PrefixSize ==
    ASSUME NEW list \in Seq(Tasks), NEW k \in 0..Len(list)
    PROVE  Cardinality({list[j] : j \in 1..k}) <= k
<1> DEFINE S == {list[j] : j \in 1..k}
           f == [j \in 1..k |-> list[j]]
<1>1. f \in Surjection(1..k, S)
  BY DEF Surjection
<1>2. ExistsSurjection(1..k, S)
  BY <1>1 DEF ExistsSurjection
<1> QED BY <1>2, FS_SurjCardinalityBound

\* What submit_next does to a list that names no task twice and none in flight: some
\* tasks of it are given to threads, no more than there is room for, the others stay
\* in the list, and none is given only when there is none or no room.
LEMMA SubmitSplits ==
    ASSUME TypeInv, NEW list \in Seq(Tasks), Distinct(list),
           \A t \in Listed(list) : t \notin inFlight, Submit(list)
    PROVE  \E new \in SUBSET Listed(list) :
             /\ pending' \in Seq(Tasks) /\ Distinct(pending')
             /\ Listed(pending') = Listed(list) \ new
             /\ inFlight' = inFlight \cup new
             /\ Cardinality(inFlight') <= WorkerCount
             /\ thread' = [t \in Tasks |-> IF t \in new THEN [NoThread EXCEPT !.pc = "queued"]
                                           ELSE thread[t]]
             /\ inFlight' = {} => pending' = <<>> /\ Listed(list) = {}
<1> DEFINE n == WorkerCount - Cardinality(inFlight)
           k == IF n < Len(list) THEN n ELSE Len(list)
           new == {list[j] : j \in 1..k}
<1>1. /\ pending' = SubSeq(list, k + 1, Len(list))
      /\ inFlight' = inFlight \cup new
      /\ thread' = [t \in Tasks |-> IF t \in new THEN [NoThread EXCEPT !.pc = "queued"]
                                    ELSE thread[t]]
  BY DEF Submit
<1>2. Cardinality(inFlight) \in Nat /\ IsFiniteSet(inFlight) /\ n \in Nat
  BY TasksFinite, TransferAssumption DEF TypeInv, TypeOK
<1>3. Len(list) \in Nat /\ k \in 0..Len(list) /\ k <= n
  BY <1>2
<1>4. new \in SUBSET Listed(list) /\ Listed(list) \in SUBSET Tasks
  BY <1>3 DEF Listed
<1>5. \A i \in k + 1..Len(list) : list[i] \in Tasks
  BY <1>3
<1>6. /\ pending' \in Seq(Tasks)
      /\ Len(pending') = Len(list) - k
      /\ \A i \in 1..Len(list) - k : pending'[i] = list[k + i]
  <2> HIDE DEF k
  <2>1. /\ pending' \in Seq(Tasks)
        /\ Len(pending') = IF k + 1 <= Len(list) THEN Len(list) - (k + 1) + 1 ELSE 0
        /\ \A i \in 1..Len(list) - (k + 1) + 1 : pending'[i] = list[k + 1 + i - 1]
    BY <1>1, <1>3, <1>5, SubSeqProperties
  <2> QED BY <2>1, <1>3
<1> HIDE DEF n, k
<1>7. Distinct(pending')
  BY <1>3, <1>6 DEF Distinct
<1>8. Listed(pending') = Listed(list) \ new
  <2>1. ASSUME NEW t \in Listed(pending') PROVE t \in Listed(list) \ new
    <3>1. PICK i \in 1..Len(pending') : t = pending'[i]
      BY DEF Listed
    <3>2. t = list[k + i] /\ k + i \in 1..Len(list)
      BY <3>1, <1>3, <1>6
    <3>3. t \notin new
      BY <3>1, <3>2, <1>3 DEF Distinct
    <3> QED BY <3>2, <3>3 DEF Listed
  <2>2. ASSUME NEW t \in Listed(list) \ new PROVE t \in Listed(pending')
    <3>1. PICK i \in 1..Len(list) : t = list[i]
      BY DEF Listed
    <3>2. i > k
      BY <3>1, <1>3
    <3>3. i - k \in 1..Len(pending') /\ pending'[i - k] = t
      BY <3>1, <3>2, <1>3, <1>6
    <3> QED BY <3>3 DEF Listed
  <2> QED BY <2>1, <2>2
<1>9. Cardinality(inFlight') <= WorkerCount
  <2>1. Cardinality(new) <= k
    BY <1>3, PrefixSize
  <2>2. IsFiniteSet(new) /\ Cardinality(new) \in Nat
    BY <1>4, TasksFinite
  <2>3. inFlight \cap new = {}
    BY <1>4
  <2>4. Cardinality(inFlight') = Cardinality(inFlight) + Cardinality(new)
    <3>1. Cardinality(inFlight \cup new)
            = Cardinality(inFlight) + Cardinality(new) - Cardinality(inFlight \cap new)
      BY <1>2, <2>2, FS_Union
    <3>2. Cardinality(inFlight \cap new) = 0
      BY <2>3, FS_EmptySet
    <3> QED BY <1>1, <1>2, <2>2, <3>1, <3>2
  <2> QED BY <2>1, <2>2, <2>4, <1>2, <1>3, TransferAssumption DEF n
<1>10. ASSUME inFlight' = {} PROVE pending' = <<>> /\ Listed(list) = {}
  <2>1. Cardinality(inFlight) = 0 /\ new = {}
    BY <1>1, <1>10, FS_EmptySet
  <2>2. k = 0
    <3>1. ASSUME k > 0 PROVE FALSE
      <4>1. list[1] \in new
        BY <3>1, <1>3
      <4> QED BY <4>1, <2>1
    <3> QED BY <3>1, <1>3
  <2>3. n > 0
    BY <2>1, TransferAssumption DEF n
  <2>4. Len(list) = 0
    BY <2>2, <2>3, <1>3 DEF k
  <2>5. pending' = <<>>
    BY <1>6, <2>2, <2>4, EmptySeq
  <2> QED BY <2>4, <2>5 DEF Listed
<1> QED BY <1>1, <1>4, <1>6, <1>7, <1>8, <1>9, <1>10

-----------------------------------------------------------------------------
(* The steps of a thread.                                                  *)

\* What every step of a thread comes to: it moves a task that is queued or running, on
\* to a call, a token or its end, and may store the object of that task.
ThreadMoves(t) ==
    /\ thread[t].pc \notin {"none", "ended"}
    /\ \E new \in Thread :
        /\ thread' = [thread EXCEPT ![t] = new]
        /\ new.pc # "none"
        /\ new.pc = "ended" => new.outcome # "none"
        /\ new.pc = "ended" /\ new.outcome = "ok" => t \in remote
    /\ remote' \in {remote, remote \cup {t}}
    /\ remote' # remote => thread[t].pc \in Calls
    /\ ThreadFrame

LEMMA GoMoves ==
    ASSUME TypeInv, NEW t \in Tasks, NEW pc \in ThreadPc \ {"none", "ended"}, Go(t, pc)
    PROVE  \E new \in Thread : thread' = [thread EXCEPT ![t] = new] /\ new.pc = pc
<1> DEFINE new == [thread[t] EXCEPT !.pc = pc, !.attempt = 1]
<1>1. thread[t] \in Thread /\ 1 \in 1..Attempts
  BY TransferAssumption DEF TypeInv, TypeOK
<1>2. new \in Thread /\ new.pc = pc
  BY <1>1 DEF Thread
<1>3. thread' = [thread EXCEPT ![t] = new]
  BY DEF Go, TypeInv, TypeOK
<1> QED BY <1>2, <1>3

LEMMA EndMoves ==
    ASSUME TypeInv, NEW t \in Tasks, NEW outcome \in {"ok", "frequency", "error"},
           End(t, outcome)
    PROVE  \E new \in Thread : /\ thread' = [thread EXCEPT ![t] = new]
                               /\ new.pc = "ended" /\ new.outcome = outcome
<1> DEFINE new == [thread[t] EXCEPT !.pc = "ended", !.outcome = outcome]
<1>1. thread[t] \in Thread /\ "ended" \in ThreadPc
  BY DEF TypeInv, TypeOK, ThreadPc
<1>2. new \in Thread /\ new.pc = "ended" /\ new.outcome = outcome
  BY <1>1 DEF Thread
<1>3. thread' = [thread EXCEPT ![t] = new]
  BY DEF End, TypeInv, TypeOK
<1> QED BY <1>2, <1>3

\* The failed call is not repeated: the thread looks for the object no more, or ends
\* with an error.
LEMMA GiveMoves ==
    ASSUME TypeInv, NEW t \in Tasks, NEW stage, Give(t, stage)
    PROVE  \E new \in Thread : /\ thread' = [thread EXCEPT ![t] = new]
                               /\ \/ new.pc = "precreate"
                                  \/ new.pc = "ended" /\ new.outcome = "error"
<1>1. "precreate" \in ThreadPc \ {"none", "ended"}
  BY DEF ThreadPc, Calls
<1> QED BY <1>1, GoMoves, EndMoves DEF Give

LEMMA RetryMoves ==
    ASSUME TypeInv, NEW t \in Tasks, thread[t].attempt < Attempts,
           thread' = [thread EXCEPT ![t].attempt = @ + 1]
    PROVE  \E new \in Thread : thread' = [thread EXCEPT ![t] = new] /\ new.pc = thread[t].pc
<1> DEFINE new == [thread[t] EXCEPT !.attempt = @ + 1]
<1>1. thread[t] \in Thread /\ thread[t].attempt + 1 \in 1..Attempts
  BY TransferAssumption DEF TypeInv, TypeOK, Thread
<1>2. new \in Thread /\ new.pc = thread[t].pc
  BY <1>1 DEF Thread
<1>3. thread' = [thread EXCEPT ![t] = new]
  BY DEF TypeInv, TypeOK
<1> QED BY <1>2, <1>3

LEMMA ThreadStepMoves ==
    ASSUME TypeInv, TokenType, NEW t \in Tasks, ThreadStep(t)
    PROVE  ThreadMoves(t) \/ UNCHANGED <<poolVars, thread, cancel, remote>>
<1> USE DEF ThreadMoves
<1>a. thread[t] \in Thread /\ Calls \subseteq ThreadPc \ {"none", "ended"}
  BY DEF TypeInv, TypeOK, ThreadPc, Calls
<1>b. {"read", "refresh", "store", "again", "persist"} \subseteq ThreadPc \ {"none", "ended"}
  BY DEF ThreadPc
<1>c. thread[t].stage \in Calls
  BY <1>a DEF Thread
<1>1. CASE Start(t)
  BY <1>1, <1>a, GoMoves DEF Start, Calls
<1>2. CASE LoadToken(t)
  <2>1. CASE token.saved
    BY <1>2, <2>1 DEF LoadToken, ThreadFrame
  <2>2. CASE ~token.saved
    <3> DEFINE new == [thread[t] EXCEPT !.pc = "read", !.stage = thread[t].pc]
    <3>1. thread[t].pc \in {"size", "precreate"} /\ thread[t].pc \in Calls
      BY <1>2 DEF LoadToken, NeedsToken, Calls
    <3>2. new \in Thread /\ new.pc = "read"
      BY <3>1, <1>a, <1>b DEF Thread
    <3>3. thread' = [thread EXCEPT ![t] = new]
      BY <1>2, <2>2 DEF LoadToken, TypeInv, TypeOK
    <3>4. UNCHANGED remote /\ ThreadFrame
      BY <1>2 DEF LoadToken
    <3> QED BY <3>1, <3>2, <3>3, <3>4
  <2> QED BY <2>1, <2>2
<1>3. CASE Refresh(t)
  <2>1. CASE thread[t].read = token.good
    BY <1>3, <2>1, <1>b, GoMoves DEF Refresh
  <2>2. CASE thread[t].read # token.good
    BY <1>3, <2>2, GiveMoves DEF Refresh
  <2> QED BY <2>1, <2>2
<1>4. CASE RefreshFails(t)
  <2>1. CASE thread[t].attempt < Attempts
    BY <1>4, <2>1, RetryMoves DEF RefreshFails
  <2>2. CASE ~(thread[t].attempt < Attempts)
    BY <1>4, <2>2, GiveMoves DEF RefreshFails
  <2> QED BY <2>1, <2>2
<1>5. CASE StoreToken(t) \/ StoreTokenAgain(t)
  BY <1>5, <1>b, GoMoves DEF StoreToken, StoreTokenAgain, WriteToken
<1>9. CASE PersistAccess(t)
  BY <1>9, <1>a, <1>c, GoMoves DEF PersistAccess
<1>10. CASE ReadRefreshToken(t)
  <2> DEFINE new == [thread[t] EXCEPT !.pc = "refresh", !.attempt = 1, !.read = token.stored]
  <2>1. 1 \in 1..Attempts /\ token.stored \in Nat
    BY TransferAssumption DEF TokenType
  <2>2. new \in Thread /\ new.pc = "refresh"
    BY <2>1, <1>a, <1>b DEF Thread
  <2>3. thread' = [thread EXCEPT ![t] = new]
    BY <1>10 DEF ReadRefreshToken, TypeInv, TypeOK
  <2> QED BY <1>10, <2>2, <2>3 DEF ReadRefreshToken
<1>6. CASE Call(t)
  <2>1. /\ thread[t].pc \in Calls
        /\ remote' \in {remote, remote \cup {t}} /\ ThreadFrame
    BY <1>6 DEF Call, At, Effect
  <2>2. ASSUME NEW pc \in Calls, Go(t, pc) PROVE ThreadMoves(t)
    BY <2>1, <2>2, <1>a, GoMoves DEF Calls
  <2>3. ASSUME NEW outcome \in {"ok", "error"}, End(t, outcome), outcome = "ok" => t \in remote
        PROVE  ThreadMoves(t)
    BY <2>1, <2>3, EndMoves DEF Calls
  <2>4. \/ \E pc \in Calls : Go(t, pc)
        \/ \E outcome \in {"ok", "error"} :
              End(t, outcome) /\ (outcome = "ok" => t \in remote)
    BY <1>6, <2>1 DEF Call, Calls
  <2> QED BY <2>2, <2>3, <2>4
<1>7. CASE CallFails(t)
  <2>1. /\ thread[t].pc \in Calls
        /\ remote' \in {remote, remote \cup {t}} /\ ThreadFrame
    BY <1>7 DEF CallFails, At, Effect
  <2>2. CASE thread[t].attempt < Attempts
    BY <1>7, <2>1, <2>2, RetryMoves DEF CallFails, Calls
  <2>3. CASE ~(thread[t].attempt < Attempts)
    BY <1>7, <2>1, <2>3, GiveMoves DEF CallFails, Calls
  <2> QED BY <2>2, <2>3
<1>8. CASE CallRefused(t)
  <2>1. thread[t].pc \in Calls /\ UNCHANGED remote /\ ThreadFrame
    BY <1>8 DEF CallRefused, At
  <2>2. CASE Give(t, thread[t].pc)
    BY <2>1, <2>2, GiveMoves DEF Calls
  <2>3. CASE End(t, "frequency")
    BY <2>1, <2>3, EndMoves DEF Calls
  <2> QED BY <1>8, <2>2, <2>3 DEF CallRefused
<1> QED BY <1>1, <1>2, <1>3, <1>4, <1>5, <1>6, <1>7, <1>8, <1>9, <1>10 DEF ThreadStep

\* A step of a thread preserves the invariant, whatever call it makes.
LEMMA ThreadInv ==
    ASSUME Inv, NEW t \in Tasks, ThreadMoves(t)
    PROVE  Inv'
<1> USE DEF Inv, TypeInv, PoolInv
<1>1. PICK new \in Thread :
        /\ thread' = [thread EXCEPT ![t] = new]
        /\ new.pc # "none"
        /\ new.pc = "ended" => new.outcome # "none"
        /\ new.pc = "ended" /\ new.outcome = "ok" => t \in remote
  BY DEF ThreadMoves
<1>2. /\ pending' = pending /\ inFlight' = inFlight /\ deferred' = deferred
      /\ results' = results /\ pool' = pool /\ cancel' = cancel
      /\ thread[t].pc \notin {"none", "ended"}
      /\ remote \subseteq remote' /\ remote' \subseteq Tasks
  BY DEF ThreadMoves, ThreadFrame, poolVars, TypeOK
<1>3. t \in inFlight
  BY <1>2 DEF ThreadsServe, ThreadServes
<1>4. TypeInv'
  BY <1>1, <1>2 DEF TypeOK, PoolType
<1>5. EachOnce' /\ NoneForgotten'
  BY <1>2 DEF EachOnce, NoneForgotten, Listed, Distinct
<1>6. ThreadsServe'
  <2> SUFFICES ASSUME NEW u \in Tasks PROVE ThreadServes(u)'
    BY DEF ThreadsServe
  <2>1. thread'[u] = IF u = t THEN new ELSE thread[u]
    BY <1>1 DEF TypeOK
  <2> QED BY <1>1, <1>2, <1>3, <2>1 DEF ThreadsServe, ThreadServes
<1>7. DoneHaveEnded'
  <2> SUFFICES ASSUME NEW u \in pool.done PROVE u \in inFlight /\ thread'[u].pc = "ended"
    BY <1>2 DEF DoneHaveEnded
  <2>1. u # t /\ u \in Tasks
    BY <1>2 DEF DoneHaveEnded, PoolType
  <2> QED BY <1>1, <2>1 DEF DoneHaveEnded, TypeOK
<1>8. EndsWell'
  <2>1. pool.pc # "returned"
    BY <1>2 DEF EndsWell
  <2> QED BY <1>2, <2>1 DEF EndsWell, AtEnd, AllSeenTo
<1> QED BY <1>4, <1>5, <1>6, <1>7, <1>8

-----------------------------------------------------------------------------
(* The steps of the pool.                                                  *)

\* Tasks that are submitted were in no other place, and are nowhere else afterwards.
LEMMA SubmitInv ==
    ASSUME Inv, ~AtEnd, NEW list \in Seq(Tasks), Distinct(list),
           \A t \in Listed(list) : t \notin inFlight /\ results[t] = 0,
           \A t \in Listed(list) : thread[t].pc \in {"none", "ended"},
           Submit(list),
           Listed(pending) \cup deferred = Listed(list) \cup deferred',
           \A t \in deferred' : t \notin Listed(list) /\ t \notin inFlight,
           deferred' \subseteq deferred,
           pool' \in [pc : PoolPc \ {"exit", "returned"}, done : {pool.done}, how : {"ok"}],
           inFlight' = {} /\ deferred' # {} => pool'.pc # "loop",
           UNCHANGED <<results, cancel, remote>>
    PROVE  Inv'
<1> USE DEF Inv, TypeInv, PoolInv
<1>1. PICK new \in SUBSET Listed(list) :
        /\ pending' \in Seq(Tasks) /\ Distinct(pending')
        /\ Listed(pending') = Listed(list) \ new
        /\ inFlight' = inFlight \cup new
        /\ Cardinality(inFlight') <= WorkerCount
        /\ thread' = [t \in Tasks |-> IF t \in new THEN [NoThread EXCEPT !.pc = "queued"]
                                      ELSE thread[t]]
        /\ inFlight' = {} => pending' = <<>> /\ Listed(list) = {}
  BY SubmitSplits
<1>2. Listed(list) \subseteq Tasks
  BY DEF Listed
<1>3. [NoThread EXCEPT !.pc = "queued"] \in Thread
  BY TransferAssumption DEF NoThread, Thread, ThreadPc, Calls
<1>4. TypeInv'
  <2>1. thread' \in [Tasks -> Thread]
    BY <1>1, <1>3 DEF TypeOK
  <2>2. pool' \in [pc : PoolPc, done : SUBSET Tasks, how : {"ok", "raised", "cancelled"}]
    BY DEF PoolType
  <2> QED BY <1>1, <1>2, <2>1, <2>2 DEF TypeOK, PoolType, PoolPc
<1>5. EachOnce'
  <2>1. \A t \in Listed(pending') : t \notin inFlight' /\ t \notin deferred'
    BY <1>1
  <2>2. \A t \in inFlight' : t \notin deferred'
    BY <1>1
  <2>3. ASSUME NEW t \in Tasks, results[t] = 1
        PROVE  t \notin Listed(pending') /\ t \notin inFlight' /\ t \notin deferred'
    BY <1>1, <2>3 DEF EachOnce
  <2> QED BY <1>1, <2>1, <2>2, <2>3 DEF EachOnce
<1>6. NoneForgotten'
  <2>1. pool.how = "ok"
    BY DEF EndsWell
  <2>2. ASSUME NEW t \in Tasks
        PROVE  t \in Listed(pending') \/ t \in inFlight' \/ t \in deferred' \/ results[t] = 1
    BY <1>1, <2>1 DEF NoneForgotten
  <2> QED BY <2>2 DEF NoneForgotten
<1>7. ThreadsServe'
  <2> SUFFICES ASSUME NEW t \in Tasks PROVE ThreadServes(t)'
    BY DEF ThreadsServe
  <2>1. CASE t \in new
    <3>1. thread'[t].pc = "queued" /\ t \in inFlight'
      BY <1>1, <2>1 DEF NoThread
    <3> QED BY <3>1 DEF ThreadServes
  <2>2. CASE t \notin new
    <3>1. thread'[t] = thread[t] /\ (t \in inFlight' <=> t \in inFlight)
      BY <1>1, <2>2
    <3> QED BY <3>1 DEF ThreadsServe, ThreadServes
  <2> QED BY <2>1, <2>2
<1>8. DoneHaveEnded'
  <2> SUFFICES ASSUME NEW t \in pool.done PROVE t \in inFlight' /\ thread'[t].pc = "ended"
    BY DEF DoneHaveEnded
  <2>1. t \in Tasks /\ t \in inFlight /\ thread[t].pc = "ended"
    BY DEF DoneHaveEnded, PoolType
  <2>2. t \notin new
    BY <2>1
  <2> QED BY <1>1, <2>1, <2>2
<1>9. EndsWell'
  <2>1. pool'.pc \notin {"exit", "returned"} /\ pool'.how = "ok"
    OBVIOUS
  <2>2. ASSUME pool'.pc = "loop", inFlight' = {} PROVE AllSeenTo'
    BY <1>1, <2>2 DEF AllSeenTo
  <2> QED BY <2>1, <2>2 DEF EndsWell, AtEnd
<1> QED BY <1>4, <1>5, <1>6, <1>7, <1>8, <1>9

\* A list that names each deferred task once, added to the tasks that wait.
LEMMA RetryList ==
    ASSUME Inv, NEW list \in [1..Cardinality(deferred) -> deferred],
           {list[k] : k \in DOMAIN list} = deferred
    PROVE  /\ pending \o list \in Seq(Tasks) /\ Distinct(pending \o list)
           /\ Listed(pending \o list) = Listed(pending) \cup deferred
<1> USE DEF Inv, TypeInv, PoolInv
<1>1. IsFiniteSet(deferred) /\ Cardinality(deferred) \in Nat
  BY TasksFinite DEF TypeOK
<1>2. list \in Seq(Tasks) /\ Len(list) = Cardinality(deferred) /\ DOMAIN list = 1..Len(list)
  <2>1. list \in Seq(deferred) /\ Len(list) = Cardinality(deferred)
    BY <1>1
  <2>2. deferred \subseteq Tasks
    BY DEF TypeOK
  <2> QED BY <1>1, <2>1, <2>2, SeqMonotonic
<1>3. list \in Injection(1..Cardinality(deferred), deferred)
  <2>1. list \in Surjection(1..Cardinality(deferred), deferred)
    BY <1>2 DEF Surjection
  <2>2. /\ IsFiniteSet(1..Cardinality(deferred))
        /\ Cardinality(1..Cardinality(deferred)) = Cardinality(deferred)
    BY <1>1, FS_Interval
  <2> QED BY <2>1, <2>2, FS_SurjSameCardinalityImpliesInj
<1>4. Distinct(list) /\ Listed(list) = deferred
  BY <1>2, <1>3 DEF Injection, IsInjective, Distinct, Listed
<1>5. pending \in Seq(Tasks) /\ Len(pending) \in Nat /\ Len(list) \in Nat
  BY <1>2 DEF TypeOK
<1>6. /\ pending \o list \in Seq(Tasks)
      /\ Len(pending \o list) = Len(pending) + Len(list)
      /\ \A i \in 1..Len(pending) + Len(list) :
            (pending \o list)[i] = IF i <= Len(pending) THEN pending[i] ELSE list[i - Len(pending)]
  BY <1>2, <1>5, ConcatProperties
<1> DEFINE both == pending \o list
<1> HIDE DEF both
<1>7. ASSUME NEW j \in 1..Len(both), NEW k \in 1..Len(both), both[j] = both[k] PROVE j = k
  <2>1. \A t \in Listed(pending) : t \notin deferred
    BY DEF EachOnce
  <2>2. \A i \in 1..Len(pending) : pending[i] \in Listed(pending)
    BY DEF Listed
  <2>3. \A i \in 1..Len(list) : list[i] \in deferred
    BY <1>2
  <2>4. CASE j <= Len(pending) /\ k <= Len(pending)
    BY <2>4, <1>5, <1>6, <1>7 DEF both, EachOnce, Distinct
  <2>5. CASE j > Len(pending) /\ k > Len(pending)
    <3>1. list[j - Len(pending)] = list[k - Len(pending)]
      BY <2>5, <1>5, <1>6, <1>7 DEF both
    <3>2. j - Len(pending) \in 1..Len(list) /\ k - Len(pending) \in 1..Len(list)
      BY <2>5, <1>5, <1>6 DEF both
    <3>3. j - Len(pending) = k - Len(pending)
      BY <3>1, <3>2, <1>4 DEF Distinct
    <3> QED BY <3>3, <1>5
  <2>6. CASE j <= Len(pending) /\ k > Len(pending)
    BY <2>1, <2>2, <2>3, <2>6, <1>5, <1>6, <1>7 DEF both
  <2>7. CASE j > Len(pending) /\ k <= Len(pending)
    BY <2>1, <2>2, <2>3, <2>7, <1>5, <1>6, <1>7 DEF both
  <2> QED BY <2>4, <2>5, <2>6, <2>7, <1>5, <1>6 DEF both
<1>8. Listed(both) = Listed(pending) \cup Listed(list)
  <2>1. ASSUME NEW t \in Listed(both) PROVE t \in Listed(pending) \cup Listed(list)
    <3>1. PICK i \in 1..Len(both) : t = both[i]
      BY DEF Listed
    <3> QED BY <3>1, <1>5, <1>6 DEF both, Listed
  <2>2. ASSUME NEW t \in Listed(pending) PROVE t \in Listed(both)
    <3>1. PICK i \in 1..Len(pending) : t = pending[i]
      BY DEF Listed
    <3>2. both[i] = t /\ i \in 1..Len(both)
      BY <3>1, <1>5, <1>6 DEF both
    <3> QED BY <3>2 DEF Listed
  <2>3. ASSUME NEW t \in Listed(list) PROVE t \in Listed(both)
    <3>1. PICK i \in 1..Len(list) : t = list[i]
      BY DEF Listed
    <3>2. both[Len(pending) + i] = t /\ Len(pending) + i \in 1..Len(both)
      BY <3>1, <1>5, <1>6 DEF both
    <3> QED BY <3>2 DEF Listed
  <2> QED BY <2>1, <2>2, <2>3
<1>9. Distinct(both)
  BY <1>7 DEF Distinct
<1> QED BY <1>4, <1>6, <1>8, <1>9 DEF both

LEMMA PoolInvStep ==
    ASSUME Inv, PoolStep
    PROVE  Inv'
<1> USE DEF Inv, TypeInv, PoolInv, PoolFrame
<1>1. CASE SubmitNext
  <2>1. pending \in Seq(Tasks) /\ Distinct(pending) /\ ~AtEnd
    BY <1>1 DEF SubmitNext, TypeOK, EachOnce, AtEnd
  <2>2. \A t \in Listed(pending) :
          /\ t \in Tasks /\ t \notin inFlight /\ t \notin deferred
          /\ results[t] = 0 /\ thread[t].pc \in {"none", "ended"}
    BY <2>1 DEF EachOnce, ThreadsServe, ThreadServes, Listed
  <2>3. \A t \in deferred : t \notin inFlight
    BY DEF EachOnce
  <2>4. /\ pool' \in [pc : PoolPc \ {"exit", "returned"}, done : {pool.done}, how : {"ok"}]
        /\ inFlight' = {} /\ deferred # {} => pool'.pc # "loop"
    <3>1. pool.how = "ok"
      BY <2>1 DEF EndsWell
    <3> QED BY <1>1, <3>1 DEF SubmitNext, PoolType, PoolPc
  <2>5. Submit(pending) /\ UNCHANGED <<deferred, results, cancel, remote>>
    BY <1>1 DEF SubmitNext
  <2> QED BY <2>1, <2>2, <2>3, <2>4, <2>5, SubmitInv
<1>2. CASE Loop
  <2>1. UNCHANGED <<pending, inFlight, deferred, results, thread, cancel, remote>>
    BY <1>2 DEF Loop
  <2>2. \/ /\ inFlight = {} /\ Exit("ok")
        \/ Exit("cancelled")
        \/ /\ inFlight # {} /\ pool' = [pool EXCEPT !.pc = "wait"]
    BY <1>2 DEF Loop
  <2>3. pool.pc = "loop" /\ pool.how = "ok"
    BY <1>2 DEF Loop, EndsWell, AtEnd
  <2>4. /\ pool' \in [pc : PoolPc, done : SUBSET Tasks, how : {"ok", "raised", "cancelled"}]
        /\ pool'.done \subseteq pool.done /\ pool'.how # "raised"
        /\ pool'.pc \in {"exit", "wait"} /\ (pool'.pc = "wait" => pool'.how = "ok")
        /\ pool'.pc = "exit" /\ pool'.how = "ok" => inFlight = {}
    BY <2>2, <2>3 DEF Exit, PoolType, PoolPc
  <2>5. EndsWell'
    BY <2>1, <2>3, <2>4 DEF EndsWell, AtEnd, AllSeenTo
  <2>6. TypeInv' /\ DoneHaveEnded'
    BY <2>1, <2>4 DEF TypeOK, PoolType, PoolPc, DoneHaveEnded
  <2>7. EachOnce' /\ ThreadsServe' /\ NoneForgotten'
    BY <2>1, <2>3 DEF EachOnce, Distinct, Listed, ThreadsServe, ThreadServes, NoneForgotten
  <2> QED BY <2>5, <2>6, <2>7
<1>3. CASE Wait
  <2> DEFINE done == {t \in inFlight : thread[t].pc = "ended"}
  <2>1. UNCHANGED <<pending, inFlight, deferred, results, thread, cancel, remote>>
    BY <1>3 DEF Wait
  <2>2. pool.pc = "wait" /\ pool' = [pool EXCEPT !.pc = "take", !.done = done] /\ pool.how = "ok"
    BY <1>3 DEF Wait, EndsWell, AtEnd
  <2>3. /\ pool' \in [pc : PoolPc, done : SUBSET Tasks, how : {"ok", "raised", "cancelled"}]
        /\ pool'.done = done /\ pool'.how = "ok" /\ pool'.pc = "take"
    <3>1. done \in SUBSET Tasks
      BY DEF TypeOK
    <3> QED BY <2>2, <3>1 DEF PoolType, PoolPc
  <2>4. EndsWell'
    BY <2>1, <2>3 DEF EndsWell, AtEnd
  <2>5. TypeInv' /\ DoneHaveEnded'
    BY <2>1, <2>3 DEF TypeOK, PoolType, PoolPc, DoneHaveEnded
  <2>6. EachOnce' /\ ThreadsServe' /\ NoneForgotten'
    BY <2>1, <2>2 DEF EachOnce, Distinct, Listed, ThreadsServe, ThreadServes, NoneForgotten
  <2> QED BY <2>4, <2>5, <2>6
<1>4. CASE Take
  <2>1. UNCHANGED <<pending, thread, cancel, remote>>
    BY <1>4 DEF Take
  <2>2. pool.pc = "take" /\ pool.how = "ok"
    BY <1>4 DEF Take, EndsWell, AtEnd
  <2>3. CASE pool.done = {} /\ pool' = [pool EXCEPT !.pc = "submit"]
             /\ UNCHANGED <<inFlight, deferred, results>>
    <3>1. /\ pool' \in [pc : PoolPc, done : SUBSET Tasks, how : {"ok", "raised", "cancelled"}]
          /\ pool'.done = {} /\ pool'.how = "ok" /\ pool'.pc = "submit"
      BY <2>2, <2>3 DEF PoolType, PoolPc
    <3>2. EndsWell' /\ TypeInv' /\ DoneHaveEnded'
      BY <2>1, <2>3, <3>1 DEF EndsWell, AtEnd, TypeOK, PoolType, PoolPc, DoneHaveEnded
    <3>3. EachOnce' /\ ThreadsServe' /\ NoneForgotten'
      BY <2>1, <2>2, <2>3
         DEF EachOnce, Distinct, Listed, ThreadsServe, ThreadServes, NoneForgotten
    <3> QED BY <3>2, <3>3
  <2>4. CASE pool.done # {}
    <3>1. PICK t \in pool.done :
            LET o == thread[t].outcome IN
            /\ inFlight' = inFlight \ {t}
            /\ IF o = "error" THEN Exit("raised") ELSE pool' = [pool EXCEPT !.done = @ \ {t}]
            /\ results' = IF o = "ok" THEN [results EXCEPT ![t] = @ + 1] ELSE results
            /\ deferred' = IF o = "frequency" THEN deferred \cup {t} ELSE deferred
      BY <1>4, <2>4 DEF Take
    <3>2. t \in Tasks /\ t \in inFlight /\ thread[t].pc = "ended" /\ thread[t].outcome # "none"
      BY DEF PoolType, DoneHaveEnded, ThreadsServe, ThreadServes
    <3>3. thread[t].outcome \in {"ok", "frequency", "error"}
      BY <3>2 DEF TypeOK, Thread
    <3>4. t \notin Listed(pending) /\ t \notin deferred /\ results[t] = 0
      BY <3>2 DEF EachOnce
    <3>5. /\ pool' \in [pc : PoolPc, done : SUBSET Tasks, how : {"ok", "raised", "cancelled"}]
          /\ pool'.done \subseteq pool.done \ {t}
          /\ \/ /\ thread[t].outcome = "error" /\ pool'.how = "raised" /\ pool'.pc = "exit"
             \/ /\ thread[t].outcome # "error" /\ pool'.how = "ok" /\ pool'.pc = "take"
      BY <2>2, <3>1 DEF PoolType, PoolPc, Exit
    <3>6. \A u \in Tasks : results'[u] =
            IF u = t /\ thread[t].outcome = "ok" THEN 1 ELSE results[u]
      BY <3>1, <3>4 DEF TypeOK
    <3>7. TypeInv'
      <4>1. results' \in [Tasks -> Nat]
        BY <3>1, <3>2 DEF TypeOK
      <4>2. Cardinality(inFlight') <= WorkerCount
        <5>1. IsFiniteSet(inFlight) /\ Cardinality(inFlight) \in Nat
          BY TasksFinite DEF TypeOK
        <5>2. Cardinality(inFlight') = Cardinality(inFlight) - 1
          BY <3>1, <3>2, <5>1, FS_RemoveElement
        <5> QED BY <5>1, <5>2, TransferAssumption DEF TypeOK
      <4>3. inFlight' \subseteq Tasks /\ deferred' \subseteq Tasks
        BY <3>1, <3>2 DEF TypeOK
      <4> QED BY <2>1, <3>5, <4>1, <4>2, <4>3 DEF TypeOK, PoolType, PoolPc
    <3>8. EachOnce'
      <4>1. thread[t].outcome = "ok" => t \in remote
        BY <3>2 DEF ThreadsServe, ThreadServes
      <4>2. \A u \in Listed(pending) : u \notin inFlight' /\ u \notin deferred'
        BY <3>1, <3>4 DEF EachOnce
      <4>3. \A u \in inFlight' : u \notin deferred'
        BY <3>1, <3>4 DEF EachOnce
      <4>4. ASSUME NEW u \in Tasks
            PROVE  /\ results'[u] \in {0, 1}
                   /\ results'[u] = 1 =>
                        u \notin Listed(pending) /\ u \notin inFlight' /\ u \notin deferred'
                        /\ u \in remote
        <5>1. CASE u = t
          BY <3>1, <3>4, <3>6, <4>1, <5>1
        <5>2. CASE u # t
          BY <3>1, <3>6, <5>2 DEF EachOnce
        <5> QED BY <5>1, <5>2
      <4> QED BY <2>1, <4>2, <4>3, <4>4 DEF EachOnce, Distinct, Listed
    <3>9. NoneForgotten'
      <4> SUFFICES ASSUME thread[t].outcome # "error", NEW u \in Tasks
                   PROVE  \/ u \in Listed(pending) \/ u \in inFlight' \/ u \in deferred'
                          \/ results'[u] = 1
        BY <2>1, <3>5 DEF NoneForgotten, Listed
      <4>1. CASE u = t
        BY <3>1, <3>3, <3>6, <4>1
      <4>2. CASE u # t
        BY <2>2, <3>1, <3>6, <4>2 DEF NoneForgotten
      <4> QED BY <4>1, <4>2
    <3>10. ThreadsServe'
      BY <2>1, <3>1, <3>2 DEF ThreadsServe, ThreadServes
    <3>11. DoneHaveEnded'
      BY <2>1, <3>1, <3>5 DEF DoneHaveEnded
    <3>12. EndsWell'
      BY <3>5 DEF EndsWell, AtEnd
    <3> QED BY <3>7, <3>8, <3>9, <3>10, <3>11, <3>12
  <2> QED BY <1>4, <2>3, <2>4 DEF Take
<1>5. CASE Pause
  <2>1. pool.pc = "pause" /\ pool.how = "ok" /\ UNCHANGED <<results, cancel, remote>>
    BY <1>5 DEF Pause, EndsWell, AtEnd
  <2>2. CASE Exit("cancelled") /\ UNCHANGED <<pending, inFlight, thread, deferred>>
    <3>1. /\ pool' \in [pc : PoolPc, done : SUBSET Tasks, how : {"ok", "raised", "cancelled"}]
          /\ pool'.done = {} /\ pool'.how = "cancelled" /\ pool'.pc = "exit"
      BY <2>2 DEF Exit, PoolPc
    <3>2. EndsWell' /\ TypeInv' /\ DoneHaveEnded'
      BY <2>1, <2>2, <3>1 DEF EndsWell, AtEnd, TypeOK, PoolType, PoolPc, DoneHaveEnded
    <3>3. EachOnce' /\ ThreadsServe' /\ NoneForgotten'
      BY <2>1, <2>2
         DEF EachOnce, Distinct, Listed, ThreadsServe, ThreadServes, NoneForgotten
    <3> QED BY <3>2, <3>3
  <2>3. ASSUME NEW list \in [1..Cardinality(deferred) -> deferred],
               {list[k] : k \in DOMAIN list} = deferred, Submit(pending \o list),
               deferred' = {}, pool' = [pool EXCEPT !.pc = "loop"]
        PROVE  Inv'
    <3> DEFINE both == pending \o list
    <3>1. both \in Seq(Tasks) /\ Distinct(both) /\ Listed(both) = Listed(pending) \cup deferred
      BY <2>3, RetryList
    <3>2. \A t \in Listed(both) : t \in Tasks /\ t \notin inFlight /\ results[t] = 0
      <4>1. ASSUME NEW t \in Listed(both) PROVE t \in Listed(pending) \/ t \in deferred
        BY <3>1, <4>1
      <4>2. \A t \in Listed(both) : t \in Tasks
        BY <4>1 DEF TypeOK, Listed
      <4> QED BY <4>1, <4>2 DEF EachOnce
    <3>3. \A t \in Listed(both) : thread[t].pc \in {"none", "ended"}
      BY <3>2 DEF ThreadsServe, ThreadServes
    <3>4. pool' \in [pc : PoolPc \ {"exit", "returned"}, done : {pool.done}, how : {"ok"}]
      BY <2>1, <2>3 DEF PoolType, PoolPc
    <3>5. ~AtEnd
      BY <2>1 DEF AtEnd
    <3>6. Submit(both)
      BY <2>3
    <3> HIDE DEF both
    <3> QED BY <2>1, <2>3, <3>1, <3>2, <3>3, <3>4, <3>5, <3>6, SubmitInv
  <2> QED BY <1>5, <2>2, <2>3 DEF Pause
<1>6. CASE Leave
  <2>1. UNCHANGED <<pending, inFlight, deferred, results, thread, cancel, remote>>
    BY <1>6 DEF Leave
  <2>2. /\ pool' \in [pc : PoolPc, done : SUBSET Tasks, how : {"ok", "raised", "cancelled"}]
        /\ pool'.done = pool.done /\ pool'.how = pool.how /\ pool'.pc = "returned"
        /\ pool.pc = "exit"
    BY <1>6 DEF Leave, PoolType, PoolPc
  <2>3. EndsWell'
    BY <1>6, <2>1, <2>2 DEF Leave, EndsWell, AtEnd, AllSeenTo
  <2>4. TypeInv' /\ DoneHaveEnded'
    BY <2>1, <2>2 DEF TypeOK, PoolType, PoolPc, DoneHaveEnded
  <2>5. EachOnce' /\ ThreadsServe' /\ NoneForgotten'
    BY <2>1, <2>2 DEF EachOnce, Distinct, Listed, ThreadsServe, ThreadServes, NoneForgotten
  <2> QED BY <2>3, <2>4, <2>5
<1> QED BY <1>1, <1>2, <1>3, <1>4, <1>5, <1>6 DEF PoolStep

-----------------------------------------------------------------------------
(* The theorems.                                                           *)

LEMMA TransfersInit == Init => Inv /\ TokenType
<1> SUFFICES ASSUME Init PROVE Inv /\ TokenType
  OBVIOUS
<1> USE TransferAssumption DEF Init, Inv, TypeInv, PoolInv
<1>1. pending \in Seq(Tasks) /\ Len(pending) = TaskCount /\ \A k \in Tasks : pending[k] = k
  <2>1. pending \in [1..TaskCount -> Tasks] /\ TaskCount \in Nat
    BY DEF Tasks
  <2>2. pending \in Seq(Tasks) /\ Len(pending) = TaskCount
    BY <2>1
  <2> QED BY <2>2 DEF Tasks
<1>2. TypeInv
  <2>1. NoThread \in Thread
    BY DEF NoThread, Thread, ThreadPc, Calls
  <2>2. Cardinality(inFlight) = 0
    BY FS_EmptySet
  <2>3. PoolType /\ results \in [Tasks -> Nat] /\ thread \in [Tasks -> Thread]
    BY <2>1 DEF PoolType, PoolPc
  <2>4. remote \subseteq Tasks
    BY DEF Tasks
  <2>5. inFlight = {} /\ deferred = {} /\ cancel = FALSE /\ 0 <= WorkerCount
    <3>1. 0 <= WorkerCount
      BY TransferAssumption
    <3> QED BY <3>1, Zenon DEF Init
  <2> HIDE DEF Init
  <2> QED BY <1>1, <2>2, <2>3, <2>4, <2>5 DEF TypeOK, PoolType, PoolPc
<1>3. EachOnce
  BY <1>1 DEF EachOnce, Distinct, Tasks
<1>4. NoneForgotten
  BY <1>1 DEF NoneForgotten, Listed, Tasks
<1>5. ThreadsServe /\ DoneHaveEnded
  BY DEF ThreadsServe, ThreadServes, DoneHaveEnded, NoThread
<1>6. EndsWell
  BY DEF EndsWell, AtEnd
<1>7. TokenType
  BY DEF TokenType
<1> QED BY <1>2, <1>3, <1>4, <1>5, <1>6, <1>7

\* What a step leaves alone when neither the pool nor a thread moves.
LEMMA NothingMoves ==
    ASSUME Inv, UNCHANGED <<poolVars, thread, remote>>, cancel' \in BOOLEAN
    PROVE  Inv'
BY DEF Inv, TypeInv, PoolInv, TypeOK, PoolType, EachOnce, NoneForgotten, ThreadsServe,
       ThreadServes, DoneHaveEnded, EndsWell, AtEnd, AllSeenTo, Listed, Distinct, poolVars

LEMMA TokenTypeStep ==
    ASSUME Inv, TokenType, [Next]_vars
    PROVE  TokenType'
<1> USE DEF TokenType
<1>1. CASE PoolStep
  BY <1>1 DEF PoolStep, PoolFrame, SubmitNext, Loop, Wait, Take, Pause, Leave
<1>2. CASE Cancel
  BY <1>2 DEF Cancel
<1>3. ASSUME NEW t \in Tasks, ThreadStep(t) PROVE TokenType'
  <2>1. thread[t].read \in Nat
    BY DEF Inv, TypeInv, TypeOK, Thread
  <2>2. CASE Start(t) \/ Call(t) \/ CallFails(t) \/ CallRefused(t)
    <3>1. UNCHANGED token
      BY <2>2 DEF Start, Call, CallFails, CallRefused
    <3> QED BY <3>1
  <2>3. CASE LoadToken(t)
    BY <2>3 DEF LoadToken
  <2>4. CASE Refresh(t)
    <3>1. token' \in {token, [token EXCEPT !.good = @ + 1]}
      BY <2>4 DEF Refresh
    <3> QED BY <3>1
  <2>5. CASE RefreshFails(t)
    <3>1. token' \in {token, [token EXCEPT !.good = @ + 1, !.lost = TRUE]}
      BY <2>5 DEF RefreshFails
    <3>2. CASE token' = token
      BY <3>2
    <3>3. CASE token' = [token EXCEPT !.good = @ + 1, !.lost = TRUE]
      <4>1. token.good + 1 \in Nat
        OBVIOUS
      <4> QED BY <3>3, <4>1
    <3> QED BY <3>1, <3>2, <3>3
  <2>6. CASE StoreToken(t) \/ StoreTokenAgain(t)
    <3>1. token' = [token EXCEPT !.stored = thread[t].read + 1]
      BY <2>6 DEF StoreToken, StoreTokenAgain, WriteToken
    <3>2. thread[t].read + 1 \in Nat
      BY <2>1
    <3> QED BY <3>1, <3>2
  <2>7. CASE PersistAccess(t)
    BY <2>7 DEF PersistAccess
  <2>8. CASE ReadRefreshToken(t)
    BY <2>8 DEF ReadRefreshToken
  <2> QED BY <1>3, <2>2, <2>3, <2>4, <2>5, <2>6, <2>7, <2>8 DEF ThreadStep
<1>4. CASE UNCHANGED vars
  BY <1>4 DEF vars
<1> QED BY <1>1, <1>2, <1>3, <1>4 DEF Next

LEMMA TransfersStep ==
    ASSUME Inv, TokenType, [Next]_vars
    PROVE  Inv'
<1>1. CASE PoolStep
  BY <1>1, PoolInvStep
<1>2. CASE Cancel
  BY <1>2, NothingMoves DEF Cancel
<1>3. ASSUME NEW t \in Tasks, ThreadStep(t) PROVE Inv'
  <2>1. cancel \in BOOLEAN /\ TypeInv
    BY DEF Inv, TypeInv, TypeOK
  <2> QED BY <1>3, <2>1, ThreadStepMoves, ThreadInv, NothingMoves
<1>4. CASE UNCHANGED vars
  <2>1. cancel' \in BOOLEAN
    BY <1>4 DEF vars, Inv, TypeInv, TypeOK
  <2> QED BY <1>4, <2>1, NothingMoves DEF vars, poolVars
<1> QED BY <1>1, <1>2, <1>3, <1>4 DEF Next

\* A task is in one place and keeps to it, whatever calls fail, whenever the job is
\* cancelled, and in whichever order the futures end.
THEOREM TransfersAlwaysInv == Spec => [](Inv /\ TokenType)
<1>1. Inv /\ TokenType /\ [Next]_vars => (Inv /\ TokenType)'
  BY TransfersStep, TokenTypeStep
<1> QED BY <1>1, TransfersInit, PTL DEF Spec

\* Every variable of the pool keeps its type, and it never has more futures than threads
\* (upload_transfer_concurrency), for any number of either.
THEOREM TransfersTypeCorrect == Spec => []TypeOK
<1>1. Inv => TypeOK
  BY DEF Inv, TypeInv
<1> QED BY <1>1, TransfersAlwaysInv, PTL

-----------------------------------------------------------------------------
(* The refinement of TransferTasks.                                        *)

Returned == pool.pc = "returned"

LEMMA PromiseInit == Init => Promise!Init
BY TransferAssumption DEF Init, Promise!Init, Tasks

LEMMA PromiseStep ==
    ASSUME Inv, TokenType, [Next]_vars
    PROVE  [Promise!Next]_Promise!vars
<1> USE DEF Inv, TypeInv, PoolInv, Promise!vars
<1>1. CASE PoolStep /\ ~Take /\ ~Leave
  <2>1. UNCHANGED <<results, remote>> /\ ~Returned /\ pool'.pc # "returned"
    <3>1. CASE SubmitNext
      BY <3>1 DEF SubmitNext, PoolFrame, PoolType, Returned
    <3>2. CASE Loop
      BY <3>2 DEF Loop, Exit, PoolFrame, PoolType, Returned
    <3>3. CASE Wait
      BY <3>3 DEF Wait, PoolFrame, PoolType, Returned
    <3>4. CASE Pause
      BY <3>4 DEF Pause, Exit, PoolFrame, PoolType, Returned
    <3> QED BY <1>1, <3>1, <3>2, <3>3, <3>4 DEF PoolStep
  <2> QED BY <2>1 DEF Returned
<1>2. CASE Take
  <2>1. UNCHANGED remote /\ pool.pc = "take"
    BY <1>2 DEF Take, PoolFrame
  <2>2. CASE pool.done = {} /\ pool' = [pool EXCEPT !.pc = "submit"] /\ UNCHANGED results
    BY <2>1, <2>2 DEF PoolType
  <2>3. ASSUME NEW t \in pool.done,
               LET o == thread[t].outcome IN
               /\ IF o = "error" THEN Exit("raised") ELSE pool' = [pool EXCEPT !.done = @ \ {t}]
               /\ results' = IF o = "ok" THEN [results EXCEPT ![t] = @ + 1] ELSE results
        PROVE  [Promise!Next]_Promise!vars
    <3>1. pool'.pc # "returned"
      BY <2>1, <2>3 DEF Exit, PoolType
    <3>2. t \in Tasks /\ t \in inFlight /\ thread[t].pc = "ended"
      BY DEF PoolType, DoneHaveEnded
    <3>3. results[t] = 0 /\ (thread[t].outcome = "ok" => t \in remote)
      BY <3>2 DEF EachOnce, ThreadsServe, ThreadServes
    <3>4. CASE thread[t].outcome = "ok"
      <4>1. results' = [results EXCEPT ![t] = 1]
        BY <2>3, <3>3, <3>4 DEF TypeOK
      <4>2. Promise!Report(t)
        BY <2>1, <3>1, <3>3, <3>4, <4>1 DEF Promise!Report
      <4> QED BY <3>2, <4>2 DEF Promise!Next
    <3>5. CASE thread[t].outcome # "ok"
      BY <2>1, <2>3, <3>1, <3>5
    <3> QED BY <3>4, <3>5
  <2> QED BY <1>2, <2>2, <2>3 DEF Take
<1>3. CASE Leave
  <2>1. /\ UNCHANGED <<results, remote>> /\ pool.pc = "exit"
        /\ pool'.pc = "returned" /\ pool'.how = pool.how
    BY <1>3 DEF Leave, PoolFrame, PoolType
  <2>2. pool.how = "ok" => \A t \in Tasks : results[t] = 1
    <3> SUFFICES ASSUME pool.how = "ok", NEW t \in Tasks PROVE results[t] = 1
      OBVIOUS
    <3>1. inFlight = {} /\ pending = <<>> /\ deferred = {}
      BY <2>1 DEF EndsWell, AtEnd, AllSeenTo
    <3>2. Listed(pending) = {}
      BY <3>1 DEF Listed
    <3> QED BY <3>1, <3>2 DEF NoneForgotten
  <2>3. Promise!Return
    BY <2>1, <2>2 DEF Promise!Return, PoolType
  <2> QED BY <2>3 DEF Promise!Next
<1>4. CASE Cancel
  BY <1>4 DEF Cancel, poolVars
<1>5. ASSUME NEW t \in Tasks, ThreadStep(t) PROVE [Promise!Next]_Promise!vars
  <2>1. CASE UNCHANGED <<poolVars, thread, cancel, remote>>
    BY <2>1 DEF poolVars
  <2>2. CASE ThreadMoves(t)
    <3>1. UNCHANGED <<pool, results>> /\ remote' \in {remote, remote \cup {t}}
      BY <2>2 DEF ThreadMoves, ThreadFrame, poolVars
    <3>2. pool.pc # "returned"
      BY <2>2 DEF ThreadMoves, EndsWell
    <3>3. CASE remote' = remote
      BY <3>1, <3>3
    <3>4. CASE remote' = remote \cup {t}
      <4>1. Promise!Store(t)
        BY <3>1, <3>2, <3>4 DEF Promise!Store
      <4> QED BY <4>1 DEF Promise!Next
    <3> QED BY <3>1, <3>3, <3>4
  <2> QED BY <1>5, <2>1, <2>2, ThreadStepMoves
<1>6. CASE UNCHANGED vars
  BY <1>6 DEF vars
<1> QED BY <1>1, <1>2, <1>3, <1>4, <1>5, <1>6 DEF Next

\* run_bounded_transfers keeps its promise for any number of tasks and threads: nothing
\* is stored once it has returned, each object is reported at most once and only when it
\* is stored, and a normal return means that all of them are.
THEOREM TransfersKeepPromise == Spec => KeepsPromise
<1>1. Inv /\ TokenType /\ [Next]_vars => [Promise!Next]_Promise!vars
  BY PromiseStep
<1>2. Spec => Promise!Init /\ [][Promise!Next]_Promise!vars
  BY <1>1, PromiseInit, TransfersAlwaysInv, PTL DEF Spec
<1> QED BY <1>2 DEF KeepsPromise, Promise!Spec

-----------------------------------------------------------------------------
(* The refresh token.                                                      *)

Refreshing(t) == thread[t].pc = "refresh"
Storing(t) == thread[t].pc = "store"
Between(t) == thread[t].pc = "again"

\* While no reply is lost, and none reads the table while another is between its writes,
\* the token is handed on from thread to thread: one that refreshes has read the stored one
\* or an older one, and of those that are writing there is one.  Before its first write it
\* has read the stored one and brings its successor, which is the one the service takes;
\* before the second that one is stored, and none of those that refresh has read it.
TokenInv ==
    ~token.lost /\ ~token.crossed =>
        /\ \A t \in Tasks : Refreshing(t) => thread[t].read <= token.stored
        /\ \A t \in Tasks : Storing(t) =>
             thread[t].read = token.stored /\ token.good = token.stored + 1
        /\ \A t \in Tasks : Between(t) =>
             /\ thread[t].read + 1 = token.stored /\ token.good = token.stored
             /\ \A u \in Tasks : Refreshing(u) => thread[u].read < token.stored
        /\ \A t, u \in Tasks : (Storing(t) \/ Between(t)) /\ (Storing(u) \/ Between(u)) => t = u
        /\ token.stored = token.good \/ \E t \in Tasks : Storing(t)

\* A step that neither touches the token nor brings a thread to it or away from it.
LEMMA TokenApart ==
    ASSUME TokenInv, token' = token,
           \A t \in Tasks : Storing(t) => thread'[t] = thread[t],
           \A t \in Tasks : thread'[t].pc \in {"refresh", "store", "again"} =>
             thread'[t].pc = thread[t].pc /\ thread'[t].read = thread[t].read
    PROVE  TokenInv'
BY DEF TokenInv, Refreshing, Storing, Between

LEMMA TokenInit == Init => TokenInv
BY DEF Init, TokenInv, Refreshing, Storing, Between, NoThread

\* The pool gives threads only tasks that none works on.
LEMMA SubmitLeavesThreads ==
    ASSUME Inv, NEW list \in Seq(Tasks), Distinct(list),
           \A t \in Listed(list) : t \notin inFlight, Submit(list)
    PROVE  \A t \in Tasks : thread'[t] = thread[t] \/
             (thread[t].pc \in {"none", "ended"} /\ thread'[t].pc = "queued")
<1>1. PICK new \in SUBSET Listed(list) :
        thread' = [t \in Tasks |-> IF t \in new THEN [NoThread EXCEPT !.pc = "queued"]
                                  ELSE thread[t]]
  BY SubmitSplits DEF Inv
<1>2. \A t \in Tasks : t \in new => thread[t].pc \in {"none", "ended"}
  BY DEF Inv, PoolInv, ThreadsServe, ThreadServes
<1> QED BY <1>1, <1>2 DEF NoThread

LEMMA PoolLeavesThreads ==
    ASSUME Inv, PoolStep
    PROVE  \A t \in Tasks : thread'[t] = thread[t] \/
             (thread[t].pc \in {"none", "ended"} /\ thread'[t].pc = "queued")
<1>1. CASE SubmitNext
  <2>1. pending \in Seq(Tasks) /\ Distinct(pending) /\ \A t \in Listed(pending) : t \notin inFlight
    BY DEF Inv, TypeInv, TypeOK, PoolInv, EachOnce
  <2>2. Submit(pending)
    BY <1>1 DEF SubmitNext
  <2> QED BY <2>1, <2>2, SubmitLeavesThreads
<1>2. CASE Loop \/ Wait \/ Take \/ Leave
  BY <1>2 DEF Loop, Wait, Take, Leave
<1>3. CASE Pause
  <2>1. CASE UNCHANGED thread
    BY <2>1
  <2>2. ASSUME NEW list \in [1..Cardinality(deferred) -> deferred],
               {list[k] : k \in DOMAIN list} = deferred, Submit(pending \o list)
        PROVE  \A t \in Tasks : thread'[t] = thread[t] \/
                 (thread[t].pc \in {"none", "ended"} /\ thread'[t].pc = "queued")
    <3> DEFINE both == pending \o list
    <3>1. /\ both \in Seq(Tasks) /\ Distinct(both)
          /\ Listed(both) = Listed(pending) \cup deferred
      BY <2>2, RetryList
    <3>2. \A t \in Listed(both) : t \notin inFlight
      BY <3>1 DEF Inv, PoolInv, EachOnce
    <3>3. Submit(both)
      BY <2>2
    <3> HIDE DEF both
    <3> QED BY <3>1, <3>2, <3>3, SubmitLeavesThreads
  <2> QED BY <1>3, <2>1, <2>2 DEF Pause
<1> QED BY <1>1, <1>2, <1>3 DEF PoolStep

LEMMA TokenStep ==
    ASSUME Inv, TokenType, TokenInv, [Next]_vars
    PROVE  TokenInv'
<1> USE DEF Refreshing, Storing, Between
<1>a. thread \in [Tasks -> Thread] /\ \A t \in Tasks : thread[t].read \in Nat
  BY DEF Inv, TypeInv, TypeOK, Thread
<1>b. token.good \in Nat /\ token.stored \in Nat /\ token.lost \in BOOLEAN /\ token.crossed \in BOOLEAN
  BY DEF TokenType
<1>1. CASE PoolStep
  <2>1. UNCHANGED token
    BY <1>1 DEF PoolStep, PoolFrame, SubmitNext, Loop, Wait, Take, Pause, Leave
  <2> QED BY <1>1, <2>1, PoolLeavesThreads, TokenApart
<1>2. CASE Cancel
  BY <1>2, TokenApart DEF Cancel
<1>3. ASSUME NEW t \in Tasks, Start(t) \/ Call(t) \/ CallFails(t) \/ CallRefused(t)
      PROVE  TokenInv'
  <2>1. UNCHANGED token /\ thread[t].pc \in Calls \cup {"queued"}
    BY <1>3 DEF Start, Call, CallFails, CallRefused, At
  <2>2. PICK new \in Thread : /\ thread' = [thread EXCEPT ![t] = new]
                             /\ new.pc \notin {"refresh", "store", "again"}
    <3>1. TypeInv
      BY DEF Inv
    <3>2. ASSUME NEW pc \in Calls, Go(t, pc)
          PROVE  \E new \in Thread : /\ thread' = [thread EXCEPT ![t] = new]
                                     /\ new.pc \notin {"refresh", "store", "again"}
      BY <3>1, <3>2, GoMoves DEF ThreadPc, Calls
    <3>3. ASSUME NEW outcome \in {"ok", "frequency", "error"}, End(t, outcome)
          PROVE  \E new \in Thread : /\ thread' = [thread EXCEPT ![t] = new]
                                     /\ new.pc \notin {"refresh", "store", "again"}
      BY <3>1, <3>3, EndMoves
    <3>4. ASSUME NEW stage, Give(t, stage)
          PROVE  \E new \in Thread : /\ thread' = [thread EXCEPT ![t] = new]
                                     /\ new.pc \notin {"refresh", "store", "again"}
      BY <3>1, <3>4, GiveMoves
    <3>5. CASE Start(t)
      BY <3>2, <3>5 DEF Start, Calls
    <3>6. CASE Call(t)
      <4>1. (\E pc \in Calls : Go(t, pc)) \/ \E outcome \in {"ok", "error"} : End(t, outcome)
        BY <3>6 DEF Call, At, Calls
      <4> QED BY <4>1, <3>2, <3>3
    <3>7. CASE CallFails(t)
      <4>1. CASE thread[t].attempt < Attempts
        BY <3>1, <3>7, <4>1, RetryMoves DEF CallFails, At, Calls
      <4>2. CASE ~(thread[t].attempt < Attempts)
        BY <3>4, <3>7, <4>2 DEF CallFails
      <4> QED BY <4>1, <4>2
    <3>8. CASE CallRefused(t)
      BY <3>3, <3>4, <3>8 DEF CallRefused
    <3> QED BY <1>3, <3>5, <3>6, <3>7, <3>8
  <2>3. \A u \in Tasks : thread'[u] = IF u = t THEN new ELSE thread[u]
    BY <1>a, <2>2
  <2>4. thread[t].pc \notin {"refresh", "store", "again"}
    BY <2>1 DEF Calls
  <2> QED BY <2>1, <2>2, <2>3, <2>4, TokenApart
<1>4. ASSUME NEW t \in Tasks, LoadToken(t) \/ PersistAccess(t) PROVE TokenInv'
  <2>1. PICK new \in Thread : /\ thread' = [thread EXCEPT ![t] = new]
                             /\ new.pc \notin {"refresh", "store", "again"}
    <3>1. CASE LoadToken(t)
      <4> DEFINE new == [thread[t] EXCEPT !.pc = "read", !.stage = thread[t].pc]
      <4>1. CASE token.saved
        BY <1>a, <3>1, <4>1 DEF LoadToken, NeedsToken
      <4>2. CASE ~token.saved
        <5>1. new \in Thread /\ new.pc = "read"
          BY <1>a, <3>1 DEF LoadToken, NeedsToken, Thread, ThreadPc, Calls
        <5>2. thread' = [thread EXCEPT ![t] = new]
          BY <1>a, <3>1, <4>2 DEF LoadToken
        <5> QED BY <5>1, <5>2
      <4> QED BY <4>1, <4>2
    <3>2. CASE PersistAccess(t)
      <4>1. thread[t].stage \in Calls /\ Calls \subseteq ThreadPc \ {"none", "ended"}
        BY <1>a DEF Thread, ThreadPc, Calls
      <4>2. \E new \in Thread : /\ thread' = [thread EXCEPT ![t] = new]
                                /\ new.pc = thread[t].stage
        BY <3>2, <4>1, GoMoves DEF PersistAccess, Inv
      <4> QED BY <4>1, <4>2 DEF Calls
    <3> QED BY <1>4, <3>1, <3>2
  <2>2. \A u \in Tasks : thread'[u] = IF u = t THEN new ELSE thread[u]
    BY <1>a, <2>1
  <2>3. thread[t].pc \notin {"refresh", "store", "again"}
    BY <1>4 DEF LoadToken, NeedsToken, PersistAccess
  <2>4. /\ token'.good = token.good /\ token'.stored = token.stored
        /\ token'.lost = token.lost /\ token'.crossed = token.crossed
    BY <1>4 DEF LoadToken, PersistAccess, TokenType
  <2>5. /\ \A u \in Tasks : Storing(u) => thread'[u] = thread[u]
        /\ \A u \in Tasks : thread'[u].pc \in {"refresh", "store", "again"} =>
             thread'[u].pc = thread[u].pc /\ thread'[u].read = thread[u].read
    BY <2>1, <2>2, <2>3
  <2> QED BY <2>4, <2>5 DEF TokenInv
<1>10. ASSUME NEW t \in Tasks, ReadRefreshToken(t) PROVE TokenInv'
  <2>1. /\ thread' = [thread EXCEPT ![t].pc = "refresh", ![t].attempt = 1,
                                    ![t].read = token.stored]
        /\ token' = [token EXCEPT !.crossed = @ \/ \E u \in Tasks : Between(u)]
        /\ thread[t].pc = "read"
    BY <1>10 DEF ReadRefreshToken
  <2>2. /\ thread'[t].pc = "refresh" /\ thread'[t].read = token.stored
        /\ \A u \in Tasks \ {t} : thread'[u] = thread[u]
    BY <1>a, <2>1 DEF Thread
  <2>3. /\ token'.good = token.good /\ token'.stored = token.stored
        /\ token'.lost = token.lost
        /\ ~token'.crossed => ~token.crossed /\ \A u \in Tasks : ~Between(u)
    BY <2>1 DEF TokenType
  <2> SUFFICES ASSUME ~token.lost, ~token.crossed, \A u \in Tasks : ~Between(u)
               PROVE  TokenInv'
    BY <2>3 DEF TokenInv
  <2>4. \A u \in Tasks : thread'[u].pc = "refresh" => thread'[u].read <= token.stored
    BY <1>b, <2>2 DEF TokenInv
  <2>5. \A u \in Tasks : /\ thread'[u].pc = "store" <=> Storing(u)
                         /\ thread'[u].pc # "again"
                         /\ Storing(u) => thread'[u].read = thread[u].read
    BY <2>1, <2>2
  <2> QED BY <2>3, <2>4, <2>5 DEF TokenInv
<1>5. ASSUME NEW t \in Tasks, NEW stage, thread[t].pc = "refresh", Give(t, stage),
             UNCHANGED token
      PROVE  TokenInv'
  <2>1. PICK new \in Thread : thread' = [thread EXCEPT ![t] = new]
                             /\ new.pc \notin {"refresh", "store", "again"}
    BY <1>5, GiveMoves DEF Inv
  <2>2. \A u \in Tasks : thread'[u] = IF u = t THEN new ELSE thread[u]
    BY <1>a, <2>1
  <2> QED BY <1>5, <2>1, <2>2, TokenApart
<1>6. ASSUME NEW t \in Tasks, Refresh(t) PROVE TokenInv'
  <2>1. CASE thread[t].read = token.good
    <3>1. /\ token' = [token EXCEPT !.good = @ + 1] /\ thread[t].pc = "refresh"
          /\ thread' = [thread EXCEPT ![t].pc = "store", ![t].attempt = 1]
      BY <1>6, <2>1 DEF Refresh, Go
    <3>2. /\ token'.good = token.good + 1 /\ token'.stored = token.stored
          /\ token'.lost = token.lost /\ token'.crossed = token.crossed
      BY <3>1 DEF TokenType
    <3>3. /\ thread'[t].pc = "store" /\ thread'[t].read = thread[t].read
          /\ \A u \in Tasks \ {t} : thread'[u] = thread[u]
      BY <1>a, <3>1 DEF Thread
    <3> SUFFICES ASSUME ~token.lost, ~token.crossed PROVE TokenInv'
      BY <3>2 DEF TokenInv
    <3>4. /\ thread[t].read = token.stored /\ token.good = token.stored
          /\ \A u \in Tasks : ~Storing(u) /\ ~Between(u)
      BY <1>a, <1>b, <2>1, <3>1 DEF TokenInv
    <3>5. \A u \in Tasks : thread'[u].pc = "refresh" => thread'[u].read <= token.stored
      BY <3>3 DEF TokenInv
    <3>6. \A u \in Tasks : (thread'[u].pc = "store" => u = t) /\ thread'[u].pc # "again"
      BY <3>3, <3>4
    <3> QED BY <3>2, <3>3, <3>4, <3>5, <3>6 DEF TokenInv
  <2>2. CASE thread[t].read # token.good
    BY <1>5, <1>6, <2>2 DEF Refresh
  <2> QED BY <2>1, <2>2
<1>7. ASSUME NEW t \in Tasks, RefreshFails(t) PROVE TokenInv'
  <2>1. CASE token' = [token EXCEPT !.good = @ + 1, !.lost = TRUE]
    <3>1. token'.lost = TRUE
      BY <2>1 DEF TokenType
    <3> QED BY <3>1 DEF TokenInv
  <2>2. CASE UNCHANGED token /\ thread[t].attempt < Attempts
    <3>1. thread' = [thread EXCEPT ![t].attempt = @ + 1] /\ thread[t].pc = "refresh"
      BY <1>7, <2>2 DEF RefreshFails
    <3>2. /\ thread'[t].pc = thread[t].pc /\ thread'[t].read = thread[t].read
          /\ \A u \in Tasks \ {t} : thread'[u] = thread[u]
      BY <1>a, <3>1 DEF Thread
    <3> QED BY <2>2, <3>1, <3>2, TokenApart
  <2>3. CASE UNCHANGED token /\ ~(thread[t].attempt < Attempts)
    BY <1>5, <1>7, <2>3 DEF RefreshFails
  <2> QED BY <1>7, <2>1, <2>2, <2>3 DEF RefreshFails
<1>8. ASSUME NEW t \in Tasks, StoreToken(t) \/ StoreTokenAgain(t) PROVE TokenInv'
  <2>1. PICK pc \in {"again", "persist"} :
          /\ thread' = [thread EXCEPT ![t].pc = pc, ![t].attempt = 1]
          /\ \/ pc = "again" /\ Storing(t)
             \/ pc = "persist" /\ Between(t)
    BY <1>8 DEF StoreToken, StoreTokenAgain, WriteToken, Go
  <2>2. token' = [token EXCEPT !.stored = thread[t].read + 1]
    BY <1>8 DEF StoreToken, StoreTokenAgain, WriteToken
  <2>3. /\ token'.good = token.good /\ token'.stored = thread[t].read + 1
        /\ token'.lost = token.lost /\ token'.crossed = token.crossed
    BY <2>2 DEF TokenType
  <2>4. /\ thread'[t].pc = pc /\ thread'[t].read = thread[t].read
        /\ \A u \in Tasks \ {t} : thread'[u] = thread[u]
    BY <1>a, <2>1 DEF Thread
  <2> SUFFICES ASSUME ~token.lost, ~token.crossed PROVE TokenInv'
    BY <2>3 DEF TokenInv
  <2>5. /\ token.good = thread[t].read + 1
        /\ \A u \in Tasks \ {t} : ~Storing(u) /\ ~Between(u)
        /\ \A u \in Tasks : Refreshing(u) => thread[u].read < thread[t].read + 1
    BY <1>a, <1>b, <2>1 DEF TokenInv
  <2>6. \A u \in Tasks : thread'[u].pc = "refresh" => thread'[u].read < token'.stored
    BY <2>1, <2>3, <2>4, <2>5
  <2>7. \A u \in Tasks : thread'[u].pc # "store" /\ (thread'[u].pc = "again" => u = t)
    BY <2>1, <2>4, <2>5
  <2>8. \A u \in Tasks : thread'[u].pc = "refresh" => thread'[u].read <= token'.stored
    BY <1>a, <2>3, <2>4, <2>6
  <2> QED BY <2>3, <2>4, <2>5, <2>6, <2>7, <2>8 DEF TokenInv
<1>9. CASE UNCHANGED vars
  BY <1>9, TokenApart DEF vars
<1> QED BY <1>1, <1>2, <1>3, <1>4, <1>6, <1>7, <1>8, <1>9, <1>10 DEF Next, ThreadStep

\* However many threads refresh the access token at once, the refresh token in the table
\* settings is the one the service takes, or is about to be written, unless a reply of
\* the service was lost or a thread has read the table between the two writes of another
\* (_load_access_token, persist_baidu_token).
THEOREM RefreshTokenIsKept == Spec => []TokenIsKept
<1>1. TokenInv => TokenIsKept
  BY DEF TokenInv, TokenIsKept, Storing
<1>2. Inv /\ TokenType /\ TokenInv /\ [Next]_vars => TokenInv'
  BY TokenStep
<1>3. Spec => []TokenInv
  BY <1>2, TokenInit, TransfersAlwaysInv, PTL DEF Spec
<1> QED BY <1>1, <1>3, PTL

=============================================================================
