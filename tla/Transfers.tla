----------------------------- MODULE Transfers -----------------------------
(***************************************************************************)
(* The pool of threads that upload the segments of an import               *)
(* (services/remote_transfers.py, services/imports.py), each through the   *)
(* calls of the Baidu client with their retries (storage/baidu.py,         *)
(* storage/baidu_api.py), with an access token that may first have to be   *)
(* refreshed (services/baidu_oauth.py).                                    *)
(*                                                                         *)
(* A step of the pool is one pass through a part of its loop; a step of a  *)
(* thread is one call of the remote, and the reply may be lost.            *)
(***************************************************************************)
EXTENDS Integers, FiniteSets, Sequences

CONSTANTS TaskCount,   (* tasks are 1..TaskCount                            *)
          WorkerCount, (* upload_transfer_concurrency                       *)
          Attempts,    (* of one call: the retry delays, and one more       *)
          StoredFirst, (* objects the remote holds already                  *)
          Rapid,       (* objects whose content the remote knows            *)
          MaxFaults    (* bound: failures of calls                          *)

ASSUME TransferAssumption ==
    /\ TaskCount \in Nat /\ WorkerCount \in Nat \ {0} /\ Attempts \in Nat \ {0}
    /\ StoredFirst \subseteq 1..TaskCount /\ Rapid \subseteq 1..TaskCount
    /\ MaxFaults \in Nat

VARIABLES pending,   (* pending_tasks from next_task_index on               *)
          inFlight,  (* the futures of the pool, by task                    *)
          deferred,  (* deferred_retries                                    *)
          results,   (* how often each task is in results                   *)
          pool,      (* the thread that runs the loop                       *)
          thread,    (* the future of a task                                *)
          cancel,    (* cancel_requested of the job                         *)
          remote,    (* the objects stored at Baidu                         *)
          token,     (* refresh tokens, numbered as they are issued         *)
          faults

poolVars == <<pending, inFlight, deferred, results, pool>>
vars == <<pending, inFlight, deferred, results, pool, thread, cancel, remote, token,
          faults>>

Tasks == 1..TaskCount

\* pc is the call a thread is about to make: it looks for the object (size),
\* uploads it, and looks again (verify); stage is where a token it lacked takes it.
Calls == {"size", "precreate", "tmpfile", "create", "verify"}
ThreadPc == Calls \cup {"none", "queued", "read", "refresh", "store", "again", "persist", "ended"}
Thread == [pc : ThreadPc, stage : Calls, attempt : 1..Attempts, read : Nat,
           outcome : {"none", "ok", "frequency", "error"}]
NoThread == [pc |-> "none", stage |-> "size", attempt |-> 1, read |-> 0, outcome |-> "none"]

\* good is the refresh token the service accepts, stored the one in the table
\* settings, access whether the back end holds a token, saved whether settings does.
\* lost and crossed are history: a reply with a new token was lost; a thread has read the
\* table while another was between its two writes.
Init ==
    /\ pending = [k \in 1..TaskCount |-> k]
    /\ inFlight = {} /\ deferred = {}
    /\ results = [t \in Tasks |-> 0]
    /\ pool = [pc |-> "submit", done |-> {}, how |-> "ok"]
    /\ thread = [t \in Tasks |-> NoThread]
    /\ cancel = FALSE
    /\ remote = StoredFirst
    /\ \E saved \in BOOLEAN : token =
         [good |-> 0, stored |-> 0, access |-> FALSE, saved |-> saved, lost |-> FALSE,
          crossed |-> FALSE]
    /\ faults = 0

-----------------------------------------------------------------------------
(* run_bounded_transfers.                                                  *)

PoolFrame == UNCHANGED <<cancel, remote, token, faults>>

Exit(how) == pool' = [pc |-> "exit", done |-> {}, how |-> how]

\* submit_next.
Submit(list) ==
    LET n == WorkerCount - Cardinality(inFlight)
        k == IF n < Len(list) THEN n ELSE Len(list)
        new == {list[j] : j \in 1..k} IN
    /\ pending' = SubSeq(list, k + 1, Len(list))
    /\ inFlight' = inFlight \cup new
    /\ thread' = [t \in Tasks |-> IF t \in new THEN [NoThread EXCEPT !.pc = "queued"]
                                  ELSE thread[t]]

\* Mutated form of SubmitNext: a batch of WorkerCount, whatever is still in flight.
SubmitBatch ==
    /\ pool.pc = "submit"
    /\ LET k == IF WorkerCount < Len(pending) THEN WorkerCount ELSE Len(pending)
           new == {pending[j] : j \in 1..k} IN
       /\ pending' = SubSeq(pending, k + 1, Len(pending)) /\ inFlight' = inFlight \cup new
       /\ thread' = [t \in Tasks |-> IF t \in new THEN [NoThread EXCEPT !.pc = "queued"]
                                     ELSE thread[t]]
    /\ pool' = [pool EXCEPT !.pc = IF inFlight' = {} /\ deferred # {} THEN "pause" ELSE "loop"]
    /\ UNCHANGED <<deferred, results>> /\ PoolFrame

\* Before the loop, and after the futures that are done have been seen to.
SubmitNext ==
    /\ pool.pc = "submit"
    /\ Submit(pending)
    /\ pool' = [pool EXCEPT !.pc = IF inFlight' = {} /\ deferred # {} THEN "pause" ELSE "loop"]
    /\ UNCHANGED <<deferred, results>> /\ PoolFrame

\* throw_if_cancel_requested at the head of the loop.
Loop ==
    /\ pool.pc = "loop"
    /\ CASE inFlight = {} -> Exit("ok")
         [] inFlight # {} /\ cancel -> Exit("cancelled")
         [] OTHER -> pool' = [pool EXCEPT !.pc = "wait"]
    /\ UNCHANGED <<pending, inFlight, deferred, results, thread>> /\ PoolFrame

\* Mutated form of Wait: waits for as many as the pool has threads.
WaitForAll ==
    LET done == {t \in inFlight : thread[t].pc = "ended"} IN
    /\ pool.pc = "wait" /\ Cardinality(done) = WorkerCount
    /\ pool' = [pool EXCEPT !.pc = "take", !.done = done]
    /\ UNCHANGED <<pending, inFlight, deferred, results, thread>> /\ PoolFrame

\* wait(FIRST_COMPLETED) returns those that have ended by now.
Wait ==
    LET done == {t \in inFlight : thread[t].pc = "ended"} IN
    /\ pool.pc = "wait" /\ done # {}
    /\ pool' = [pool EXCEPT !.pc = "take", !.done = done]
    /\ UNCHANGED <<pending, inFlight, deferred, results, thread>> /\ PoolFrame

\* The next of them: on_exception defers a task that was refused as too frequent;
\* after another exception the rest is not looked at.
Take ==
    /\ pool.pc = "take" /\ UNCHANGED <<pending, thread>> /\ PoolFrame
    /\ \/ /\ pool.done = {}
          /\ pool' = [pool EXCEPT !.pc = "submit"]
          /\ UNCHANGED <<inFlight, deferred, results>>
       \/ \E t \in pool.done :
          LET o == thread[t].outcome IN
          /\ inFlight' = inFlight \ {t}
          /\ IF o = "error" THEN Exit("raised") ELSE pool' = [pool EXCEPT !.done = @ \ {t}]
          /\ results' = IF o = "ok" THEN [results EXCEPT ![t] = @ + 1] ELSE results
          /\ deferred' = IF o = "frequency" THEN deferred \cup {t} ELSE deferred

\* _wait_for_deferred_retries ends when the time is over or the job is cancelled;
\* then the tasks are submitted.  Their order is that of the exceptions; here any.
Pause ==
    /\ pool.pc = "pause"
    /\ \/ /\ cancel
          /\ Exit("cancelled") /\ UNCHANGED <<pending, inFlight, thread, deferred>>
       \/ /\ \E list \in [1..Cardinality(deferred) -> deferred] :
                /\ {list[k] : k \in DOMAIN list} = deferred
                /\ Submit(pending \o list)
          /\ deferred' = {}
          /\ pool' = [pool EXCEPT !.pc = "loop"]
    /\ UNCHANGED results /\ PoolFrame

Running(t) == thread[t].pc \notin {"none", "queued", "ended"}

\* Mutated form of Leave: the executor is left without waiting.
LeaveAtOnce ==
    /\ pool.pc = "exit"
    /\ pool' = [pool EXCEPT !.pc = "returned"]
    /\ UNCHANGED <<pending, inFlight, deferred, results, thread>> /\ PoolFrame

\* Leaving the executor waits for all that was submitted, begun or not.
Leave ==
    /\ pool.pc = "exit"
    /\ \A t \in Tasks : thread[t].pc \in {"none", "ended"}
    /\ pool' = [pool EXCEPT !.pc = "returned"]
    /\ UNCHANGED <<pending, inFlight, deferred, results, thread>> /\ PoolFrame

PoolStep == SubmitNext \/ Loop \/ Wait \/ Take \/ Pause \/ Leave

\* A request cancels the job.
Cancel ==
    /\ ~cancel /\ pool.pc # "returned"
    /\ cancel' = TRUE
    /\ UNCHANGED <<poolVars, thread, remote, token, faults>>

-----------------------------------------------------------------------------
(* A thread: upload_artifact.                                              *)

Go(t, pc) == thread' = [thread EXCEPT ![t].pc = pc, ![t].attempt = 1]
End(t, outcome) == thread' = [thread EXCEPT ![t].pc = "ended", ![t].outcome = outcome]
ThreadFrame == UNCHANGED <<poolVars, cancel>>
Fault == faults < MaxFaults /\ faults' = faults + 1

\* get_file_size reports every failure as a missing object; that of another call
\* is raised.
Give(t, stage) == IF stage = "size" THEN Go(t, "precreate") ELSE End(t, "error")

Start(t) ==
    /\ thread[t].pc = "queued"
    /\ Cardinality({u \in Tasks : Running(u)}) < WorkerCount
    /\ Go(t, "size")
    /\ ThreadFrame /\ UNCHANGED <<remote, token, faults>>

\* _load_access_token, before each of the operations of the back end.  A token is saved
\* when both it and its expiry are: they are written one after the other, and one that is
\* read without the other is none.
NeedsToken(t) == thread[t].pc \in {"size", "precreate"} /\ ~token.access
LoadToken(t) ==
    /\ NeedsToken(t)
    /\ IF token.saved
       THEN token' = [token EXCEPT !.access = TRUE] /\ UNCHANGED thread
       ELSE /\ thread' = [thread EXCEPT ![t].pc = "read", ![t].stage = thread[t].pc]
            /\ UNCHANGED token
    /\ ThreadFrame /\ UNCHANGED <<remote, faults>>

\* get_baidu_refresh_token.
ReadRefreshToken(t) ==
    /\ thread[t].pc = "read"
    /\ thread' = [thread EXCEPT ![t].pc = "refresh", ![t].attempt = 1,
                                ![t].read = token.stored]
    /\ token' = [token EXCEPT !.crossed = @ \/ \E u \in Tasks : thread[u].pc = "again"]
    /\ ThreadFrame /\ UNCHANGED <<remote, faults>>

\* refresh_access_token: the service issues a new refresh token and takes the
\* old one no longer.
Refresh(t) ==
    /\ thread[t].pc = "refresh"
    /\ IF thread[t].read = token.good
       THEN /\ token' = [token EXCEPT !.good = @ + 1]
            /\ Go(t, "store")
       ELSE Give(t, thread[t].stage) /\ UNCHANGED token
    /\ ThreadFrame /\ UNCHANGED <<remote, faults>>

\* The call fails on its way there, or its reply is lost: it is made again.
RefreshFails(t) ==
    /\ thread[t].pc = "refresh" /\ Fault
    /\ \/ UNCHANGED token
       \/ /\ thread[t].read = token.good
          /\ token' = [token EXCEPT !.good = @ + 1, !.lost = TRUE]
    /\ IF thread[t].attempt < Attempts THEN thread' = [thread EXCEPT ![t].attempt = @ + 1]
       ELSE Give(t, thread[t].stage)
    /\ ThreadFrame /\ UNCHANGED remote

\* The thread writes the refresh token it was given, twice: _load_access_token does, and
\* persist_baidu_token does again.
WriteToken(t, from, to) ==
    /\ thread[t].pc = from
    /\ token' = [token EXCEPT !.stored = thread[t].read + 1]
    /\ Go(t, to)
    /\ ThreadFrame /\ UNCHANGED <<remote, faults>>

\* Mutated form of StoreToken: the refresh token that was used is kept.
StoreNothing(t) ==
    /\ thread[t].pc = "store"
    /\ Go(t, "persist")
    /\ ThreadFrame /\ UNCHANGED <<token, remote, faults>>

StoreToken(t)      == WriteToken(t, "store", "again")
StoreTokenAgain(t) == WriteToken(t, "again", "persist")

\* The rest of persist_baidu_token: the access token and its expiry, and then the one the
\* back end holds.
PersistAccess(t) ==
    /\ thread[t].pc = "persist"
    /\ token' = [token EXCEPT !.access = TRUE, !.saved = TRUE]
    /\ Go(t, thread[t].stage)
    /\ ThreadFrame /\ UNCHANGED <<remote, faults>>

\* What a call changes at the remote when it arrives there.
Effect(t) ==
    remote' = IF thread[t].pc = "create" \/ (thread[t].pc = "precreate" /\ t \in Rapid)
              THEN remote \cup {t} ELSE remote

At(t) == thread[t].pc \in Calls /\ ~NeedsToken(t)

\* A call succeeds.
Call(t) ==
    LET pc == thread[t].pc IN
    /\ At(t)
    /\ Effect(t)
    /\ CASE pc = "size"      -> IF t \in remote THEN End(t, "ok") ELSE Go(t, "precreate")
         [] pc = "precreate" -> Go(t, IF t \in Rapid THEN "verify" ELSE "tmpfile")
         [] pc = "tmpfile"   -> Go(t, "create")
         [] pc = "create"    -> Go(t, "verify")
         [] pc = "verify"    -> IF t \in remote THEN End(t, "ok") ELSE End(t, "error")
    /\ ThreadFrame /\ UNCHANGED <<token, faults>>

\* _run_with_retry: a call that fails in a way that may pass, on its way there or
\* on its way back, is made again; the last attempt raises.
CallFails(t) ==
    /\ At(t) /\ Fault
    /\ Effect(t) \/ UNCHANGED remote
    /\ IF thread[t].attempt < Attempts THEN thread' = [thread EXCEPT ![t].attempt = @ + 1]
       ELSE Give(t, thread[t].pc)
    /\ ThreadFrame /\ UNCHANGED token

\* An error that is not retried.  Error 9013 says that uploads come too often; a
\* create that had arrived before may be refused when it is made again.
CallRefused(t) ==
    /\ At(t) /\ UNCHANGED remote
    /\ \/ Fault
       \/ thread[t].pc = "create" /\ t \in remote /\ UNCHANGED faults
    /\ \/ Give(t, thread[t].pc)
       \/ /\ thread[t].pc \notin {"size", "verify"} /\ faults' # faults
          /\ End(t, "frequency")
    /\ ThreadFrame /\ UNCHANGED token

ThreadStep(t) ==
    \/ Start(t) \/ LoadToken(t) \/ ReadRefreshToken(t) \/ Refresh(t) \/ RefreshFails(t)
    \/ StoreToken(t) \/ StoreTokenAgain(t) \/ PersistAccess(t)
    \/ Call(t) \/ CallFails(t) \/ CallRefused(t)

Next == PoolStep \/ Cancel \/ \E t \in Tasks : ThreadStep(t)

\* The pool goes on while it can, and every call returns in the end.
Spec == Init /\ [][Next]_vars
FairSpec == Spec /\ WF_vars(PoolStep) /\ \A t \in Tasks : WF_vars(ThreadStep(t))

-----------------------------------------------------------------------------
(* Properties.                                                             *)

\* Every variable has the type its code has, and the pool never has more futures
\* than threads, so that a future waits only for a thread that is about to be free.
TypeOK ==
    /\ pending \in Seq(Tasks)
    /\ inFlight \subseteq Tasks /\ Cardinality(inFlight) <= WorkerCount
    /\ deferred \subseteq Tasks /\ remote \subseteq Tasks
    /\ results \in [Tasks -> Nat]
    /\ thread \in [Tasks -> Thread]
    /\ cancel \in BOOLEAN
    /\ pool.done \subseteq Tasks
    /\ pool.pc \in {"submit", "loop", "wait", "take", "pause", "exit", "returned"}
    /\ pool.how \in {"ok", "raised", "cancelled"}

\* The pool keeps the promise of TransferTasks, whatever calls fail, whichever
\* replies are lost, and whenever it is cancelled: nothing is stored
\* once it has returned, each object is reported at most once and only when it is
\* stored, and a normal return means that all are.
Promise == INSTANCE TransferTasks WITH
    stored <- remote,
    reported <- results,
    outcome <- IF pool.pc = "returned" THEN pool.how ELSE "running"
KeepsPromise == Promise!Spec

\* The pool returns, whatever it has deferred and however the last of its futures
\* end.
PoolReturns == <>(pool.pc = "returned")

\* The refresh token in the table is the one the service takes, or a thread is about to
\* write it, unless a reply of the service was lost: threads that refresh at once do not
\* overwrite a newer token with an older one.  One interleaving is excepted, in which they
\* do: a thread reads the token another has written once and not yet again, refreshes with
\* it and writes its successor before the other writes again (crossed).
TokenIsKept ==
    \/ token.stored = token.good \/ token.lost \/ token.crossed
    \/ \E t \in Tasks : thread[t].pc = "store"

=============================================================================
