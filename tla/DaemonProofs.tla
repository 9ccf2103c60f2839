----------------------------- MODULE DaemonProofs -----------------------------
(***************************************************************************)
(* What the daemon guarantees for any calls, requests, tokens and restarts.*)
(*                                                                         *)
(* First its idempotency table, for any number of threads, keys and        *)
(* entries.  The inductive invariant ties the table to the threads and to  *)
(* the history: a running thread owns the pending entry of its key, and a  *)
(* finished entry is an execution of the log.                              *)
(*                                                                         *)
(* Then the daemon.  Its step is a step of the table, so the table's       *)
(* invariant holds; the invariant here adds what a thread has established  *)
(* before its next step (the approval it judged, the run it reserved) and  *)
(* what the rows, the log and the envelopes owe to it.                     *)
(***************************************************************************)
EXTENDS Daemon, TLAPS

RunningOwnsEntry ==
  \A c \in Thread : thread[c].pc = "running" =>
    /\ thread[c].key \in Key /\ thread[c].req \in Request
    /\ cache[thread[c].key].st = "pending"
    /\ cache[thread[c].key].owner = c
    /\ cache[thread[c].key].req = thread[c].req

WaitingHasKey ==
  \A c \in Thread : thread[c].pc = "waiting" =>
    thread[c].key \in Key /\ thread[c].req \in Request /\ thread[c].owner \in Thread

Logged(l, k, q, res) ==
  \E i \in DOMAIN l : l[i] = [key |-> k, req |-> q, res |-> res]

DoneIsLogged ==
  \A k \in Key : cache[k].st = "done" =>
    /\ cache[k].req \in Request /\ cache[k].result \in Result
    /\ Logged(log, k, cache[k].req, cache[k].result)

PendingHasOwner ==
  \A k \in Key : cache[k].st = "pending" => cache[k].owner \in Thread /\ cache[k].req \in Request

IInv ==
  /\ IdemTypeOK /\ RunningOwnsEntry /\ WaitingHasKey
  /\ DoneIsLogged /\ PendingHasOwner /\ AnswersAreReal

\* A pruning leaves every entry as it is or removes it, and only removes
\* finished ones.
LEMMA PrunedEntries ==
  ASSUME NEW t \in [Key -> Entry]
  PROVE  /\ Pruned(t) \in [Key -> Entry]
         /\ \A k \in Key : Pruned(t)[k] = t[k] \/ (t[k].st = "done" /\ Pruned(t)[k] = NoEntry)
<1>1. NoEntry \in Entry
  BY DEF NoEntry, Entry
<1>2. Oldest(t) \subseteq {k \in Key : t[k].st = "done"}
  BY DEF Oldest, DoneKeys
<1>3. CASE Pruned(t) = t
  BY <1>3
<1>4. CASE Pruned(t) = [k \in Key |-> IF k \in Oldest(t) THEN NoEntry ELSE t[k]]
  BY <1>1, <1>2, <1>4
<1> QED
  BY <1>3, <1>4 DEF Pruned

\* The empty table satisfies the invariant.
LEMMA InitInv == IdemInit => IInv
<1> SUFFICES ASSUME IdemInit PROVE IInv
  OBVIOUS
<1>1. IdemTypeOK
  <2>1. None \in Key \cup {None} /\ None \in Request \cup {None} /\ 0 \in Nat
    OBVIOUS
  <2>2. cache \in [Key -> Entry]
    BY <2>1 DEF IdemInit, NoEntry, Entry
  <2>3. thread \in [Thread -> Call]
    BY <2>1 DEF IdemInit, Call
  <2>4. log \in Seq(Execution)
    BY DEF IdemInit
  <2> QED
    BY <2>2, <2>3, <2>4 DEF IdemTypeOK, IdemInit
<1>2. RunningOwnsEntry /\ WaitingHasKey /\ DoneIsLogged /\ PendingHasOwner
  BY DEF IdemInit, RunningOwnsEntry, WaitingHasKey, DoneIsLogged, PendingHasOwner, NoEntry
<1>3. AnswersAreReal
  BY IdemConstants DEF IdemInit, AnswersAreReal
<1> QED
  BY <1>1, <1>2, <1>3 DEF IInv

\* A step that leaves the table and the log alone and moves one idle or
\* waiting thread to a state the invariant allows keeps it.
LEMMA ServeInv ==
  ASSUME IInv, NEW c \in Thread, NEW row \in Call,
         thread[c].pc \in {"idle", "waiting"},
         thread' = [thread EXCEPT ![c] = row],
         UNCHANGED <<cache, log>>,
         row.pc \in {"waiting", "answered"},
         row.pc = "answered" <=> row.reply # None,
         row.pc = "waiting" => row.key \in Key /\ row.req \in Request /\ row.owner \in Thread,
         row.reply \in Result => Logged(log, row.key, row.req, row.reply)
  PROVE  IInv'
<1>1. thread'[c] = row /\ \A d \in Thread \ {c} : thread'[d] = thread[d]
  BY DEF IInv, IdemTypeOK
<1>2. IdemTypeOK'
  BY <1>1 DEF IInv, IdemTypeOK
<1>3. RunningOwnsEntry'
  BY <1>1 DEF IInv, RunningOwnsEntry
<1>4. WaitingHasKey'
  BY <1>1 DEF IInv, WaitingHasKey
<1>5. DoneIsLogged' /\ PendingHasOwner'
  BY DEF IInv, DoneIsLogged, PendingHasOwner, Logged
<1>6. AnswersAreReal'
  BY <1>1 DEF IInv, AnswersAreReal, Logged
<1> QED
  BY <1>2, <1>3, <1>4, <1>5, <1>6 DEF IInv

\* A call that finds no entry becomes the owner of a pending one.
LEMMA TakeKeyInv ==
  ASSUME IInv, NEW c \in Thread, NEW k \in Key, NEW q \in Request, TakeKey(c, k, q)
  PROVE  IInv'
<1> DEFINE entry == [st |-> "pending", req |-> q, owner |-> c, result |-> None, at |-> Len(log)]
           row == [pc |-> "running", key |-> k, req |-> q, owner |-> c, reply |-> None]
<1>1. entry \in Entry /\ row \in Call
  BY DEF Entry, Call, IInv, IdemTypeOK
<1>2. cache' = [cache EXCEPT ![k] = entry] /\ thread' = [thread EXCEPT ![c] = row] /\ log' = log
  BY DEF TakeKey, Serve
<1>3. /\ entry.st = "pending" /\ entry.req = q /\ entry.owner = c
      /\ row.pc = "running" /\ row.key = k /\ row.req = q /\ row.reply = None
  OBVIOUS
<1>4. thread[c].pc = "idle" /\ cache[k].st = "absent"
  BY DEF TakeKey, Free
<1> HIDE DEF entry, row
<1>5. /\ cache'[k] = entry /\ \A j \in Key \ {k} : cache'[j] = cache[j]
      /\ thread'[c] = row /\ \A d \in Thread \ {c} : thread'[d] = thread[d]
  BY <1>2 DEF IInv, IdemTypeOK
<1>6. IdemTypeOK'
  BY <1>1, <1>2, <1>3, <1>5 DEF IInv, IdemTypeOK
<1>7. RunningOwnsEntry'
  <2> SUFFICES ASSUME NEW d \in Thread, thread'[d].pc = "running"
               PROVE  /\ thread'[d].key \in Key /\ thread'[d].req \in Request
                      /\ cache'[thread'[d].key].st = "pending"
                      /\ cache'[thread'[d].key].owner = d
                      /\ cache'[thread'[d].key].req = thread'[d].req
    BY DEF RunningOwnsEntry
  <2>1. CASE d = c
    BY <2>1, <1>3, <1>5
  <2>2. CASE d # c
    BY <2>2, <1>4, <1>5 DEF IInv, RunningOwnsEntry
  <2> QED
    BY <2>1, <2>2
<1>8. WaitingHasKey'
  BY <1>3, <1>5 DEF IInv, WaitingHasKey
<1>9. DoneIsLogged' /\ PendingHasOwner'
  BY <1>2, <1>3, <1>5 DEF IInv, DoneIsLogged, PendingHasOwner, Logged
<1>10. AnswersAreReal'
  BY <1>2, <1>3, <1>5, IdemConstants DEF IInv, AnswersAreReal
<1> QED
  BY <1>6, <1>7, <1>8, <1>9, <1>10 DEF IInv

\* A call that finds an entry is answered from it, refused, or waits.
LEMMA FindKeyInv ==
  ASSUME IInv, NEW c \in Thread, NEW k \in Key, NEW q \in Request, FindKey(c, k, q)
  PROVE  IInv'
<1> DEFINE Row(pc, owner, reply) ==
             [pc |-> pc, key |-> k, req |-> q, owner |-> owner, reply |-> reply]
<1>0. thread[c].pc = "idle" /\ cache[k] \in Entry /\ UNCHANGED <<cache, log>>
  BY DEF FindKey, IInv, IdemTypeOK
<1>1. CASE Serve(c, k, q, "answered", None, "conflict")
  <2>1. Row("answered", None, "conflict") \in Call
    BY DEF Call
  <2> QED
    BY <1>0, <1>1, <2>1, ServeInv, IdemConstants DEF Serve
<1>2. CASE /\ SameRequest(k, q) /\ cache[k].st = "done"
           /\ Serve(c, k, q, "answered", None, cache[k].result)
  <2>1. cache[k].req = q /\ cache[k].result \in Result /\ Logged(log, k, q, cache[k].result)
    BY <1>2 DEF IInv, DoneIsLogged, SameRequest
  <2>2. Row("answered", None, cache[k].result) \in Call
    BY <2>1 DEF Call
  <2>3. cache[k].result # None
    BY <2>1, IdemConstants
  <2> QED
    BY <1>0, <1>2, <2>1, <2>2, <2>3, ServeInv DEF Serve
<1>3. CASE /\ cache[k].st = "pending"
           /\ Serve(c, k, q, "waiting", cache[k].owner, None)
  <2>1. cache[k].owner \in Thread
    BY <1>3 DEF IInv, PendingHasOwner
  <2>2. Row("waiting", cache[k].owner, None) \in Call
    BY <2>1 DEF Call
  <2> QED
    BY <1>0, <1>3, <2>1, <2>2, ServeInv, IdemConstants DEF Serve
<1> QED
  BY <1>1, <1>2, <1>3 DEF FindKey

\* A waiter that looks again answers what it finds, or an error.
LEMMA WakeInv ==
  ASSUME IInv, NEW c \in Thread, Wake(c)
  PROVE  IInv'
<1> DEFINE k == thread[c].key
           reply == IF cache[k].st = "done" /\ cache[k].req = thread[c].req
                    THEN cache[k].result ELSE "invalid"
           row == [thread[c] EXCEPT !.pc = "answered", !.reply = reply]
<1>1. k \in Key /\ thread[c].req \in Request /\ thread[c] \in Call /\ thread[c].pc = "waiting"
  BY DEF Wake, IInv, WaitingHasKey, IdemTypeOK
<1>2. reply \in Result => Logged(log, k, thread[c].req, reply)
  BY <1>1, IdemConstants DEF IInv, DoneIsLogged
<1>3. reply \in Result \cup {"invalid"} /\ reply # None
  BY <1>1, IdemConstants DEF IInv, DoneIsLogged
<1>4. thread' = [thread EXCEPT ![c] = row] /\ UNCHANGED <<cache, log>>
  BY DEF Wake, IInv, IdemTypeOK
<1> HIDE DEF reply
<1>5. row \in Call /\ row.pc = "answered" /\ row.reply = reply /\ row.key = k
      /\ row.req = thread[c].req
  BY <1>1, <1>3 DEF Call
<1> HIDE DEF row
<1> QED
  BY <1>1, <1>2, <1>3, <1>4, <1>5, ServeInv

\* The owner logs its execution and settles its entry; pruning removes no
\* pending one.
LEMMA FinishInv ==
  ASSUME IInv, NEW c \in Thread, NEW res \in Result, Finish(c, res)
  PROVE  IInv'
<1> DEFINE k == thread[c].key
           q == thread[c].req
<1>0. k \in Key /\ q \in Request /\ thread[c] \in Call /\ cache[k] \in Entry
      /\ cache[k].st = "pending" /\ cache[k].owner = c /\ cache[k].req = q
  BY DEF Finish, IInv, RunningOwnsEntry, IdemTypeOK
<1>1. LET stored == [cache EXCEPT ![k].st = "done", ![k].result = res, ![k].at = Len(log) + 1]
      IN   /\ cache' = IF res \in Failure THEN stored ELSE Pruned(stored)
           /\ thread' = [thread EXCEPT ![c].pc = "answered", ![c].reply = res]
           /\ log' = Append(log, [key |-> k, req |-> q, res |-> res])
  BY DEF Finish
<1> DEFINE entry == [cache[k] EXCEPT !.st = "done", !.result = res, !.at = Len(log) + 1]
           stored == [cache EXCEPT ![k] = entry]
           row == [thread[c] EXCEPT !.pc = "answered", !.reply = res]
<1>2. entry \in Entry /\ entry.st = "done" /\ entry.result = res /\ entry.req = q
  <2>1. Len(log) + 1 \in Nat
    BY DEF IInv, IdemTypeOK
  <2> QED
    BY <1>0, <2>1 DEF Entry
<1>3. row \in Call /\ row.pc = "answered" /\ row.reply = res /\ row.key = k /\ row.req = q
  BY <1>0 DEF Call
<1>4. cache' \in {stored, Pruned(stored)} /\ thread' = [thread EXCEPT ![c] = row]
  BY <1>0, <1>1 DEF IInv, IdemTypeOK
<1> HIDE DEF entry, row
<1>5. stored \in [Key -> Entry] /\ stored[k] = entry /\ \A j \in Key \ {k} : stored[j] = cache[j]
  BY <1>0, <1>2 DEF IInv, IdemTypeOK
<1> HIDE DEF stored
<1>6. /\ cache' \in [Key -> Entry]
      /\ \A j \in Key : cache'[j] = stored[j] \/ (stored[j].st = "done" /\ cache'[j] = NoEntry)
  BY <1>4, <1>5, PrunedEntries
<1>7. thread'[c] = row /\ \A d \in Thread \ {c} : thread'[d] = thread[d]
  BY <1>4 DEF IInv, IdemTypeOK
<1>8. NoEntry.st = "absent"
  BY DEF NoEntry
<1>9. /\ log' \in Seq(Execution) /\ Logged(log', k, q, res)
      /\ \A j, p, x : Logged(log, j, p, x) => Logged(log', j, p, x)
  <2> DEFINE done == [key |-> k, req |-> q, res |-> res]
  <2>1. log \in Seq(Execution) /\ done \in Execution /\ log' = Append(log, done)
    BY <1>0, <1>1 DEF IInv, IdemTypeOK, Execution
  <2> HIDE DEF done
  <2>2. /\ log' \in Seq(Execution) /\ Len(log') = Len(log) + 1 /\ log'[Len(log) + 1] = done
        /\ \A i \in DOMAIN log : i \in DOMAIN log' /\ log'[i] = log[i]
        /\ Len(log) + 1 \in DOMAIN log'
    BY <2>1
  <2> QED
    BY <2>2 DEF Logged, done
<1>10. IdemTypeOK'
  <2>1. thread' \in [Thread -> Call]
    BY <1>3, <1>4 DEF IInv, IdemTypeOK
  <2>2. res # None
    BY IdemConstants
  <2> QED
    BY <2>1, <2>2, <1>3, <1>6, <1>7, <1>9 DEF IInv, IdemTypeOK
<1>11. RunningOwnsEntry'
  <2> SUFFICES ASSUME NEW d \in Thread, thread'[d].pc = "running"
               PROVE  /\ thread'[d].key \in Key /\ thread'[d].req \in Request
                      /\ cache'[thread'[d].key].st = "pending"
                      /\ cache'[thread'[d].key].owner = d
                      /\ cache'[thread'[d].key].req = thread'[d].req
    BY DEF RunningOwnsEntry
  <2>1. d # c /\ thread'[d] = thread[d]
    BY <1>3, <1>7
  <2>2. /\ thread[d].key \in Key /\ thread[d].req \in Request
        /\ cache[thread[d].key].st = "pending" /\ cache[thread[d].key].owner = d
        /\ cache[thread[d].key].req = thread[d].req
    BY <2>1 DEF IInv, RunningOwnsEntry
  <2>3. thread[d].key # k
    BY <1>0, <2>1, <2>2
  <2>4. cache'[thread[d].key] = cache[thread[d].key]
    BY <1>5, <1>6, <2>2, <2>3
  <2> QED
    BY <2>1, <2>2, <2>4
<1>12. WaitingHasKey'
  BY <1>3, <1>7 DEF IInv, WaitingHasKey
<1>13. DoneIsLogged'
  <2> SUFFICES ASSUME NEW j \in Key, cache'[j].st = "done"
               PROVE  /\ cache'[j].req \in Request /\ cache'[j].result \in Result
                      /\ Logged(log', j, cache'[j].req, cache'[j].result)
    BY DEF DoneIsLogged, Logged
  <2>1. cache'[j] = stored[j]
    BY <1>6, <1>8
  <2>2. CASE j = k
    BY <1>0, <1>2, <1>5, <1>9, <2>1, <2>2
  <2>3. CASE j # k
    <3>1. cache'[j] = cache[j]
      BY <1>5, <2>1, <2>3
    <3> QED
      BY <1>9, <3>1 DEF IInv, DoneIsLogged
  <2> QED
    BY <2>2, <2>3
<1>14. PendingHasOwner'
  <2> SUFFICES ASSUME NEW j \in Key, cache'[j].st = "pending"
               PROVE  cache'[j].owner \in Thread /\ cache'[j].req \in Request
    BY DEF PendingHasOwner
  <2>1. cache'[j] = stored[j]
    BY <1>6, <1>8
  <2>2. cache'[j] = cache[j]
    BY <1>2, <1>5, <2>1
  <2> QED
    BY <2>2 DEF IInv, PendingHasOwner
<1>15. AnswersAreReal'
  <2> SUFFICES ASSUME NEW d \in Thread, thread'[d].reply \in Result
               PROVE  Logged(log', thread[d].key, thread[d].req, thread'[d].reply)
                      /\ thread'[d].key = thread[d].key /\ thread'[d].req = thread[d].req
    BY DEF AnswersAreReal, Logged
  <2>1. CASE d = c
    BY <1>3, <1>7, <1>9, <2>1
  <2>2. CASE d # c
    <3>1. thread'[d] = thread[d]
      BY <1>7, <2>2
    <3>2. Logged(log, thread[d].key, thread[d].req, thread[d].reply)
      BY <3>1 DEF IInv, AnswersAreReal, Logged
    <3> QED
      BY <1>9, <3>1, <3>2
  <2> QED
    BY <2>1, <2>2
<1> QED
  BY <1>10, <1>11, <1>12, <1>13, <1>14, <1>15 DEF IInv

\* A restart leaves no entry and nobody running or waiting.
LEMMA RestartInv ==
  ASSUME IInv, Restart
  PROVE  IInv'
<1>1. /\ \A k \in Key : cache'[k] = NoEntry
      /\ \A c \in Thread : thread'[c].pc \notin {"running", "waiting"}
      /\ \A c \in Thread : /\ thread'[c].key = thread[c].key /\ thread'[c].req = thread[c].req
                           /\ thread'[c].reply = thread[c].reply
      /\ \A c \in Thread : thread'[c].pc = "answered" <=> thread[c].pc = "answered"
  BY DEF Restart, InFlight, IInv, IdemTypeOK, Call
<1>2. NoEntry \in Entry /\ NoEntry.st = "absent"
  BY DEF NoEntry, Entry
<1>3. cache' \in [Key -> Entry] /\ log' = log
  BY <1>2 DEF Restart
<1>4. thread' \in [Thread -> Call]
  <2>1. \A c \in Thread : thread[c] \in Call
    BY DEF IInv, IdemTypeOK
  <2>2. \A c \in Thread : [thread[c] EXCEPT !.pc = "lost"] \in Call
    BY <2>1 DEF Call
  <2> QED
    BY <2>1, <2>2 DEF Restart
<1>5. IdemTypeOK'
  BY <1>1, <1>3, <1>4 DEF IInv, IdemTypeOK
<1>6. RunningOwnsEntry' /\ WaitingHasKey' /\ DoneIsLogged' /\ PendingHasOwner'
  BY <1>1, <1>2 DEF RunningOwnsEntry, WaitingHasKey, DoneIsLogged, PendingHasOwner
<1>7. AnswersAreReal'
  BY <1>1, <1>3 DEF IInv, AnswersAreReal
<1> QED
  BY <1>5, <1>6, <1>7 DEF IInv

\* Every step keeps the invariant.
LEMMA StepInv == IInv /\ [IdemNext]_idemVars => IInv'
<1> SUFFICES ASSUME IInv, [IdemNext]_idemVars PROVE IInv'
  OBVIOUS
<1>1. ASSUME NEW c \in Thread, NEW k \in Key, NEW q \in Request, TakeKey(c, k, q) PROVE IInv'
  BY <1>1, TakeKeyInv
<1>2. ASSUME NEW c \in Thread, NEW k \in Key, NEW q \in Request, FindKey(c, k, q) PROVE IInv'
  BY <1>2, FindKeyInv
<1>3. ASSUME NEW c \in Thread, NEW res \in Result, Finish(c, res) PROVE IInv'
  BY <1>3, FinishInv
<1>4. ASSUME NEW c \in Thread, Wake(c) PROVE IInv'
  BY <1>4, WakeInv
<1>5. CASE UNCHANGED idemVars
  BY <1>5 DEF IInv, IdemTypeOK, RunningOwnsEntry, WaitingHasKey, DoneIsLogged, Logged,
              PendingHasOwner, AnswersAreReal, idemVars
<1>6. CASE Restart
  BY <1>6, RestartInv
<1> QED
  BY <1>1, <1>2, <1>3, <1>4, <1>5, <1>6 DEF IdemNext

\* The invariant holds in every reachable state.
LEMMA AlwaysInv == IdemSpec => []IInv
<1> QED
  BY InitInv, StepInv, PTL DEF IdemSpec

\* The table, the calls and the history keep their shape, and a call is
\* answered exactly when it has a reply.
THEOREM IdemTypeCorrect == IdemSpec => []IdemTypeOK
<1>1. IInv => IdemTypeOK
  BY DEF IInv
<1> QED
  BY <1>1, AlwaysInv, PTL

\* No pruning, for any table size, lets two executions of one key overlap.
THEOREM SingleExecution == IdemSpec => []OneInFlight
<1>1. IInv => OneInFlight
  BY DEF IInv, RunningOwnsEntry, OneInFlight
<1> QED
  BY <1>1, AlwaysInv, PTL

\* A reply is always the result of the caller's own request.
THEOREM RealAnswers == IdemSpec => []AnswersAreReal
<1>1. IInv => AnswersAreReal
  BY DEF IInv
<1> QED
  BY <1>1, AlwaysInv, PTL

\* The views of an instance's variables move only with the table and threads.
LEMMA Stutter ==
  ASSUME rememberedView' = rememberedView, answersView' = answersView
  PROVE  UNCHANGED Once!onceVars
<1> QED
  BY DEF Once!onceVars

\* A thread that is answered without running its request is an abstract
\* replay or refusal.
LEMMA AnswerRefines ==
  ASSUME IInv, NEW c \in Thread, NEW k \in Key, NEW q \in Request, NEW row \in Call,
         thread[c].pc # "answered", thread' = [thread EXCEPT ![c] = row], cache' = cache,
         row.pc = "answered", row.key = k, row.req = q,
         \/ cache[k].st = "done" /\ cache[k].req = q /\ row.reply = cache[k].result
         \/ /\ cache[k].st = "done" => cache[k].req # q
            /\ row.reply \in {"conflict", "invalid"}
  PROVE  Once!OnceNext
<1>1. rememberedView' = rememberedView
  BY DEF rememberedView
<1>2. /\ answersView[c] = None
      /\ answersView' = [answersView EXCEPT ![c] = [key |-> k, req |-> q, reply |-> row.reply]]
  BY DEF answersView, IInv, IdemTypeOK
<1>3. Once!Reply(c, k, q, row.reply) /\ answersView'[c] # None
  <2>1. answersView'[c] = [key |-> k, req |-> q, reply |-> row.reply]
    BY <1>2 DEF answersView
  <2>2. row.reply \in Result \cup {"conflict", "invalid"}
    BY DEF IInv, DoneIsLogged
  <2> QED
    BY <1>2, <2>1, <2>2, IdemConstants DEF Once!Reply
<1>4. CASE cache[k].st = "done" /\ cache[k].req = q /\ row.reply = cache[k].result
  <2>1. rememberedView[k] = [req |-> q, res |-> row.reply] /\ row.reply \in Result
    BY <1>4 DEF rememberedView, IInv, DoneIsLogged
  <2>2. rememberedView[k] # None
    BY <2>1, IdemConstants
  <2>3. Once!Replay(c, k, q)
    BY <1>1, <1>3, <2>1, <2>2 DEF Once!Replay
  <2> QED
    BY <1>2, <1>3, <2>3 DEF Once!OnceNext
<1>5. CASE /\ cache[k].st = "done" => cache[k].req # q
           /\ row.reply \in {"conflict", "invalid"}
  <2>1. rememberedView[k] # None => rememberedView[k].req # q
    BY <1>5 DEF rememberedView
  <2>2. Once!Refuse(c, k, q)
    BY <1>1, <1>3, <1>5, <2>1 DEF Once!Refuse
  <2> QED
    BY <1>2, <1>3, <2>2 DEF Once!OnceNext
<1> QED
  BY <1>4, <1>5

\* A step that leaves a thread unanswered and no entry finished is a stutter.
LEMMA QuietRefines ==
  ASSUME IInv, NEW c \in Thread, NEW row \in Call, NEW k \in Key, NEW entry \in Entry,
         thread[c].pc # "answered", row.pc # "answered",
         thread' = [thread EXCEPT ![c] = row],
         \/ cache' = cache
         \/ /\ cache' = [cache EXCEPT ![k] = entry]
            /\ cache[k].st # "done" /\ entry.st # "done"
  PROVE  UNCHANGED Once!onceVars
<1>1. rememberedView' = rememberedView
  BY DEF rememberedView, IInv, IdemTypeOK
<1>2. answersView' = answersView
  BY DEF answersView, IInv, IdemTypeOK
<1> QED
  BY <1>1, <1>2, Stutter

\* Taking a key is invisible to the abstract table.
LEMMA TakeKeyRefines ==
  ASSUME IInv, NEW c \in Thread, NEW k \in Key, NEW q \in Request, TakeKey(c, k, q)
  PROVE  UNCHANGED Once!onceVars
<1> DEFINE entry == [st |-> "pending", req |-> q, owner |-> c, result |-> None, at |-> Len(log)]
           row == [pc |-> "running", key |-> k, req |-> q, owner |-> c, reply |-> None]
<1>1. entry \in Entry /\ row \in Call /\ entry.st # "done" /\ row.pc # "answered"
  BY DEF Entry, Call, IInv, IdemTypeOK
<1>2. cache' = [cache EXCEPT ![k] = entry] /\ thread' = [thread EXCEPT ![c] = row]
  BY DEF TakeKey, Serve
<1>3. thread[c].pc # "answered" /\ cache[k].st # "done"
  BY DEF TakeKey, Free
<1> HIDE DEF entry, row
<1> QED
  BY <1>1, <1>2, <1>3, QuietRefines

\* An answer or a refusal from an entry is one of the abstract table.
LEMMA FindKeyRefines ==
  ASSUME IInv, NEW c \in Thread, NEW k \in Key, NEW q \in Request, FindKey(c, k, q)
  PROVE  Once!OnceNext \/ UNCHANGED Once!onceVars
<1> DEFINE Row(pc, owner, reply) ==
             [pc |-> pc, key |-> k, req |-> q, owner |-> owner, reply |-> reply]
<1>0. /\ thread[c].pc # "answered" /\ cache[k] \in Entry /\ cache' = cache
  BY DEF FindKey, IInv, IdemTypeOK
<1>1. CASE ~SameRequest(k, q) /\ Serve(c, k, q, "answered", None, "conflict")
  <2> DEFINE row == Row("answered", None, "conflict")
  <2>1. row \in Call /\ row.pc = "answered" /\ row.key = k /\ row.req = q /\ row.reply = "conflict"
    BY DEF Call
  <2>2. thread' = [thread EXCEPT ![c] = row]
    BY <1>1 DEF Serve
  <2>3. cache[k].req # q
    BY <1>1 DEF SameRequest
  <2> HIDE DEF row
  <2> QED
    BY <1>0, <2>1, <2>2, <2>3, AnswerRefines
<1>2. CASE /\ SameRequest(k, q) /\ cache[k].st = "done"
           /\ Serve(c, k, q, "answered", None, cache[k].result)
  <2> DEFINE row == Row("answered", None, cache[k].result)
  <2>1. /\ row \in Call /\ row.pc = "answered" /\ row.key = k /\ row.req = q
        /\ row.reply = cache[k].result
    BY <1>2 DEF Call, IInv, DoneIsLogged
  <2>2. thread' = [thread EXCEPT ![c] = row]
    BY <1>2 DEF Serve
  <2>3. cache[k].st = "done" /\ cache[k].req = q
    BY <1>2 DEF SameRequest
  <2> HIDE DEF row
  <2> QED
    BY <1>0, <2>1, <2>2, <2>3, AnswerRefines
<1>3. CASE cache[k].st = "pending" /\ Serve(c, k, q, "waiting", cache[k].owner, None)
  <2> DEFINE row == Row("waiting", cache[k].owner, None)
  <2>1. row \in Call /\ row.pc # "answered"
    BY <1>3 DEF Call, IInv, PendingHasOwner
  <2>2. thread' = [thread EXCEPT ![c] = row]
    BY <1>3 DEF Serve
  <2> HIDE DEF row
  <2> QED
    BY <1>0, <2>1, <2>2, QuietRefines
<1> QED
  BY <1>1, <1>2, <1>3 DEF FindKey

\* A waiter's answer is a replay or a refusal of the abstract table.
LEMMA WakeRefines ==
  ASSUME IInv, NEW c \in Thread, Wake(c)
  PROVE  Once!OnceNext
<1> DEFINE k == thread[c].key
           q == thread[c].req
           reply == IF cache[k].st = "done" /\ cache[k].req = q THEN cache[k].result ELSE "invalid"
           row == [thread[c] EXCEPT !.pc = "answered", !.reply = reply]
<1>1. k \in Key /\ q \in Request /\ thread[c] \in Call /\ thread[c].pc # "answered"
  BY DEF Wake, IInv, WaitingHasKey, IdemTypeOK
<1>2. reply \in Result \cup {"invalid"}
  BY <1>1 DEF IInv, DoneIsLogged
<1>3. thread' = [thread EXCEPT ![c] = row] /\ cache' = cache
  BY DEF Wake, IInv, IdemTypeOK
<1>4. \/ cache[k].st = "done" /\ cache[k].req = q /\ reply = cache[k].result
      \/ (cache[k].st = "done" => cache[k].req # q) /\ reply = "invalid"
  OBVIOUS
<1> HIDE DEF reply
<1>5. row \in Call /\ row.pc = "answered" /\ row.key = k /\ row.req = q /\ row.reply = reply
  BY <1>1, <1>2 DEF Call
<1> HIDE DEF row
<1> QED
  BY <1>1, <1>3, <1>4, <1>5, AnswerRefines

\* The end of an execution is the abstract one, with what it forgets.
LEMMA FinishRefines ==
  ASSUME IInv, NEW c \in Thread, NEW res \in Result, Finish(c, res)
  PROVE  Once!OnceNext
<1> DEFINE k == thread[c].key
           q == thread[c].req
<1>0. /\ k \in Key /\ q \in Request /\ thread[c] \in Call /\ cache[k] \in Entry
      /\ thread[c].pc = "running" /\ cache[k].st = "pending" /\ cache[k].req = q
  BY DEF Finish, IInv, RunningOwnsEntry, IdemTypeOK
<1>1. LET stored == [cache EXCEPT ![k].st = "done", ![k].result = res, ![k].at = Len(log) + 1]
      IN   /\ cache' = IF res \in Failure THEN stored ELSE Pruned(stored)
           /\ thread' = [thread EXCEPT ![c].pc = "answered", ![c].reply = res]
  BY DEF Finish
<1> DEFINE entry == [cache[k] EXCEPT !.st = "done", !.result = res, !.at = Len(log) + 1]
           stored == [cache EXCEPT ![k] = entry]
           row == [thread[c] EXCEPT !.pc = "answered", !.reply = res]
           forgotten == {j \in Key : cache'[j].st # "done"}
<1>2. entry \in Entry /\ entry.st = "done" /\ entry.result = res /\ entry.req = q
  <2>1. Len(log) + 1 \in Nat
    BY DEF IInv, IdemTypeOK
  <2> QED
    BY <1>0, <2>1 DEF Entry
<1>3. row.pc = "answered" /\ row.reply = res /\ row.key = k /\ row.req = q
  BY <1>0 DEF Call
<1>4. cache' \in {stored, Pruned(stored)} /\ thread' = [thread EXCEPT ![c] = row]
  BY <1>0, <1>1 DEF IInv, IdemTypeOK
<1> HIDE DEF entry, row
<1>5. stored \in [Key -> Entry] /\ stored[k] = entry /\ \A j \in Key \ {k} : stored[j] = cache[j]
  BY <1>0, <1>2 DEF IInv, IdemTypeOK
<1> HIDE DEF stored
<1>6. \A j \in Key : cache'[j] = stored[j] \/ cache'[j].st = "absent"
  BY <1>4, <1>5, PrunedEntries DEF NoEntry
<1>7. rememberedView[k] = None
  BY <1>0 DEF rememberedView
<1>8. rememberedView' =
        [j \in Key |-> IF j \in forgotten THEN None
                       ELSE IF j = k THEN [req |-> q, res |-> res] ELSE rememberedView[j]]
  <2> SUFFICES ASSUME NEW j \in Key
               PROVE  rememberedView'[j] =
                        IF j \in forgotten THEN None
                        ELSE IF j = k THEN [req |-> q, res |-> res] ELSE rememberedView[j]
    BY DEF rememberedView
  <2>1. CASE j \in forgotten
    BY <2>1 DEF rememberedView
  <2>2. CASE j \notin forgotten
    <3>1. cache'[j] = stored[j]
      BY <1>6, <2>2
    <3>2. CASE j = k
      BY <1>2, <1>5, <2>2, <3>1, <3>2 DEF rememberedView
    <3>3. CASE j # k
      BY <1>5, <2>2, <3>1, <3>3 DEF rememberedView
    <3> QED
      BY <3>2, <3>3
  <2> QED
    BY <2>1, <2>2
<1>9. /\ Once!Reply(c, k, q, res)
      /\ answersView[c] = None /\ answersView'[c] # None
  <2>1. /\ answersView[c] = None
        /\ answersView' = [answersView EXCEPT ![c] = [key |-> k, req |-> q, reply |-> res]]
    BY <1>0, <1>3, <1>4 DEF answersView, IInv, IdemTypeOK
  <2>2. answersView'[c] = [key |-> k, req |-> q, reply |-> res]
    BY <2>1 DEF answersView
  <2> QED
    BY <1>0, <2>1, <2>2, IdemConstants DEF Once!Reply
<1>10. forgotten \in SUBSET Key
  OBVIOUS
<1> HIDE DEF forgotten
<1>11. Once!Execute(c, k, q, res)
  BY <1>7, <1>8, <1>9, <1>10 DEF Once!Execute
<1> QED
  BY <1>0, <1>9, <1>11 DEF Once!OnceNext

\* A restart forgets every answer and gives none.
LEMMA RestartRefines ==
  ASSUME IInv, Restart
  PROVE  Once!OnceNext
<1>1. rememberedView' = [k \in Key |-> None]
  BY DEF Restart, rememberedView, NoEntry
<1>2. \A c \in Thread :
        /\ thread'[c].pc = "answered" <=> thread[c].pc = "answered"
        /\ thread'[c].key = thread[c].key
        /\ thread'[c].req = thread[c].req
        /\ thread'[c].reply = thread[c].reply
  BY DEF Restart, InFlight, IInv, IdemTypeOK, Call
<1>3. answersView' = answersView
  BY <1>2 DEF answersView
<1>4. Once!ForgetAll
  BY <1>1, <1>3 DEF Once!ForgetAll
<1> QED
  BY <1>4 DEF Once!OnceNext

\* The table implements the promise of OnceOnly, for any number of threads,
\* keys and entries.
THEOREM Refinement == IdemSpec => ImplementsOnceOnly
<1>1. IdemInit => Once!OnceInit
  BY DEF IdemInit, NoEntry, Once!OnceInit, rememberedView, answersView
<1>2. IInv /\ [IdemNext]_idemVars => [Once!OnceNext]_(Once!onceVars)
  <2> SUFFICES ASSUME IInv, [IdemNext]_idemVars
               PROVE  Once!OnceNext \/ UNCHANGED Once!onceVars
    OBVIOUS
  <2>1. ASSUME NEW c \in Thread, NEW k \in Key, NEW q \in Request, TakeKey(c, k, q)
        PROVE  UNCHANGED Once!onceVars
    BY <2>1, TakeKeyRefines
  <2>2. ASSUME NEW c \in Thread, NEW k \in Key, NEW q \in Request, FindKey(c, k, q)
        PROVE  Once!OnceNext \/ UNCHANGED Once!onceVars
    BY <2>2, FindKeyRefines
  <2>3. ASSUME NEW c \in Thread, NEW res \in Result, Finish(c, res) PROVE Once!OnceNext
    BY <2>3, FinishRefines
  <2>4. ASSUME NEW c \in Thread, Wake(c) PROVE Once!OnceNext
    BY <2>4, WakeRefines
  <2>5. CASE UNCHANGED idemVars
    <3>1. rememberedView' = rememberedView /\ answersView' = answersView
      BY <2>5 DEF rememberedView, answersView, idemVars
    <3> QED
      BY <3>1, Stutter
  <2>6. CASE Restart
    BY <2>6, RestartRefines
  <2> QED
    BY <2>1, <2>2, <2>3, <2>4, <2>5, <2>6 DEF IdemNext
<1> QED
  BY <1>1, <1>2, AlwaysInv, PTL DEF IdemSpec, ImplementsOnceOnly, Once!OnceSpec

-----------------------------------------------------------------------------
(* The daemon.                                                             *)

Steps == {"reserved", "attested", "claimed", "admitted"}

\* The shape of the rows, as far as the steps change it field by field.
WorkShape ==
  /\ work = [c \in Thread |-> work[c]]
  /\ \A c \in Thread :
       /\ work[c] = [step |-> work[c].step, judged |-> work[c].judged,
                     attestation |-> work[c].attestation]
       /\ work[c].step \in {"none", "approved"} \cup Steps /\ work[c].judged \in Nat
StoreShape ==
  /\ DOMAIN tasks = Task /\ DOMAIN leases = Task
  /\ \A t \in Task :
       /\ {"status", "scope", "base"} \subseteq DOMAIN tasks[t]
       /\ {"run", "released", "head", "expires"} \subseteq DOMAIN leases[t]
  /\ now \in Nat
RowShape == StoreShape /\ DOMAIN filed = Task

\* A thread between its evaluation and its insert holds a genuine approval.
Approvals ==
  \A c \in Thread : At(c, "approved") =>
    /\ thread[c].pc = "running" /\ Asked(c).m = "govern"
    /\ Authorised(Asked(c).order, Asked(c).ev, work[c].judged)

\* A thread that launches a run has reserved it, for a governed task.
Launches ==
  \A c \in Thread : work[c].step \in Steps =>
    /\ thread[c].pc = "running" /\ Asked(c).m = "launch"
    /\ Governed(Asked(c).order.task) /\ Asked(c).run \in active

\* No run is reserved by two threads.
OneLauncher ==
  \A c, d \in Thread :
    c # d /\ work[c].step \in Steps /\ work[d].step \in Steps => Asked(c).run # Asked(d).run

\* A row of filed stands for the task row the same insert made.
RowsStand ==
  \A t \in Task : Exists(t) =>
    /\ filed[t].req \in Request /\ OrderOf(t).task = t
    /\ tasks[t].status # "absent"
    /\ tasks[t].scope = CanonSet(OrderOf(t).paths) /\ tasks[t].base = Canon[OrderOf(t).base]

\* What the columns of an evaluated row say of its evidence.
EvidenceOk(o, ev) ==
  /\ o.subsystem # None /\ Canon[o.subsystem] = o.subsystem
  /\ \/ ev.exemption # None /\ ev.review = None /\ ev.receipt = None
     \/ ev.exemption = None /\ ev.review # None /\ ev.receipt # None

\* An evaluated row was authorised when it was judged.
RowsApproved ==
  \A t \in Task : Evaluated(t) =>
    /\ EvidenceOk(OrderOf(t), EvidenceOf(t)) /\ filed[t].kind = WorkKind(EvidenceOf(t))
    /\ Authorised(OrderOf(t), EvidenceOf(t), filed[t].judged)

\* The request q was a creation, and its task is as q asked for.
Created(q) ==
  LET t == Form[q].order.task IN
  /\ Exists(t) /\ OrderOf(t) = Form[q].order
  /\ filed[t].kind = Columns(Form[q]).kind

\* What the log calls done is there.
LogStands ==
  \A i \in DOMAIN log :
    log[i].res = "done" /\ Form[log[i].req].m \in {"create", "govern"} => Created(log[i].req)

\* An envelope is no wider than the row it was signed for.
EnvelopesStand ==
  \A e \in envelopes :
    /\ e.task \in Task /\ Exists(e.task)
    /\ e.base = tasks[e.task].base /\ e.paths \subseteq tasks[e.task].scope
    /\ Governed(e.task) => e.by = "launch"

ThreadsInv == WorkShape /\ Approvals /\ Launches /\ OneLauncher
RowsInv == RowShape /\ RowsStand /\ RowsApproved /\ LogStands /\ EnvelopesStand
DInv == IInv /\ ThreadsInv /\ RowsInv

\* A running thread serves a request, and its task is one of the tasks.
LEMMA Running ==
  ASSUME IInv, NEW c \in Thread, thread[c].pc = "running"
  PROVE  thread[c].req \in Request /\ Asked(c).order.task \in Task
<1>1. thread[c].req \in Request
  BY DEF IInv, RunningOwnsEntry
<1> QED
  BY <1>1, DaemonConstants DEF Asked

\* The end of a request: its thread keeps it, and the log has it.
LEMMA Finished ==
  ASSUME IInv, NEW c \in Thread, NEW res, Finish(c, res)
  PROVE  /\ thread[c].pc = "running" /\ thread'[c].req = thread[c].req
         /\ \A d \in Thread \ {c} : thread'[d] = thread[d]
         /\ log' = Append(log, [key |-> thread[c].key, req |-> thread[c].req, res |-> res])
<1>1. thread \in [Thread -> Call]
  BY DEF IInv, IdemTypeOK
<1> QED
  BY <1>1 DEF Finish, Call

\* Every step of the daemon is a step of the table, or leaves it alone.
LEMMA DaemonRefinesTable == DaemonNext => [IdemNext]_idemVars
<1> SUFFICES ASSUME DaemonNext PROVE IdemNext \/ UNCHANGED idemVars
  OBVIOUS
<1>0. "done" \in Result /\ "failed" \in Result
  BY DaemonConstants
<1>1. ASSUME NEW c \in Thread, Arrive(c) PROVE IdemNext
  BY <1>1 DEF Arrive, IdemNext
<1>2. ASSUME NEW c \in Thread, LookAgain(c) PROVE IdemNext
  BY <1>2 DEF LookAgain, IdemNext
<1>3. ASSUME NEW c \in Thread, Execute(c) PROVE IdemNext \/ UNCHANGED idemVars
  <2>1. (\E res \in Result : Finish(c, res)) \/ UNCHANGED idemVars
    BY <1>0, <1>3 DEF Execute, Error, CreateTask, Judge, CreateGoverned, DirectClaim,
       DirectHeartbeat, DirectRelease, Reserve, Replayed, Attest, GovernedClaim, Admit, Settle,
       Insert
  <2> QED
    BY <2>1 DEF IdemNext
<1>4. CASE RestartDaemon
  BY <1>4 DEF RestartDaemon, IdemNext
<1>5. CASE Tick
  BY <1>5 DEF Tick
<1> QED
  BY <1>1, <1>2, <1>3, <1>4, <1>5 DEF DaemonNext
-----------------------------------------------------------------------------
(* The threads: what each has established before its next step.            *)

\* A step sets one field of a row of work.
LEMMA SetStep ==
  ASSUME WorkShape, NEW c \in Thread, NEW s
  PROVE  [work EXCEPT ![c].step = s]
           = [work EXCEPT ![c] = [step |-> s, judged |-> work[c].judged,
                                  attestation |-> work[c].attestation]]
<1> DEFINE row == work[c]
<1>1. row = [step |-> row.step, judged |-> row.judged, attestation |-> row.attestation]
  BY DEF WorkShape
<1>2. [row EXCEPT !.step = s]
        = [step |-> s, judged |-> row.judged, attestation |-> row.attestation]
  BY <1>1
<1>3. [work EXCEPT ![c].step = s] = [work EXCEPT ![c] = [row EXCEPT !.step = s]]
  OBVIOUS
<1> QED
  BY <1>2, <1>3

\* A thread that ends its request, or has none, disturbs no other.
LEMMA ThreadsKept ==
  ASSUME IInv, ThreadsInv, NEW c \in Thread,
         \A d \in Thread \ {c} : thread'[d] = thread[d],
         work' = work \/ work' = [work EXCEPT ![c] = Idle], work'[c].step = "none",
         \A t \in Task : Governed(t) => Governed(t)',
         \A r \in active : r \in active' \/ (work[c].step \in Steps /\ r = Asked(c).run)
  PROVE  ThreadsInv'
<1>1. \A d \in Thread \ {c} : work'[d] = work[d] /\ Asked(d)' = Asked(d)
  BY DEF Asked, ThreadsInv, WorkShape
<1>2. WorkShape'
  BY DEF ThreadsInv, WorkShape, Idle
<1>3. Approvals'
  BY <1>1 DEF ThreadsInv, Approvals, At
<1>4. Launches'
  <2> SUFFICES ASSUME NEW d \in Thread, work'[d].step \in Steps
               PROVE  (/\ thread[d].pc = "running" /\ Asked(d).m = "launch"
                       /\ Governed(Asked(d).order.task) /\ Asked(d).run \in active)'
    BY DEF Launches
  <2>1. d # c
    BY DEF Steps
  <2>2. /\ work[d].step \in Steps /\ thread[d].pc = "running" /\ Asked(d).m = "launch"
        /\ Governed(Asked(d).order.task) /\ Asked(d).run \in active
    BY <1>1, <2>1 DEF ThreadsInv, Launches
  <2>3. Asked(d).order.task \in Task
    BY <2>2, Running
  <2>4. Asked(d).run \in active'
    BY <2>1, <2>2 DEF ThreadsInv, OneLauncher
  <2> QED
    BY <1>1, <2>1, <2>2, <2>3, <2>4
<1>5. OneLauncher'
  BY <1>1 DEF ThreadsInv, OneLauncher, Steps
<1> QED
  BY <1>2, <1>3, <1>4, <1>5 DEF ThreadsInv

\* A thread that goes on with its launch keeps what it has reserved.
LEMMA LaunchGoesOn ==
  ASSUME ThreadsInv, NEW c \in Thread, NEW s \in Steps, NEW j \in Nat, NEW a,
         work[c].step \in Steps,
         work' = [work EXCEPT ![c] = [step |-> s, judged |-> j, attestation |-> a]],
         UNCHANGED <<thread, active, filed>>
  PROVE  ThreadsInv'
<1>1. \A d \in Thread : Asked(d)' = Asked(d) /\ (d # c => work'[d] = work[d])
  BY DEF Asked, ThreadsInv, WorkShape
<1>2. work'[c] = [step |-> s, judged |-> j, attestation |-> a]
  BY DEF ThreadsInv, WorkShape
<1>3. WorkShape'
  BY <1>2 DEF ThreadsInv, WorkShape
<1>4. Approvals'
  BY <1>1, <1>2 DEF ThreadsInv, Approvals, At, Steps
<1>5. \A d \in Thread : work'[d].step \in Steps <=> work[d].step \in Steps
  BY <1>1, <1>2
<1>6. Launches'
  BY <1>1, <1>5 DEF ThreadsInv, Launches, Governed, Exists
<1>7. OneLauncher'
  BY <1>1, <1>5 DEF ThreadsInv, OneLauncher
<1> QED
  BY <1>3, <1>4, <1>6, <1>7 DEF ThreadsInv

\* The evaluation leaves its approval with the thread.
LEMMA JudgeThreads ==
  ASSUME ThreadsInv, now \in Nat, NEW c \in Thread, Judge(c)
  PROVE  ThreadsInv'
<1> DEFINE row == [step |-> "approved", judged |-> now, attestation |-> None]
<1>1. /\ work' = [work EXCEPT ![c] = row] /\ UNCHANGED <<thread, active, filed>>
      /\ thread[c].pc = "running" /\ Asked(c).m = "govern"
      /\ Authorised(Asked(c).order, Asked(c).ev, now)
  BY DEF Judge, Doing, idemVars
<1>2. \A d \in Thread : Asked(d)' = Asked(d) /\ (d # c => work'[d] = work[d])
  BY <1>1 DEF Asked, ThreadsInv, WorkShape
<1>3. work'[c] = row
  BY <1>1 DEF ThreadsInv, WorkShape
<1>4. WorkShape'
  BY <1>1, <1>3 DEF ThreadsInv, WorkShape
<1>5. Approvals'
  BY <1>1, <1>2, <1>3 DEF ThreadsInv, Approvals, At
<1>6. \A d \in Thread : work'[d].step \in Steps => d # c /\ work[d].step \in Steps
  BY <1>2, <1>3 DEF Steps
<1>7. Launches'
  BY <1>1, <1>2, <1>6 DEF ThreadsInv, Launches, Governed, Exists
<1>8. OneLauncher'
  BY <1>2, <1>6 DEF ThreadsInv, OneLauncher
<1> QED
  BY <1>4, <1>5, <1>7, <1>8 DEF ThreadsInv

\* A reservation takes a run nobody has.
LEMMA ReserveThreads ==
  ASSUME ThreadsInv, NEW c \in Thread, Reserve(c)
  PROVE  ThreadsInv'
<1> DEFINE row == [step |-> "reserved", judged |-> work[c].judged,
                   attestation |-> work[c].attestation]
<1>1. /\ work' = [work EXCEPT ![c] = row] /\ UNCHANGED <<thread, filed>>
      /\ active' = active \cup {Asked(c).run} /\ Asked(c).run \notin active
      /\ thread[c].pc = "running" /\ Asked(c).m = "launch" /\ Governed(Asked(c).order.task)
  BY SetStep DEF Reserve, Goto, Doing, ThreadsInv, idemVars
<1>2. \A d \in Thread : Asked(d)' = Asked(d) /\ (d # c => work'[d] = work[d])
  BY <1>1 DEF Asked, ThreadsInv, WorkShape
<1>3. work'[c] = row
  BY <1>1 DEF ThreadsInv, WorkShape
<1>4. WorkShape'
  BY <1>1, <1>3 DEF ThreadsInv, WorkShape, Steps
<1>5. Approvals'
  BY <1>1, <1>2, <1>3 DEF ThreadsInv, Approvals, At
<1>6. \A d \in Thread : work'[d].step \in Steps /\ d # c => work[d].step \in Steps
  BY <1>2
<1>7. Launches'
  BY <1>1, <1>2, <1>6 DEF ThreadsInv, Launches, Governed, Exists
<1>8. OneLauncher'
  BY <1>1, <1>2, <1>6 DEF ThreadsInv, OneLauncher, Launches
<1> QED
  BY <1>4, <1>5, <1>7, <1>8 DEF ThreadsInv
-----------------------------------------------------------------------------
(* The rows: what filed, the log and the envelopes owe to the store.       *)

\* What no step does to a task that exists.
Kept ==
  \A u \in Task : Exists(u) =>
    /\ filed'[u] = filed[u] /\ tasks'[u].status # "absent"
    /\ tasks'[u].scope = tasks[u].scope /\ tasks'[u].base = tasks[u].base

\* What the store's calls on a lease do to the task rows.
TasksGoOn ==
  \A u \in Task :
    /\ tasks[u].status # "absent" => tasks'[u].status # "absent"
    /\ tasks'[u].scope = tasks[u].scope /\ tasks'[u].base = tasks[u].base

\* A claim moves its own lease and task row only.
LEMMA ClaimStore ==
  ASSUME StoreShape, NEW t \in Task, NEW r, NEW w, NEW h, NEW ttl, NEW cost,
         Store!ClaimWorkspace(t, r, w, h, ttl, cost)
  PROVE  /\ StoreShape' /\ TasksGoOn
         /\ \A u \in Task \ {t} : leases'[u] = leases[u]
         /\ leases'[t].run = r
<1> DEFINE row == [tasks[t] EXCEPT !.status = "running", !.spent = Store!NewSpent(t, cost)]
           lease == [epoch |-> Store!NextEpoch(t), run |-> r, worktree |-> w, expires |-> now + ttl,
                     released |-> FALSE, head |-> h, reserved |-> cost]
<1>1. /\ tasks' = [tasks EXCEPT ![t].status = "running", ![t].spent = Store!NewSpent(t, cost)]
      /\ leases' = [leases EXCEPT ![t] = lease] /\ now' = now
  BY DEF Store!ClaimWorkspace
<1>2. /\ DOMAIN row = DOMAIN tasks[t] /\ row.status = "running"
      /\ row.scope = tasks[t].scope /\ row.base = tasks[t].base
  BY DEF StoreShape
<1>3. DOMAIN tasks' = Task /\ \A u \in Task : tasks'[u] = IF u = t THEN row ELSE tasks[u]
  BY <1>1 DEF StoreShape
<1>4. DOMAIN leases' = Task /\ \A u \in Task : leases'[u] = IF u = t THEN lease ELSE leases[u]
  BY <1>1 DEF StoreShape
<1>5. {"run", "released", "head", "expires"} \subseteq DOMAIN lease /\ lease.run = r
  OBVIOUS
<1> HIDE DEF row, lease
<1> QED
  BY <1>1, <1>2, <1>3, <1>4, <1>5 DEF StoreShape, TasksGoOn

\* A heartbeat moves its own lease only.
LEMMA HeartbeatStore ==
  ASSUME StoreShape, NEW t \in Task, NEW r, NEW e, NEW ttl, NEW h, NEW x,
         Store!Heartbeat(t, r, e, ttl, h, x)
  PROVE  StoreShape' /\ TasksGoOn /\ \A u \in Task \ {t} : leases'[u] = leases[u]
<1> DEFINE head == Store!HeadOr(h, t)
           lease == [leases[t] EXCEPT !.expires = now + ttl, !.head = head]
<1>1. /\ leases' = [leases EXCEPT ![t].expires = now + ttl, ![t].head = head]
      /\ UNCHANGED <<tasks, now>>
  BY DEF Store!Heartbeat
<1>2. DOMAIN lease = DOMAIN leases[t]
  OBVIOUS
<1>3. DOMAIN leases' = Task /\ \A u \in Task : leases'[u] = IF u = t THEN lease ELSE leases[u]
  BY <1>1 DEF StoreShape
<1> HIDE DEF lease
<1> QED
  BY <1>1, <1>2, <1>3 DEF StoreShape, TasksGoOn

\* A release moves its own lease, which keeps its run, and its task row.
LEMMA ReleaseStore ==
  ASSUME StoreShape, NEW t \in Task, NEW r, NEW e, NEW h, NEW o \in Outcome, NEW x,
         Store!Release(t, r, e, h, o, x)
  PROVE  /\ StoreShape' /\ TasksGoOn
         /\ \A u \in Task \ {t} : leases'[u] = leases[u]
         /\ leases[t].run = r /\ leases'[t].run = r
<1> DEFINE head == Store!HeadOr(h, t)
           res == Store!ResultHead(t, head)
           row == [tasks[t] EXCEPT !.status = o, !.resultHead = res]
           lease == [leases[t] EXCEPT !.released = TRUE, !.head = head]
<1>1. /\ leases' = [leases EXCEPT ![t].released = TRUE, ![t].head = head]
      /\ tasks' = [tasks EXCEPT ![t].status = o, ![t].resultHead = res]
      /\ now' = now /\ leases[t].run = r
  BY DEF Store!Release, Store!WriterAuthority
<1>2. /\ DOMAIN row = DOMAIN tasks[t] /\ row.status = o
      /\ row.scope = tasks[t].scope /\ row.base = tasks[t].base
  BY DEF StoreShape
<1>3. DOMAIN tasks' = Task /\ \A u \in Task : tasks'[u] = IF u = t THEN row ELSE tasks[u]
  BY <1>1 DEF StoreShape
<1>4. DOMAIN leases' = Task /\ \A u \in Task : leases'[u] = IF u = t THEN lease ELSE leases[u]
  BY <1>1 DEF StoreShape
<1>5. DOMAIN lease = DOMAIN leases[t] /\ lease.run = leases[t].run
  BY DEF StoreShape
<1>6. o # "absent"
  BY DaemonConstants
<1> HIDE DEF row, lease
<1> QED
  BY <1>1, <1>2, <1>3, <1>4, <1>5, <1>6 DEF StoreShape, TasksGoOn

\* Rows that go on, with filed as it was, keep their history and approvals.
LEMMA GoOnKept ==
  ASSUME RowsStand, TasksGoOn, filed' = filed
  PROVE  Kept
<1> QED
  BY DEF RowsStand, TasksGoOn, Kept

\* With no new row, the rows stand and stay approved.
LEMMA RowsKept ==
  ASSUME RowsStand, RowsApproved, Kept, filed' = filed
  PROVE  RowsStand' /\ RowsApproved'
<1>1. \A t \in Task : Exists(t)' => Exists(t) /\ OrderOf(t)' = OrderOf(t) /\ EvidenceOf(t)' = EvidenceOf(t)
  BY DEF Exists, OrderOf, EvidenceOf
<1>2. RowsStand'
  BY <1>1 DEF RowsStand, Kept
<1>3. RowsApproved'
  BY <1>1 DEF RowsApproved, Evaluated, Exists
<1> QED
  BY <1>2, <1>3

\* The log grows by executions whose creations, if they are any, stand.
LEMMA LogKept ==
  ASSUME IInv, LogStands, Kept,
         \/ log' = log
         \/ \E k, res : \E q \in Request :
              /\ log' = Append(log, [key |-> k, req |-> q, res |-> res])
              /\ res = "done" /\ Form[q].m \in {"create", "govern"} => Created(q)'
  PROVE  LogStands'
<1>0. log \in Seq(Execution)
  BY DEF IInv, IdemTypeOK
<1>1. ASSUME NEW q \in Request, Created(q) PROVE Created(q)'
  <2>1. Form[q].order.task \in Task
    BY DaemonConstants
  <2> QED
    BY <1>1, <2>1 DEF Created, Kept, Exists, OrderOf
<1>2. \A i \in DOMAIN log : log[i].req \in Request
  <2>1. \A i \in DOMAIN log : log[i] \in Execution
    BY <1>0
  <2> QED
    BY <2>1 DEF Execution
<1>3. CASE log' = log
  BY <1>1, <1>2, <1>3 DEF LogStands
<1>4. ASSUME NEW k, NEW res, NEW q \in Request,
             log' = Append(log, [key |-> k, req |-> q, res |-> res]),
             res = "done" /\ Form[q].m \in {"create", "govern"} => Created(q)'
      PROVE  LogStands'
  <2> SUFFICES ASSUME NEW i \in DOMAIN log',
                      log'[i].res = "done", Form[log'[i].req].m \in {"create", "govern"}
               PROVE  (Created(log[i].req))'
    BY DEF LogStands
  <2>1. CASE i \in DOMAIN log
    <3>1. log'[i] = log[i]
      BY <1>0, <1>4, <2>1
    <3> QED
      BY <1>1, <1>2, <2>1, <3>1 DEF LogStands, Created, Exists, OrderOf
  <2>2. CASE i \notin DOMAIN log
    <3>1. log'[i] = [key |-> k, req |-> q, res |-> res]
      BY <1>0, <1>4, <2>2
    <3> QED
      <4>1. log'[i].req = q /\ log'[i].res = res
        BY <3>1
      <4>2. Created(q)'
        BY <1>4, <4>1
      <4> QED
        BY <4>1, <4>2 DEF Created, Exists, OrderOf
  <2> QED
    BY <2>1, <2>2
<1> QED
  BY <1>3, <1>4

\* Envelopes already signed stay within their rows.
LEMMA EnvelopesKept ==
  ASSUME EnvelopesStand, Kept,
         \A e \in envelopes' \ envelopes :
           /\ e.task \in Task /\ Exists(e.task)
           /\ e.base = tasks[e.task].base /\ e.paths \subseteq tasks[e.task].scope
           /\ Governed(e.task) => e.by = "launch"
  PROVE  EnvelopesStand'
<1> SUFFICES ASSUME NEW e \in envelopes'
             PROVE  /\ e.task \in Task /\ Exists(e.task)'
                    /\ e.base = tasks'[e.task].base /\ e.paths \subseteq tasks'[e.task].scope
                    /\ Governed(e.task)' => e.by = "launch"
  BY DEF EnvelopesStand
<1>1. /\ e.task \in Task /\ Exists(e.task)
      /\ e.base = tasks[e.task].base /\ e.paths \subseteq tasks[e.task].scope
      /\ Governed(e.task) => e.by = "launch"
  BY DEF EnvelopesStand
<1> QED
  BY <1>1 DEF Kept, Exists, Governed
-----------------------------------------------------------------------------
(* The steps.                                                              *)

\* Kept rows stay governed.
LEMMA GovernedKept ==
  ASSUME Kept
  PROVE  \A t \in Task : Governed(t) => Governed(t)'
<1> QED
  BY DEF Kept, Governed, Exists

\* Threads and rows when a request of thread c ends without an insert.
LEMMA EndsQuietly ==
  ASSUME DInv, NEW c \in Thread, NEW res, Finish(c, res),
         StoreShape', TasksGoOn, filed' = filed,
         work' = work \/ work' = [work EXCEPT ![c] = Idle], work'[c].step = "none",
         \A r \in active : r \in active' \/ (work[c].step \in Steps /\ r = Asked(c).run),
         res # "done" \/ Asked(c).m \notin {"create", "govern"},
         \A e \in envelopes' \ envelopes :
           /\ e.task \in Task /\ Exists(e.task)
           /\ e.base = tasks[e.task].base /\ e.paths \subseteq tasks[e.task].scope
           /\ Governed(e.task) => e.by = "launch"
  PROVE  ThreadsInv' /\ RowsInv'
<1>1. IInv /\ ThreadsInv /\ RowsStand /\ RowsApproved /\ LogStands /\ EnvelopesStand /\ RowShape
  BY DEF DInv, RowsInv
<1>2. Kept
  BY <1>1, GoOnKept
<1>3. /\ thread[c].req \in Request
      /\ \A d \in Thread \ {c} : thread'[d] = thread[d]
      /\ log' = Append(log, [key |-> thread[c].key, req |-> thread[c].req, res |-> res])
  BY <1>1, Finished, Running
<1>4. ThreadsInv'
  BY <1>1, <1>2, <1>3, ThreadsKept, GovernedKept
<1>5. RowsStand' /\ RowsApproved'
  BY <1>1, <1>2, RowsKept
<1>6. LogStands'
  <2>1. res = "done" => Form[thread[c].req].m \notin {"create", "govern"}
    BY DEF Asked
  <2> QED
    BY <1>1, <1>2, <1>3, <2>1, LogKept
<1>7. EnvelopesStand'
  BY <1>1, <1>2, EnvelopesKept
<1> QED
  BY <1>1, <1>4, <1>5, <1>6, <1>7 DEF RowsInv, RowShape

\* The columns of an evaluated request are its evidence.
LEMMA EvaluatedColumns ==
  ASSUME NEW q, q.m = "govern", ColumnsOk(q.order, Columns(q))
  PROVE  EvidenceOk(q.order, q.ev) /\ Columns(q).kind = WorkKind(q.ev)
<1> DEFINE g == Columns(q)
<1>1. /\ g.kind = WorkKind(q.ev) /\ g.exemption = q.ev.exemption
      /\ g.review = q.ev.review /\ g.receipt = q.ev.receipt
  BY DEF Columns
<1>2. g.kind \in WorkKinds /\ g.kind # None
  BY <1>1, DaemonConstants DEF WorkKind, WorkKinds
<1>3. g # Ungoverned
  BY <1>2 DEF Ungoverned
<1> HIDE DEF g
<1>4. /\ q.order.subsystem # None /\ Canon[q.order.subsystem] = q.order.subsystem
      /\ IF g.kind = "small-repair"
         THEN g.exemption # None /\ g.review = None /\ g.receipt = None
         ELSE g.exemption = None /\ g.review # None /\ g.receipt # None
  BY <1>3 DEF ColumnsOk, g
<1> QED
  BY <1>1, <1>4 DEF EvidenceOk, g

\* A row's kind is none, or one of the work kinds.
LEMMA ColumnsKind ==
  ASSUME NEW o, NEW g, ColumnsOk(o, g)
  PROVE  g.kind \in WorkKinds \cup {None}
<1> QED
  BY DEF ColumnsOk, Ungoverned

\* An insert makes a row that did not exist, as its request asks and with the
\* approval it was judged by.
LEMMA InsertInv ==
  ASSUME DInv, NEW c \in Thread, NEW judged \in Nat, Insert(c, judged),
         Asked(c).m = "govern" => Authorised(Asked(c).order, Asked(c).ev, judged)
  PROVE  ThreadsInv' /\ RowsInv'
<1>0. IInv /\ ThreadsInv /\ RowsStand /\ RowsApproved /\ LogStands /\ EnvelopesStand /\ RowShape
  BY DEF DInv, RowsInv
<1>01. PICK q \in Request : thread[c].req = q
  BY <1>0, Finished, Running DEF Insert
<1> DEFINE o == Form[q].order  t == o.task  kind == Columns(Form[q]).kind
           row == [req |-> q, kind |-> kind, judged |-> judged]
<1>02. Asked(c) = Form[q]
  BY <1>01 DEF Asked
<1>1. /\ Finish(c, "done") /\ Store!CreateTask(t, ProfileOf(o))
      /\ filed' = [filed EXCEPT ![t] = row] /\ work' = [work EXCEPT ![c] = Idle]
      /\ UNCHANGED <<active, envelopes>>
  BY <1>01, <1>02 DEF Insert
<1>2. /\ t \in Task
      /\ \A d \in Thread \ {c} : thread'[d] = thread[d]
      /\ log' = Append(log, [key |-> thread[c].key, req |-> q, res |-> "done"])
  BY <1>0, <1>1, <1>01, Finished, DaemonConstants
<1>3. /\ tasks[t].status = "absent" /\ UNCHANGED <<leases, now>>
      /\ tasks' = [tasks EXCEPT ![t] =
           [status |-> "queued", repo |-> ProfileOf(o).repo, scope |-> ProfileOf(o).scope,
            base |-> ProfileOf(o).base, allocated |-> ProfileOf(o).allocated, spent |-> 0,
            resultHead |-> None]]
  BY <1>1 DEF Store!CreateTask
<1>4. /\ DOMAIN tasks' = Task /\ \A u \in Task \ {t} : tasks'[u] = tasks[u]
      /\ tasks'[t].status = "queued" /\ tasks'[t].scope = CanonSet(o.paths)
      /\ tasks'[t].base = Canon[o.base]
      /\ {"status", "scope", "base"} \subseteq DOMAIN tasks'[t]
  BY <1>0, <1>2, <1>3 DEF RowShape, StoreShape, ProfileOf
<1>5. /\ DOMAIN filed' = Task /\ \A u \in Task \ {t} : filed'[u] = filed[u]
      /\ filed'[t] = row
  BY <1>0, <1>1, <1>2 DEF RowShape
<1>6. row # None /\ row.req = q /\ row.kind = kind /\ row.judged = judged
  <2>1. kind \in WorkKinds \cup {None}
    BY <1>01, <1>02, ColumnsKind DEF Insert
  <2> HIDE DEF kind
  <2> QED
    BY <2>1, DaemonConstants
<1>7. Kept
  BY <1>0, <1>3, <1>4, <1>5 DEF Kept, RowsStand
<1> HIDE DEF row
<1>8. RowShape'
  <2>1. \A u \in Task : {"status", "scope", "base"} \subseteq DOMAIN tasks'[u]
    BY <1>0, <1>4 DEF RowShape, StoreShape
  <2>2. leases' = leases /\ now' = now
    BY <1>3
  <2> QED
    BY <1>0, <1>4, <1>5, <2>1, <2>2 DEF RowShape, StoreShape
<1>9. RowsStand'
  BY <1>0, <1>2, <1>4, <1>5, <1>6 DEF RowsStand, Exists, OrderOf
<1>10. RowsApproved'
  <2>1. Form[q].m = "govern" =>
          /\ EvidenceOk(o, Form[q].ev) /\ kind = WorkKind(Form[q].ev)
          /\ Authorised(o, Form[q].ev, judged)
    BY <1>01, <1>02, EvaluatedColumns DEF Insert
  <2> HIDE DEF kind
  <2> QED
    BY <1>0, <1>5, <1>6, <2>1 DEF RowsApproved, Evaluated, Exists, OrderOf, EvidenceOf
<1>11. LogStands'
  <2>1. Form[q].m \in {"create", "govern"} => Created(q)'
    BY <1>02, <1>2, <1>5, <1>6 DEF Created, Exists, OrderOf
  <2> QED
    BY <1>0, <1>2, <1>7, <2>1, LogKept
<1>12. EnvelopesStand'
  BY <1>0, <1>1, <1>7, EnvelopesKept
<1>13. ThreadsInv'
  <2>1. work'[c].step = "none"
    BY <1>0, <1>1 DEF ThreadsInv, WorkShape, Idle
  <2> QED
    BY <1>0, <1>1, <1>2, <1>7, <2>1, ThreadsKept, GovernedKept
<1> QED
  BY <1>8, <1>9, <1>10, <1>11, <1>12, <1>13 DEF RowsInv

\* A thread that is about neither a governed creation nor a launch has no step.
LEMMA NoStep ==
  ASSUME ThreadsInv, NEW c \in Thread, Asked(c).m \notin {"govern", "launch"}
  PROVE  work[c].step = "none"
<1> QED
  BY DEF ThreadsInv, WorkShape, Approvals, Launches, At

\* A plain creation.
LEMMA CreateTaskInv ==
  ASSUME DInv, NEW c \in Thread, CreateTask(c)
  PROVE  ThreadsInv' /\ RowsInv'
<1>1. Insert(c, now) /\ Asked(c).m = "create" /\ now \in Nat
  BY DEF CreateTask, Doing, DInv, RowsInv, RowShape, StoreShape
<1> QED
  BY <1>1, InsertInv

\* A creation with the approval its thread holds.
LEMMA CreateGovernedInv ==
  ASSUME DInv, NEW c \in Thread, CreateGoverned(c)
  PROVE  ThreadsInv' /\ RowsInv'
<1>1. Insert(c, work[c].judged) /\ Asked(c).m = "govern"
  BY DEF CreateGoverned, Doing
<1>2. Authorised(Asked(c).order, Asked(c).ev, work[c].judged) /\ work[c].judged \in Nat
  BY DEF CreateGoverned, DInv, ThreadsInv, WorkShape, Approvals
<1> QED
  BY <1>1, <1>2, InsertInv

\* The task of a direct call is open, and its lease and row are all it moves.
LEMMA DirectClaimInv ==
  ASSUME DInv, NEW c \in Thread, DirectClaim(c)
  PROVE  /\ ThreadsInv' /\ RowsInv'
         /\ \A t \in Task : Governed(t) => leases'[t] = leases[t]
<1> DEFINE q == Asked(c)  t == q.order.task
           new == [task |-> t, run |-> q.run, epoch |-> Store!NextEpoch(t),
                   worktree |-> q.worktree, base |-> tasks[t].base,
                   paths |-> CanonSet(q.order.paths), by |-> "claim", expires |-> now + LeaseTTL]
<1>1. /\ q.m = "claim" /\ thread[c].pc = "running" /\ OpenToAll(t) /\ Within(q.order.paths, t)
      /\ Store!ClaimWorkspace(t, q.run, q.worktree, Store!ExpectedHead(t), LeaseTTL, Budget)
      /\ envelopes' = envelopes \cup {new} /\ Finish(c, "done")
      /\ UNCHANGED <<filed, work, active>>
  BY DEF DirectClaim, Claim, Doing
<1>2. t \in Task /\ StoreShape /\ IInv /\ ThreadsInv
  BY <1>1, Running DEF DInv, RowsInv, RowShape
<1>3. StoreShape' /\ TasksGoOn /\ \A u \in Task \ {t} : leases'[u] = leases[u]
  BY <1>1, <1>2, ClaimStore
<1>4. /\ new.task = t /\ new.base = tasks[t].base /\ new.paths \subseteq tasks[t].scope
      /\ Exists(t) /\ ~Governed(t)
  BY <1>1 DEF OpenToAll, Within
<1>5. work[c].step = "none"
  BY <1>1, <1>2, NoStep
<1> HIDE DEF new
<1>6. ThreadsInv' /\ RowsInv'
  BY <1>1, <1>2, <1>3, <1>4, <1>5, EndsQuietly
<1> QED
  BY <1>3, <1>4, <1>6

\* So has a direct heartbeat.
LEMMA DirectHeartbeatInv ==
  ASSUME DInv, NEW c \in Thread, DirectHeartbeat(c)
  PROVE  /\ ThreadsInv' /\ RowsInv'
         /\ \A t \in Task : Governed(t) => leases'[t] = leases[t]
<1> DEFINE q == Asked(c)  t == q.order.task
<1>1. /\ q.m = "heartbeat" /\ thread[c].pc = "running" /\ OpenToAll(t)
      /\ Store!Heartbeat(t, q.run, leases[t].epoch, LeaseTTL, None, None)
      /\ Finish(c, "done") /\ UNCHANGED <<filed, work, active, envelopes>>
  BY DEF DirectHeartbeat, Doing, daemonVars
<1>2. t \in Task /\ StoreShape /\ IInv /\ ThreadsInv
  BY <1>1, Running DEF DInv, RowsInv, RowShape
<1>3. StoreShape' /\ TasksGoOn /\ \A u \in Task \ {t} : leases'[u] = leases[u]
  BY <1>1, <1>2, HeartbeatStore
<1>4. work[c].step = "none" /\ ~Governed(t)
  BY <1>1, <1>2, NoStep DEF OpenToAll
<1>5. ThreadsInv' /\ RowsInv'
  BY <1>1, <1>2, <1>3, <1>4, EndsQuietly
<1> QED
  BY <1>3, <1>4, <1>5

\* And a direct release.
LEMMA DirectReleaseInv ==
  ASSUME DInv, NEW c \in Thread, DirectRelease(c)
  PROVE  /\ ThreadsInv' /\ RowsInv'
         /\ \A t \in Task : Governed(t) => leases'[t] = leases[t]
<1> DEFINE q == Asked(c)  t == q.order.task
<1>1. PICK o \in Outcome : Store!Release(t, q.run, leases[t].epoch, None, o, None)
  BY DEF DirectRelease
<1>2. /\ q.m = "release" /\ thread[c].pc = "running" /\ OpenToAll(t)
      /\ Finish(c, "done") /\ UNCHANGED <<filed, work, active, envelopes>>
  BY DEF DirectRelease, Doing, daemonVars
<1>3. t \in Task /\ StoreShape /\ IInv /\ ThreadsInv
  BY <1>2, Running DEF DInv, RowsInv, RowShape
<1>4. StoreShape' /\ TasksGoOn /\ \A u \in Task \ {t} : leases'[u] = leases[u]
  BY <1>1, <1>3, ReleaseStore
<1>5. work[c].step = "none" /\ ~Governed(t)
  BY <1>2, <1>3, NoStep DEF OpenToAll
<1>6. ThreadsInv' /\ RowsInv'
  BY <1>2, <1>3, <1>4, <1>5, EndsQuietly
<1> QED
  BY <1>4, <1>5, <1>6

\* Steps that touch no row.
LEMMA RowsStill ==
  ASSUME RowsInv, UNCHANGED <<log, tasks, leases, filed, envelopes>>, now' \in Nat
  PROVE  RowsInv'
<1>1. RowShape'
  BY DEF RowsInv, RowShape, StoreShape
<1>2. RowsStand' /\ RowsApproved'
  BY DEF RowsInv, RowsStand, RowsApproved, Governed, Evaluated, Exists, OrderOf, EvidenceOf
<1>3. LogStands' /\ EnvelopesStand'
  BY DEF RowsInv, LogStands, Created, EnvelopesStand, Governed, Exists, OrderOf
<1> QED
  BY <1>1, <1>2, <1>3 DEF RowsInv

\* What the launching thread may do to the leases: nothing, or move the lease
\* of its task under its own run, which it has reserved.
ByLaunch(c) ==
  \A t \in Task : leases'[t] # leases[t] =>
    /\ thread[c].pc = "running" /\ Asked(c).m = "launch" /\ Asked(c).order.task = t
    /\ Asked(c).run = leases'[t].run /\ leases'[t].run \in active

\* The steps that only prepare: evaluation, reservation, attestation, admission.
LEMMA PreparationInv ==
  ASSUME DInv, NEW c \in Thread, Judge(c) \/ Reserve(c) \/ Attest(c) \/ Admit(c)
  PROVE  ThreadsInv' /\ RowsInv' /\ leases' = leases
<1>0. ThreadsInv /\ RowsInv /\ now \in Nat /\ WorkShape
  BY DEF DInv, ThreadsInv, RowsInv, RowShape, StoreShape
<1>1. UNCHANGED <<thread, log, tasks, leases, filed, envelopes, now>>
  BY DEF Judge, Reserve, Attest, Admit, idemVars, storeVars
<1>2. RowsInv'
  BY <1>0, <1>1, RowsStill
<1>3. CASE Judge(c)
  BY <1>0, <1>1, <1>2, <1>3, JudgeThreads
<1>4. CASE Reserve(c)
  BY <1>0, <1>1, <1>2, <1>4, ReserveThreads
<1>5. CASE Attest(c)
  <2>1. /\ work[c].step \in Steps /\ active' = active
        /\ work' = [work EXCEPT ![c] = [step |-> "attested", judged |-> 0,
                                        attestation |-> Attestation(c)]]
    BY <1>5 DEF Attest, At, Steps
  <2>2. "attested" \in Steps /\ 0 \in Nat
    BY DEF Steps
  <2> QED
    BY <1>0, <1>1, <1>2, <2>1, <2>2, LaunchGoesOn
<1>6. CASE Admit(c)
  <2>1. /\ work[c].step \in Steps /\ active' = active /\ work[c].judged \in Nat
        /\ work' = [work EXCEPT ![c] = [step |-> "admitted", judged |-> work[c].judged,
                                        attestation |-> work[c].attestation]]
    BY <1>0, <1>6, SetStep DEF Admit, Goto, At, Steps, WorkShape
  <2>2. "admitted" \in Steps
    BY DEF Steps
  <2> QED
    BY <1>0, <1>1, <1>2, <2>1, <2>2, LaunchGoesOn
<1> QED
  BY <1>3, <1>4, <1>5, <1>6

\* A governed claim signs an envelope within its task's row.
LEMMA GovernedClaimInv ==
  ASSUME DInv, NEW c \in Thread, GovernedClaim(c)
  PROVE  ThreadsInv' /\ RowsInv' /\ ByLaunch(c)
<1> DEFINE a == work[c].attestation  q == Asked(c)  t == q.order.task
           new == [task |-> a.task, run |-> a.run, epoch |-> Store!NextEpoch(a.task),
                   worktree |-> a.worktree, base |-> tasks[a.task].base, paths |-> a.paths,
                   by |-> "launch", expires |-> now + LeaseTTL]
<1>0. /\ IInv /\ ThreadsInv /\ RowsStand /\ RowsApproved /\ LogStands /\ EnvelopesStand
      /\ StoreShape /\ WorkShape /\ DOMAIN filed = Task
  BY DEF DInv, RowsInv, RowShape, ThreadsInv
<1>1. /\ q.m = "launch" /\ thread[c].pc = "running" /\ work[c].step = "attested"
      /\ Store!ClaimWorkspace(a.task, a.run, a.worktree, Store!ExpectedHead(a.task), LeaseTTL, Budget)
      /\ envelopes' = envelopes \cup {new} /\ UNCHANGED <<thread, log, filed, active>>
      /\ work' = [work EXCEPT ![c].step = "claimed"]
  BY DEF GovernedClaim, Claim, Doing, At, Goto, idemVars
<1>2. a.task = t /\ a.run = q.run /\ a.paths \subseteq tasks[a.task].scope
  BY DEF GovernedClaim, Attested
<1>3. t \in Task /\ Governed(t) /\ q.run \in active
  BY <1>0, <1>1, Running DEF ThreadsInv, Launches, Steps
<1>4. /\ StoreShape' /\ TasksGoOn /\ leases'[t].run = q.run
      /\ \A u \in Task \ {t} : leases'[u] = leases[u]
  BY <1>0, <1>1, <1>2, <1>3, ClaimStore
<1>5. Kept
  BY <1>0, <1>1, <1>4, GoOnKept
<1>6. /\ new.task = t /\ new.base = tasks[t].base /\ new.paths \subseteq tasks[t].scope
      /\ new.by = "launch" /\ Exists(t)
  BY <1>2, <1>3 DEF Governed
<1> HIDE DEF new
<1>7. EnvelopesStand'
  BY <1>0, <1>1, <1>3, <1>5, <1>6, EnvelopesKept
<1>8. LogStands' /\ RowsStand' /\ RowsApproved'
  BY <1>0, <1>1, <1>5, LogKept, RowsKept
<1>9. ThreadsInv'
  <2>1. /\ work' = [work EXCEPT ![c] = [step |-> "claimed", judged |-> work[c].judged,
                                        attestation |-> work[c].attestation]]
        /\ work[c].judged \in Nat
    BY <1>0, <1>1, SetStep DEF WorkShape
  <2>2. "claimed" \in Steps /\ work[c].step \in Steps
    BY <1>1 DEF Steps
  <2> QED
    BY <1>0, <1>1, <2>1, <2>2, LaunchGoesOn
<1>10. ByLaunch(c)
  BY <1>1, <1>3, <1>4 DEF ByLaunch
<1> QED
  BY <1>0, <1>1, <1>4, <1>7, <1>8, <1>9, <1>10 DEF RowsInv, RowShape

\* A run that is over is answered without a change.
LEMMA ReplayedInv ==
  ASSUME DInv, NEW c \in Thread, Replayed(c)
  PROVE  ThreadsInv' /\ RowsInv' /\ leases' = leases
<1>1. /\ Asked(c).m = "launch" /\ work[c].step = "none" /\ Finish(c, "done")
      /\ UNCHANGED <<tasks, leases, now, filed, work, active, envelopes>>
  BY DEF Replayed, Doing, At, storeVars, daemonVars
<1>2. StoreShape' /\ TasksGoOn
  BY <1>1 DEF DInv, RowsInv, RowShape, StoreShape, TasksGoOn
<1> QED
  BY <1>1, <1>2, EndsQuietly

\* The end of a launch gives back its run, and its lease or nothing.
LEMMA SettleInv ==
  ASSUME DInv, NEW c \in Thread, NEW res \in Result, Settle(c, res)
  PROVE  ThreadsInv' /\ RowsInv' /\ ByLaunch(c)
<1> DEFINE q == Asked(c)  t == q.order.task
<1>1. /\ q.m = "launch" /\ thread[c].pc = "running" /\ work[c].step \in Steps
      /\ Finish(c, res) /\ active' = active \ {q.run} /\ UNCHANGED <<filed, envelopes>>
      /\ work' = [work EXCEPT ![c] = Idle]
  BY DEF Settle, Doing, At, Steps
<1>2. t \in Task /\ StoreShape /\ IInv /\ WorkShape /\ q.run \in active
  BY <1>1, Running DEF DInv, RowsInv, RowShape, ThreadsInv, Launches
<1>3. /\ StoreShape' /\ TasksGoOn /\ \A u \in Task \ {t} : leases'[u] = leases[u]
      /\ leases'[t] = leases[t] \/ leases'[t].run = q.run
  <2>1. ASSUME NEW o \in Outcome, Store!Release(t, q.run, runs[q.run].epoch, None, o, None)
        PROVE  <1>3!:
    BY <1>2, <2>1, ReleaseStore
  <2>2. CASE UNCHANGED storeVars
    BY <1>2, <2>2 DEF StoreShape, TasksGoOn, storeVars
  <2> QED
    BY <2>1, <2>2 DEF Settle
<1>4. work'[c].step = "none"
  BY <1>1, <1>2 DEF WorkShape, Idle
<1>5. ThreadsInv' /\ RowsInv'
  BY <1>1, <1>3, <1>4, EndsQuietly
<1>6. ByLaunch(c)
  BY <1>1, <1>2, <1>3 DEF ByLaunch
<1> QED
  BY <1>5, <1>6

\* An error changes no row, and gives back the run its thread had reserved.
LEMMA ErrorInv ==
  ASSUME DInv, NEW c \in Thread, Error(c)
  PROVE  ThreadsInv' /\ RowsInv' /\ leases' = leases
<1>1. /\ Finish(c, "failed") /\ work' = [work EXCEPT ![c] = Idle]
      /\ UNCHANGED <<tasks, leases, now, filed, envelopes>>
      /\ active' = IF Asked(c).m = "launch" /\ work[c].step # "none"
                   THEN active \ {Asked(c).run} ELSE active
  BY DEF Error, At, storeVars
<1>2. StoreShape' /\ TasksGoOn /\ ThreadsInv
  BY <1>1 DEF DInv, RowsInv, RowShape, StoreShape, TasksGoOn
<1>3. work'[c].step = "none"
  BY <1>1, <1>2 DEF ThreadsInv, WorkShape, Idle
<1>4. Asked(c).m = "launch" /\ work[c].step # "none" => work[c].step \in Steps
  BY <1>2 DEF ThreadsInv, WorkShape, Approvals, At
<1>5. \A r \in active : r \in active' \/ (work[c].step \in Steps /\ r = Asked(c).run)
  BY <1>1, <1>4
<1> QED
  BY <1>1, <1>2, <1>3, <1>5, EndsQuietly

\* A call that arrives, or looks again, has no step yet.
LEMMA TableInv ==
  ASSUME DInv, NEW c \in Thread, Arrive(c) \/ LookAgain(c)
  PROVE  ThreadsInv' /\ RowsInv' /\ leases' = leases
<1>0. IInv /\ ThreadsInv /\ RowsInv /\ thread \in [Thread -> Call]
  BY DEF DInv, IInv, IdemTypeOK
<1>1. /\ thread[c].pc # "running"
      /\ \A d \in Thread \ {c} : thread'[d] = thread[d]
      /\ log' = log /\ UNCHANGED <<storeVars, daemonVars>>
  BY <1>0 DEF Arrive, LookAgain, TakeKey, FindKey, Serve, Wake
<1>2. UNCHANGED <<tasks, leases, now, filed, work, active, envelopes>>
  BY <1>1 DEF storeVars, daemonVars
<1>3. work'[c].step = "none"
  BY <1>0, <1>1, <1>2 DEF ThreadsInv, WorkShape, Approvals, Launches, At
<1>4. RowsInv'
  BY <1>0, <1>1, <1>2, RowsStill DEF RowsInv, RowShape, StoreShape
<1>5. \A t \in Task : Governed(t) => Governed(t)'
  BY <1>2 DEF Governed, Exists
<1>6. ThreadsInv'
  BY <1>0, <1>1, <1>2, <1>3, <1>5, ThreadsKept
<1> QED
  BY <1>2, <1>4, <1>6

\* A restart leaves no thread with a step, and every row as it is.
LEMMA RestartDaemonInv ==
  ASSUME DInv, RestartDaemon
  PROVE  ThreadsInv' /\ RowsInv' /\ leases' = leases
<1>1. /\ work' = [c \in Thread |-> Idle]
      /\ UNCHANGED <<log, tasks, leases, now, filed, envelopes>>
  BY DEF RestartDaemon, Restart, storeVars
<1>2. ThreadsInv'
  BY <1>1 DEF ThreadsInv, WorkShape, Approvals, Launches, OneLauncher, Idle, At, Steps
<1>3. RowsInv'
  BY <1>1, RowsStill DEF DInv, RowsInv, RowShape, StoreShape
<1> QED
  BY <1>1, <1>2, <1>3

\* Time changes nothing.
LEMMA TickInv ==
  ASSUME DInv, Tick
  PROVE  ThreadsInv' /\ RowsInv' /\ leases' = leases
<1>1. UNCHANGED <<thread, log, tasks, leases, filed, envelopes, work, active>> /\ now' = now + 1
  BY DEF Tick, Store!Tick, idemVars, daemonVars
<1>2. ThreadsInv'
  BY <1>1 DEF DInv, ThreadsInv, WorkShape, Approvals, Launches, OneLauncher, At, Asked,
              Governed, Exists
<1>3. RowsInv'
  BY <1>1, RowsStill DEF DInv, RowsInv, RowShape, StoreShape
<1> QED
  BY <1>1, <1>2, <1>3

\* The empty daemon satisfies the invariant.
LEMMA DaemonInitInv == DaemonInit => DInv
<1> SUFFICES ASSUME DaemonInit PROVE DInv
  OBVIOUS
<1>1. IInv
  BY InitInv DEF DaemonInit
<1>2. /\ work = [c \in Thread |-> Idle] /\ filed = [t \in Task |-> None] /\ envelopes = {}
      /\ tasks = [t \in Task |-> Store!NoTask] /\ leases = [t \in Task |-> Store!NoLease]
      /\ now = 0 /\ log = <<>>
  BY DEF DaemonInit, Store!Init, IdemInit
<1>3. WorkShape
  BY <1>2 DEF WorkShape, Idle
<1>4. Approvals /\ Launches /\ OneLauncher
  BY <1>2 DEF Approvals, Launches, OneLauncher, Idle, At, Steps
<1>5. RowShape
  BY <1>2 DEF RowShape, StoreShape, Store!NoTask, Store!NoLease
<1>6. RowsStand /\ RowsApproved /\ LogStands /\ EnvelopesStand
  BY <1>2 DEF RowsStand, RowsApproved, LogStands, EnvelopesStand, Governed, Evaluated, Exists
<1> QED
  BY <1>1, <1>3, <1>4, <1>5, <1>6 DEF DInv, ThreadsInv, RowsInv

\* Every step keeps the invariant, and moves the lease of a governed task only
\* in the thread that launches its run.
LEMMA DaemonStep ==
  ASSUME DInv, DaemonNext
  PROVE  /\ ThreadsInv' /\ RowsInv'
         /\ \A t \in Task : Governed(t) /\ leases'[t] # leases[t] =>
              \E c \in Thread :
                /\ thread[c].pc = "running" /\ Asked(c).m = "launch" /\ Asked(c).order.task = t
                /\ Asked(c).run = leases'[t].run /\ leases'[t].run \in active
<1>1. ASSUME NEW c \in Thread, Arrive(c) \/ LookAgain(c)
      PROVE  ThreadsInv' /\ RowsInv' /\ leases' = leases
  BY <1>1, TableInv
<1>2. ASSUME NEW c \in Thread, Execute(c)
      PROVE  /\ ThreadsInv' /\ RowsInv'
             /\ (\A t \in Task : Governed(t) => leases'[t] = leases[t]) \/ ByLaunch(c)
  <2>1. CASE Error(c) \/ Replayed(c)
    BY <2>1, ErrorInv, ReplayedInv
  <2>2. CASE CreateTask(c) \/ CreateGoverned(c)
    <3>1. leases' = leases
      BY <2>2 DEF CreateTask, CreateGoverned, Insert, Store!CreateTask
    <3> QED
      BY <2>2, <3>1, CreateTaskInv, CreateGovernedInv
  <2>3. CASE Judge(c) \/ Reserve(c) \/ Attest(c) \/ Admit(c)
    BY <2>3, PreparationInv
  <2>4. CASE DirectClaim(c) \/ DirectHeartbeat(c) \/ DirectRelease(c)
    BY <2>4, DirectClaimInv, DirectHeartbeatInv, DirectReleaseInv
  <2>5. CASE GovernedClaim(c)
    BY <2>5, GovernedClaimInv
  <2>6. ASSUME NEW res \in Result, Settle(c, res)
        PROVE  ThreadsInv' /\ RowsInv' /\ ByLaunch(c)
    BY <2>6, SettleInv
  <2> QED
    BY <1>2, <2>1, <2>2, <2>3, <2>4, <2>5, <2>6 DEF Execute
<1>3. CASE RestartDaemon \/ Tick
  BY <1>3, RestartDaemonInv, TickInv
<1> QED
  BY <1>1, <1>2, <1>3 DEF DaemonNext, ByLaunch

\* Together with the table's invariant.
LEMMA DaemonStepInv == DInv /\ [DaemonNext]_dispatchVars => DInv'
<1> SUFFICES ASSUME DInv, [DaemonNext]_dispatchVars PROVE DInv'
  OBVIOUS
<1>1. CASE DaemonNext
  <2>1. IInv'
    BY <1>1, DaemonRefinesTable, StepInv DEF DInv
  <2> QED
    BY <1>1, <2>1, DaemonStep DEF DInv
<1>2. CASE UNCHANGED dispatchVars
  <2>1. UNCHANGED idemVars /\ UNCHANGED storeVars /\ UNCHANGED daemonVars
    BY <1>2 DEF dispatchVars
  <2>2. IInv'
    BY <2>1, StepInv DEF DInv
  <2>3. UNCHANGED <<thread, log, tasks, leases, filed, envelopes, work, active, now>>
    BY <2>1 DEF idemVars, storeVars, daemonVars
  <2>4. ThreadsInv'
    BY <2>3 DEF DInv, ThreadsInv, WorkShape, Approvals, Launches, OneLauncher, At, Asked,
                Governed, Exists
  <2>5. RowsInv'
    BY <2>3, RowsStill DEF DInv, RowsInv, RowShape, StoreShape
  <2> QED
    BY <2>2, <2>4, <2>5 DEF DInv
<1> QED
  BY <1>1, <1>2

\* The invariant holds in every reachable state.
LEMMA DaemonAlwaysInv == DaemonSpec => []DInv
<1> QED
  BY DaemonInitInv, DaemonStepInv, PTL DEF DaemonSpec

\* What the evaluation authorises, a token was signed for, and it is ready.
LEMMA AuthorisedMeans ==
  ASSUME NEW o, NEW ev, NEW t, Authorised(o, ev, t), EvidenceOk(o, ev)
  PROVE  /\ TaskReady(o, ev, t)
         /\ \E a \in Issued :
              /\ Bound(a, o) /\ a.issued - Skew <= t /\ t < a.expires
              /\ IF WorkKind(ev) = "small-repair" THEN a.type = "exemption"
                 ELSE a.type = "receipt" /\ a.review = ev.review
<1>1. CASE ev.exemption # None
  BY <1>1 DEF Authorised, EvidenceOk, ExemptionHolds, Genuine, InTime, TaskReady, BuildReady,
              WorkKind, WorkKinds
<1>2. CASE ev.exemption = None
  BY <1>2 DEF Authorised, EvidenceOk, ReceiptHolds, Genuine, InTime, TaskReady, BuildReady,
              WorkKind, WorkKinds
<1> QED
  BY <1>1, <1>2

\* An acknowledged creation stands, whatever came between.
THEOREM CreationsStand == DaemonSpec => []AcknowledgedCreation
<1>1. DInv => AcknowledgedCreation
  <2> SUFFICES ASSUME DInv, NEW c \in Thread, thread[c].reply = "done",
                      Asked(c).m \in {"create", "govern"}
               PROVE  LET q == Asked(c) IN
                      /\ Exists(q.order.task) /\ tasks[q.order.task].status # "absent"
                      /\ OrderOf(q.order.task) = q.order
                      /\ filed[q.order.task].kind = Columns(q).kind
    BY DEF AcknowledgedCreation
  <2>1. "done" \in Result
    BY DaemonConstants
  <2>2. PICK i \in DOMAIN log :
          log[i] = [key |-> thread[c].key, req |-> thread[c].req, res |-> "done"]
    BY <2>1 DEF DInv, IInv, AnswersAreReal
  <2>3. Created(thread[c].req)
    BY <2>2 DEF DInv, RowsInv, LogStands, Asked
  <2>4. thread[c].req \in Request
    <3>1. log[i] \in Execution
      BY DEF DInv, IInv, IdemTypeOK
    <3> QED
      BY <2>2, <3>1 DEF Execution
  <2>5. Asked(c).order.task \in Task
    BY <2>4, DaemonConstants DEF Asked
  <2> QED
    BY <2>3, <2>5 DEF Created, Asked, DInv, RowsInv, RowsStand
<1> QED
  BY <1>1, DaemonAlwaysInv, PTL

\* Every task the policy evaluated is governed and was approved for what it is.
THEOREM GovernedApproved == DaemonSpec => []GovernedMeansApproved
<1>1. DInv => GovernedMeansApproved
  <2> SUFFICES ASSUME DInv, NEW t \in Task, Evaluated(t)
               PROVE  /\ Governed(t) /\ \E a \in Issued : ApprovalOf(t, a)
                      /\ TaskReady(OrderOf(t), EvidenceOf(t), filed[t].judged)
    BY DEF GovernedMeansApproved
  <2>1. /\ EvidenceOk(OrderOf(t), EvidenceOf(t)) /\ filed[t].kind = WorkKind(EvidenceOf(t))
        /\ Authorised(OrderOf(t), EvidenceOf(t), filed[t].judged)
    BY DEF DInv, RowsInv, RowsApproved
  <2>2. Governed(t)
    BY <2>1, DaemonConstants DEF Evaluated, Governed, WorkKind, WorkKinds
  <2> QED
    BY <2>1, <2>2, AuthorisedMeans DEF ApprovalOf
<1> QED
  BY <1>1, DaemonAlwaysInv, PTL

\* Every envelope is within its task, a governed one comes from a launch, and
\* an evaluated one is within an approval.
THEOREM EnvelopesWithinScope == DaemonSpec => []EnvelopesInScope
<1>1. DInv => EnvelopesInScope
  <2> SUFFICES ASSUME DInv, NEW e \in envelopes
               PROVE  /\ Exists(e.task) /\ e.base = Canon[OrderOf(e.task).base]
                      /\ e.paths \subseteq CanonSet(OrderOf(e.task).paths)
                      /\ Governed(e.task) => e.by = "launch"
                      /\ Evaluated(e.task) =>
                           \E a \in Issued : a.about.task = Canon[e.task]
                                             /\ e.paths \subseteq a.about.paths
    BY DEF EnvelopesInScope
  <2>1. /\ e.task \in Task /\ Exists(e.task)
        /\ Governed(e.task) => e.by = "launch"
        /\ e.base = tasks[e.task].base /\ e.paths \subseteq tasks[e.task].scope
    BY DEF DInv, RowsInv, EnvelopesStand
  <2>2. /\ OrderOf(e.task).task = e.task
        /\ e.base = Canon[OrderOf(e.task).base]
        /\ e.paths \subseteq CanonSet(OrderOf(e.task).paths)
    BY <2>1 DEF DInv, RowsInv, RowsStand
  <2>3. Evaluated(e.task) =>
          \E a \in Issued : a.about.task = Canon[e.task] /\ e.paths \subseteq a.about.paths
    <3> SUFFICES ASSUME Evaluated(e.task)
                 PROVE  \E a \in Issued : a.about.task = Canon[e.task] /\ e.paths \subseteq a.about.paths
      OBVIOUS
    <3>1. PICK a \in Issued : Bound(a, OrderOf(e.task))
      BY <2>1, AuthorisedMeans DEF DInv, RowsInv, RowsApproved
    <3> QED
      BY <2>2, <3>1 DEF Bound, Subject
  <2> QED
    BY <2>1, <2>2, <2>3
<1> QED
  BY <1>1, DaemonAlwaysInv, PTL

\* The lease of a governed task moves only in the launch of its run.
THEOREM LeaseStaysInternal == DaemonSpec => GovernedLeaseInternal
<1>1. DInv /\ [DaemonNext]_dispatchVars =>
        [\A t \in Task : Governed(t) /\ leases'[t] # leases[t] =>
           \E c \in Thread :
             /\ thread[c].pc = "running" /\ Asked(c).m = "launch"
             /\ Asked(c).order.task = t /\ Asked(c).run = leases'[t].run
             /\ leases'[t].run \in active]_dispatchVars
  BY DaemonStep
<1> QED
  BY <1>1, DaemonAlwaysInv, PTL DEF DaemonSpec, GovernedLeaseInternal

\* So the daemon, whatever it executes, keeps the promise of OnceOnly.
THEOREM DaemonOnceOnly == DaemonSpec => ImplementsOnceOnly
<1>1. DaemonInit => IdemInit
  BY DEF DaemonInit
<1>2. [DaemonNext]_dispatchVars => [IdemNext]_idemVars
  BY DaemonRefinesTable DEF dispatchVars
<1> QED
  BY <1>1, <1>2, Refinement, PTL DEF DaemonSpec, IdemSpec
=============================================================================
