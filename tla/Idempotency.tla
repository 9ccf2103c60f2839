------------------------------ MODULE Idempotency ------------------------------
(***************************************************************************)
(* ForgeBossDaemon._idem (forgeboss/control/daemon.py): the in-memory      *)
(* table of idempotency keys all mutating requests go through.             *)
(*                                                                         *)
(* A call is served by a thread.  The critical sections under self.lock    *)
(* are one action each; between the first, which takes the key, and the    *)
(* last, which stores the result, the request itself runs.  Other threads  *)
(* that find the key taken wait for the owner's event and look again.  A   *)
(* result is an error exactly when it is in Failure.  The table lives in   *)
(* memory: a restart forgets it and the calls in flight are never answered.*)
(***************************************************************************)
EXTENDS Integers, Sequences, FiniteSets

CONSTANTS
  Thread,   \* calls, each served by its own thread
  Key,      \* idempotency keys
  Request,  \* digests of method and parameters
  Result,   \* what a request may produce
  Failure,  \* the results that are exceptions
  Limit,    \* entries above which the table is pruned (2000)
  Drop,     \* entries a pruning removes at most (500)
  None      \* no value

ASSUME IdemConstants ==
  /\ Failure \subseteq Result
  /\ {"conflict", "invalid", None} \cap Result = {}
  /\ None # "conflict" /\ None # "invalid"
  /\ None \notin [req : Request, res : Result]
  /\ None \notin [key : Key, req : Request, reply : Result \cup {"conflict", "invalid"}]
  /\ Limit \in Nat /\ Drop \in Nat

VARIABLES
  cache,   \* Key -> entry of self.idempotency
  thread,  \* Thread -> the call it serves
  log      \* history: the requests executed, in the order they finished

idemVars == <<cache, thread, log>>

Entry == [st : {"absent", "pending", "done"}, req : Request \cup {None},
          owner : Thread \cup {None}, result : Result \cup {None}, at : Nat]
NoEntry == [st |-> "absent", req |-> None, owner |-> None, result |-> None, at |-> 0]
\* owner: the thread whose event a waiter holds.
Call == [pc : {"idle", "running", "waiting", "answered", "lost"}, key : Key \cup {None},
         req : Request \cup {None}, owner : Thread \cup {None},
         reply : Result \cup {None, "conflict", "invalid"}]
Execution == [key : Key, req : Request, res : Result]

IdemTypeOK ==
  /\ cache \in [Key -> Entry]
  /\ thread \in [Thread -> Call]
  /\ log \in Seq(Execution)
  /\ \A c \in Thread : thread[c].pc = "answered" <=> thread[c].reply # None

-----------------------------------------------------------------------------
(* Helpers.                                                                *)

Present(c) == {k \in Key : c[k].st # "absent"}
DoneKeys(c) == {k \in Key : c[k].st = "done"}

\* The set of the Drop oldest done entries.
Oldest(c) ==
  {k \in DoneKeys(c) : Cardinality({j \in DoneKeys(c) : c[j].at < c[k].at}) < Drop}

\* The pruning after a success: above Limit entries, the oldest done ones go.
Pruned(c) ==
  IF Cardinality(Present(c)) > Limit
  THEN [k \in Key |-> IF k \in Oldest(c) THEN NoEntry ELSE c[k]] ELSE c

\* An event only the success path sets.
MutEventSet(c) == thread[c].pc = "answered" /\ thread[c].reply \notin Failure

\* event.is_set() of the entry thread c made: both exits of the owner set it.
EventSet(c) == thread[c].pc = "answered"

\* A table that does not compare requests.
MutSameRequest(k, q) == TRUE

SameRequest(k, q) == cache[k].req = q

\* A table that only knows finished entries.
MutFree(k) == cache[k].st # "done"

Free(k) == cache[k].st = "absent"
-----------------------------------------------------------------------------
(* Operations.                                                             *)

IdemInit ==
  /\ cache = [k \in Key |-> NoEntry]
  /\ thread = [c \in Thread |-> [pc |-> "idle", key |-> None, req |-> None,
                                 owner |-> None, reply |-> None]]
  /\ log = <<>>

\* What a thread does after its first critical section.
Serve(c, k, q, pc, owner, reply) ==
  thread' = [thread EXCEPT ![c] =
    [pc |-> pc, key |-> k, req |-> q, owner |-> owner, reply |-> reply]]

TakeKey(c, k, q) ==
  /\ thread[c].pc = "idle" /\ Free(k)
  /\ cache' = [cache EXCEPT ![k] =
       [st |-> "pending", req |-> q, owner |-> c, result |-> None, at |-> Len(log)]]
  /\ Serve(c, k, q, "running", c, None)
  /\ UNCHANGED log

FindKey(c, k, q) ==
  /\ thread[c].pc = "idle" /\ ~Free(k)
  /\ \/ ~SameRequest(k, q) /\ Serve(c, k, q, "answered", None, "conflict")
     \/ /\ SameRequest(k, q) /\ cache[k].st = "done"
        /\ Serve(c, k, q, "answered", None, cache[k].result)
     \/ /\ SameRequest(k, q) /\ cache[k].st = "pending"
        /\ Serve(c, k, q, "waiting", cache[k].owner, None)
  /\ UNCHANGED <<cache, log>>

\* fn() has returned or raised res.  Only a success prunes the table.
Finish(c, res) ==
  /\ thread[c].pc = "running"
  /\ LET k == thread[c].key
         stored == [cache EXCEPT ![k].st = "done", ![k].result = res, ![k].at = Len(log) + 1]
     IN /\ thread' = [thread EXCEPT ![c].pc = "answered", ![c].reply = res]
        /\ cache' = IF res \in Failure THEN stored ELSE Pruned(stored)
        /\ log' = Append(log, [key |-> k, req |-> thread[c].req, res |-> res])

\* After event.wait(): the entry may have been pruned meanwhile, or pruned and
\* taken again (then there is no "result" to return either).
Wake(c) ==
  /\ thread[c].pc = "waiting" /\ EventSet(thread[c].owner)
  /\ LET e == cache[thread[c].key] IN
     thread' = [thread EXCEPT ![c].pc = "answered",
       ![c].reply = IF e.st = "done" /\ e.req = thread[c].req THEN e.result ELSE "invalid"]
  /\ UNCHANGED <<cache, log>>

InFlight(c) == thread[c].pc \in {"running", "waiting"}

\* The daemon's process ends and another starts with an empty table.
Restart ==
  /\ cache' = [k \in Key |-> NoEntry]
  /\ thread' = [c \in Thread |->
       IF InFlight(c) THEN [thread[c] EXCEPT !.pc = "lost"] ELSE thread[c]]
  /\ UNCHANGED log

IdemNext ==
  \/ \E c \in Thread :
       \/ \E k \in Key, q \in Request : TakeKey(c, k, q) \/ FindKey(c, k, q)
       \/ \E res \in Result : Finish(c, res)
       \/ Wake(c)
  \/ Restart

IdemSpec == IdemInit /\ [][IdemNext]_idemVars
-----------------------------------------------------------------------------
(* Properties.                                                             *)

\* A key never has two executions in flight, pruning or not: a pending entry
\* survives every pruning, so no retry can slip past a request still running.
OneInFlight ==
  \A c, d \in Thread :
    c # d /\ thread[c].pc = "running" /\ thread[d].pc = "running" =>
      thread[c].key # thread[d].key

\* Every result a client receives under a key comes from a finished execution
\* of its own request under that key, never from another request's, however
\* the entry was pruned, taken again or waited for.
AnswersAreReal ==
  \A c \in Thread :
    thread[c].reply \in Result =>
      \E i \in DOMAIN log :
        log[i] = [key |-> thread[c].key, req |-> thread[c].req, res |-> thread[c].reply]

\* Nobody waits for ever: every call is answered, the one that found its key
\* taken too, also when the owner failed or the entry was pruned before it
\* looked again, unless the daemon that served it is gone.  A thread serves one
\* call, so this is that again and again no call is in flight.
WaitersAnswered == []<>(\A c \in Thread : ~InFlight(c))

\* The table implements the promise of an idempotency key: no request runs
\* again while its answer is remembered, and everybody gets that answer.
rememberedView ==
  [k \in Key |-> IF cache[k].st # "done" THEN None
                 ELSE [req |-> cache[k].req, res |-> cache[k].result]]
answersView ==
  [c \in Thread |->
    IF thread[c].pc # "answered" THEN None
    ELSE [key |-> thread[c].key, req |-> thread[c].req, reply |-> thread[c].reply]]

Once == INSTANCE OnceOnly WITH remembered <- rememberedView, answers <- answersView
ImplementsOnceOnly == Once!OnceSpec
=============================================================================
