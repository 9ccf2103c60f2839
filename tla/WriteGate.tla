------------------------------- MODULE WriteGate -------------------------------
(***************************************************************************)
(* The guarded GitHub writer (forgeboss/github/write-gate.js): a directory *)
(* as the lock between processes, a state file with the recent writes, and *)
(* githubWrite, which suppresses, paces, sends and retries one request.    *)
(*                                                                         *)
(* Every file system call and every resumption after an await is a step of *)
(* its own.  Time is counted in ticks and may pass between any two steps;  *)
(* a sleep ends at its time or later.  A writer that dies may be started    *)
(* anew under the same name.                                               *)
(***************************************************************************)
EXTENDS Integers, FiniteSets, FiniteSetsExt

CONSTANTS
  Writer,      \* processes
  Key,         \* digests of keyed requests
  NoKey,       \* a request without a key
  Gap,         \* least distance of two writes (2 s)
  Window,      \* the rolling window (60 s)
  Ceiling,     \* writes in a window (30)
  DedupeFor,   \* suppression of a repeated key (300 s)
  StaleAfter,  \* age at which a lock is taken for abandoned (120 s)
  LockTries,   \* tries of lock(), a tick each (120, of 250 to 500 ms)
  Attempts,    \* requests of one call (6)
  Backoff,     \* the delays a retryable answer may lead to
  MaxTime, MaxCalls, MaxCrashes,  \* bounds
  None         \* no lock

Never == -DedupeFor - Window   \* a time before every other

ASSUME GateConstants ==
  /\ {Gap, Window, Ceiling, DedupeFor, StaleAfter, LockTries, Attempts} \subseteq Nat \ {0}
  /\ {MaxTime, MaxCalls, MaxCrashes} \subseteq Nat /\ Backoff \subseteq Nat
  /\ NoKey \notin Key /\ Gap <= Window
  /\ None \notin [by : Writer, at : Nat]

VARIABLES
  now,
  lock,     \* who made the directory and when, or None
  store,    \* the state file: lastWrite, writes, keys
  job,      \* Writer -> its call: next step and local variables
  taken,    \* history: the writes GitHub carried out, until one goes unrecorded
  overstayed, raced, unrecorded,  \* history: see Observe and Unknown
  calls, crashes

gateVars == <<now, lock, store, job, taken, overstayed, raced, unrecorded, calls, crashes>>

Section == {"load", "sleep", "flight", "save", "unlock"}
Fresh == [last |-> Never, writes |-> {}, keys |-> [k \in Key |-> Never]]

\* pc: idle, mkdir, stat, rm, pause, or in the section; wake is the end of a
\* sleep, or the time of the request in flight.
NoJob == [pc |-> "idle", key |-> NoKey, tries |-> 0, attempt |-> 0, snap |-> Fresh, wake |-> 0]
-----------------------------------------------------------------------------
(* Helpers.                                                                *)

Latest(a, b) == IF a >= b THEN a ELSE b

\* The gap's age taken for the lock's.
MutAbandoned == lock # None /\ now - lock.at > Gap

\* lock(): the directory is older than two minutes.
Abandoned == lock # None /\ now - lock.at > StaleAfter

\* s.writes.filter(...)
InWindow(writes) == {t \in writes : now - t < Window}

\* Suppression that expires with the rate window.
MutSuppressed(s, k) == k \in Key /\ now - s.keys[k] < Window

Suppressed(s, k) == k \in Key /\ now - s.keys[k] < DedupeFor

\* The ceiling taken for the last size at which a write may go out.
MutThrottled(writes) == Cardinality(writes) > Ceiling

Throttled(writes) == Cardinality(writes) >= Ceiling

\* When the first request may go out: the throttle's sleep, then the gap's.
FirstSend(s) ==
  Latest(s.last + Gap, IF Throttled(s.writes) THEN Min(s.writes) + Window ELSE now)

\* The keys are written afresh with each save.
MutRecord(s, k) ==
  [last |-> now, writes |-> s.writes \cup {now},
   keys |-> [j \in Key |-> IF j = k THEN now ELSE Never]]

\* The state after a successful answer.
Record(s, k) ==
  [last |-> now, writes |-> s.writes \cup {now},
   keys |-> [j \in Key |-> IF j = k THEN now ELSE s.keys[j]]]

At(p, label) == job[p].pc = label
Goto(p, label) == job' = [job EXCEPT ![p].pc = label]
Quit(p) == job' = [job EXCEPT ![p] = NoJob]

\* History.  A writer is still at work when its lock is old enough to be taken
\* for abandoned; a lock was made between another's stat and its rm.
Observe ==
  /\ overstayed' = (overstayed \/
       (lock' # None /\ job'[lock'.by].pc \in Section /\ now' - lock'.at > StaleAfter))
  /\ raced' = (raced \/ (lock' # lock /\ lock' # None /\ \E p \in Writer : At(p, "rm")))

-----------------------------------------------------------------------------
(* The lock.                                                               *)

GateInit ==
  /\ now = 0 /\ lock = None /\ store = Fresh /\ taken = {} /\ calls = 0 /\ crashes = 0
  /\ overstayed = FALSE /\ raced = FALSE /\ unrecorded = FALSE
  /\ job = [p \in Writer |-> NoJob]

Call(p, k) ==
  /\ At(p, "idle") /\ calls < MaxCalls
  /\ calls' = calls + 1
  /\ job' = [job EXCEPT ![p].pc = "mkdir", ![p].key = k]
  /\ UNCHANGED <<now, lock, store, taken, unrecorded, crashes>>
  /\ Observe

Mkdir(p) ==
  /\ At(p, "mkdir")
  /\ IF lock = None
     THEN lock' = [by |-> p, at |-> now] /\ Goto(p, "load")
     ELSE Goto(p, "stat") /\ UNCHANGED lock
  /\ UNCHANGED <<now, store, taken, unrecorded, calls, crashes>>
  /\ Observe

\* A lock that has gone meanwhile makes statSync throw, which is ignored.
Stat(p) ==
  /\ At(p, "stat")
  /\ job' = [job EXCEPT ![p].pc = IF Abandoned THEN "rm" ELSE "pause", ![p].wake = now + 1]
  /\ UNCHANGED <<now, lock, store, taken, unrecorded, calls, crashes>>
  /\ Observe

\* rmSync takes whatever directory is there.
Rm(p) ==
  /\ At(p, "rm")
  /\ lock' = None
  /\ job' = [job EXCEPT ![p].pc = "pause", ![p].wake = now + 1]
  /\ UNCHANGED <<now, store, taken, unrecorded, calls, crashes>>
  /\ Observe

\* The next pass, or 'GitHub write gate busy' after the last.
RetryLock(p) ==
  IF job[p].tries + 1 < LockTries
  THEN job' = [job EXCEPT ![p].pc = "mkdir", ![p].tries = @ + 1, ![p].wake = 0]
  ELSE Quit(p)

Pause(p) ==
  /\ At(p, "pause") /\ now >= job[p].wake
  /\ RetryLock(p)
  /\ UNCHANGED <<now, lock, store, taken, unrecorded, calls, crashes>>
  /\ Observe

\* unlock() does not ask whose lock it is.
Unlock(p) ==
  /\ At(p, "unlock")
  /\ lock' = None
  /\ Quit(p)
  /\ UNCHANGED <<now, store, taken, unrecorded, calls, crashes>>
  /\ Observe
-----------------------------------------------------------------------------
(* githubWrite, under the lock.                                            *)

Load(p) ==
  /\ At(p, "load")
  /\ LET s == [store EXCEPT !.writes = InWindow(@)] IN
       IF Suppressed(s, job[p].key)
       THEN Goto(p, "unlock")
       ELSE job' = [job EXCEPT ![p].pc = "sleep", ![p].snap = s, ![p].wake = FirstSend(s)]
  /\ UNCHANGED <<now, lock, store, taken, unrecorded, calls, crashes>>
  /\ Observe

\* The end of a sleep: the next request, or 'retry budget exhausted'.
Send(p) ==
  /\ At(p, "sleep") /\ now >= job[p].wake
  /\ IF job[p].attempt < Attempts
     THEN job' = [job EXCEPT ![p].pc = "flight", ![p].attempt = @ + 1, ![p].wake = now]
     ELSE Goto(p, "unlock")
  /\ UNCHANGED <<now, lock, store, taken, unrecorded, calls, crashes>>
  /\ Observe

Carried(p) == [by |-> p, from |-> job[p].wake, to |-> now, key |-> job[p].key]

\* A successful answer.
Accepted(p) ==
  /\ At(p, "flight")
  /\ taken' = IF unrecorded THEN {} ELSE taken \cup {Carried(p)}
  /\ job' = [job EXCEPT ![p].pc = "save", ![p].snap = Record(@, job[p].key)]
  /\ UNCHANGED <<now, lock, store, unrecorded, calls, crashes>>
  /\ Observe

Unrecorded == unrecorded' = TRUE /\ taken' = {}

\* GitHub carried the request out, or not, without the caller learning it.
Unknown == Unrecorded \/ UNCHANGED <<taken, unrecorded>>

\* A final error status, which is returned, or an exception of fetch.
Failed(p) ==
  /\ At(p, "flight")
  /\ Unknown
  /\ Goto(p, "unlock")
  /\ UNCHANGED <<now, lock, store, calls, crashes>>
  /\ Observe

\* 403, 429, 500, 502, 503 or 504, after which retryDelay sets the sleep.
Retryable(p) ==
  /\ At(p, "flight")
  /\ Unknown
  /\ \E d \in Backoff : job' = [job EXCEPT ![p].pc = "sleep", ![p].wake = now + d]
  /\ UNCHANGED <<now, lock, store, calls, crashes>>
  /\ Observe

\* save() replaces the whole file by rename.
Save(p) ==
  /\ At(p, "save")
  /\ store' = job[p].snap
  /\ Goto(p, "unlock")
  /\ UNCHANGED <<now, lock, taken, unrecorded, calls, crashes>>
  /\ Observe
-----------------------------------------------------------------------------
(* The surroundings.                                                       *)

Crash(p) ==
  /\ ~At(p, "idle") /\ crashes < MaxCrashes
  /\ crashes' = crashes + 1
  /\ CASE At(p, "flight") -> Unknown
       [] At(p, "save") -> Unrecorded
       [] OTHER -> UNCHANGED <<taken, unrecorded>>
  /\ Quit(p)
  /\ UNCHANGED <<now, lock, store, calls>>
  /\ Observe

Tick ==
  /\ now < MaxTime
  /\ now' = now + 1
  /\ UNCHANGED <<lock, store, job, taken, unrecorded, calls, crashes>>
  /\ Observe

Step(p) ==
  \/ \E k \in Key \cup {NoKey} : Call(p, k)
  \/ Mkdir(p) \/ Stat(p) \/ Rm(p) \/ Pause(p) \/ Unlock(p)
  \/ Load(p) \/ Send(p) \/ Accepted(p) \/ Failed(p) \/ Retryable(p) \/ Save(p)
  \/ Crash(p)

GateNext == (\E p \in Writer : Step(p)) \/ Tick

GateSpec == GateInit /\ [][GateNext]_gateVars
-----------------------------------------------------------------------------
(* Properties.  GITHUB-RECOVERY-SAFETY.md names the controls; each is      *)
(* stated for the histories in which the lock's age limit is not outlived. *)

Orderly == ~overstayed /\ ~raced

\* "Cross-process single-writer lock serializes GitHub write requests": a
\* writer between its mkdir and its unlock finds its own lock in place, so it
\* is the only one there, unless a writer outlived StaleAfter, as a long
\* Retry-After makes it, or a lock was made between a stat and its rm.
SoleWriter ==
  Orderly => \A p \in Writer : job[p].pc \in Section => lock # None /\ lock.by = p

\* "Minimum 2 seconds between writes and hard ceiling of 30 writes per rolling
\* minute": a write goes out no sooner than Gap after the answer to the one
\* before, whoever sent it, and when fewer than Ceiling were answered within
\* the window before it.
Paced ==
  Orderly /\ ~unrecorded =>
    \A b \in taken :
      /\ \A a \in taken \ {b} : b.from >= a.to + Gap \/ a.from >= b.to + Gap
      /\ Cardinality({a \in taken \ {b} : a.to <= b.from /\ b.from - a.to < Window}) < Ceiling

\* "Identical report comments are suppressed for 5 minutes": no key is carried
\* out twice within DedupeFor, whoever asks and however often it is retried, as
\* long as GitHub's answers reached the state file.
CommentedOnce ==
  Orderly /\ ~unrecorded =>
    \A a, b \in taken :
      a.key \in Key /\ a.key = b.key /\ a # b => b.from - a.to >= DedupeFor \/ a.from - b.to >= DedupeFor

\* No writer's save undoes another's: what the state file knows of a key or of
\* the last write never goes back.
NothingForgotten ==
  [][Orderly' => store'.last >= store.last /\ \A k \in Key : store'.keys[k] >= store.keys[k]]_gateVars
=============================================================================
