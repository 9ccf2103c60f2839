---------------------------- MODULE WriteGateProofs ----------------------------
(***************************************************************************)
(* Proofs about WriteGate for every set of writers and keys, all limits    *)
(* and all bounds.                                                         *)
(*                                                                         *)
(* Everything rests on the lock (LockInv): while no writer outlives the    *)
(* lock's age limit and no lock is made between a stat and its rm, what an *)
(* rm removes belongs to nobody at work.  Then a writer's snapshot of the  *)
(* state file stays the newest there is (CallsInv), and what GitHub has    *)
(* carried out is in the file or about to be written to it (TakenInv).     *)
(***************************************************************************)
EXTENDS WriteGate, FiniteSetTheorems, TLAPS

LockType == [by : Writer, at : Nat]
StateType == [last : Int, writes : SUBSET Nat, keys : [Key -> Int]]
JobType == [pc : Section \cup {"idle", "mkdir", "stat", "rm", "pause"}, key : Key \cup {NoKey},
            tries : Nat, attempt : Nat, snap : StateType, wake : Int]
WriteType == [by : Writer, from : Int, to : Nat, key : Key \cup {NoKey}]

GateType ==
  /\ now \in Nat
  /\ lock \in LockType \cup {None}
  /\ store \in StateType
  /\ job \in [Writer -> JobType]
  /\ taken \subseteq WriteType
  /\ overstayed \in BOOLEAN /\ raced \in BOOLEAN /\ unrecorded \in BOOLEAN

\* What the history variables stand for, and the lock of a writer at work.
LockInv ==
  /\ ~overstayed /\ lock # None => job[lock.by].pc \notin Section \/ now - lock.at <= StaleAfter
  /\ ~raced => \A p \in Writer : At(p, "rm") => lock = None \/ now - lock.at > StaleAfter
  /\ SoleWriter

\* The writes a request at time t has to count.
Recent(writes, t) == {u \in writes : t - u < Window}

\* No state lies in the future.
Past(s) ==
  /\ s.last <= now
  /\ \A k \in Key : s.keys[k] <= now
  /\ IsFiniteSet(s.writes)

PastInv == Past(store) /\ \A p \in Writer : Past(job[p].snap)

\* A state that tells of a write.
Knows(s, a) ==
  /\ s.last >= a.to
  /\ a.key \in Key => s.keys[a.key] >= a.to
  /\ a.to \in s.writes \/ now - a.to >= Window

\* The time from which the next answer of p's call counts.
Sent(p) == IF At(p, "flight") THEN job[p].wake ELSE now

\* A writer's snapshot is at least as new as the state file, and its sleep
\* ends when the limits allow the request.
CallInv(p) ==
  LET j == job[p]
      s == job[p].snap IN
  /\ j.pc \in {"sleep", "flight", "save"} =>
       s.last >= store.last /\ \A k \in Key : s.keys[k] >= store.keys[k]
  /\ j.pc \in {"sleep", "flight"} =>
       /\ Sent(p) <= now
       /\ j.wake >= store.last + Gap
       /\ j.key \in Key => Sent(p) - store.keys[j.key] >= DedupeFor
       /\ Cardinality(Recent(s.writes, j.wake)) < Ceiling
       /\ ~unrecorded => \A a \in taken : a.to \in s.writes \/ Sent(p) - a.to >= Window
  /\ j.pc = "save" =>
       /\ Cardinality(Recent(s.writes, now)) <= Ceiling
       /\ ~unrecorded => \A a \in taken : Knows(s, a)

CallsInv == Orderly =>
  /\ \A p \in Writer : CallInv(p)
  /\ Cardinality(Recent(store.writes, now)) <= Ceiling

\* Outside a save the state file knows all that GitHub carried out.
TakenInv == Orderly /\ ~unrecorded =>
  /\ \A a \in taken : a.from <= a.to /\ a.to <= now
  /\ (\A p \in Writer : ~At(p, "save")) => \A a \in taken : Knows(store, a)

GateInv ==
  /\ GateType
  /\ LockInv
  /\ PastInv
  /\ CallsInv
  /\ TakenInv
  /\ Paced
  /\ CommentedOnce
-----------------------------------------------------------------------------
(* Constants and counting.                                                 *)

\* The limits are positive.
LEMMA Limits ==
  /\ Gap \in Nat \ {0} /\ Window \in Nat \ {0} /\ Ceiling \in Nat \ {0}
  /\ DedupeFor \in Nat \ {0} /\ StaleAfter \in Nat \ {0} /\ Attempts \in Nat \ {0}
  /\ Backoff \subseteq Nat /\ NoKey \notin Key /\ None \notin LockType
  /\ Never \in Int /\ Never < 0 /\ Gap <= Window
BY GateConstants DEF Never, LockType

\* The earliest of some times.
LEMMA Earliest ==
  ASSUME NEW S \in SUBSET Nat, S # {}
  PROVE  Min(S) \in S /\ \A x \in S : Min(S) <= x
<1>1. PICK m \in S : \A x \in S : <<x, m>> \notin OpToRel(<, Nat)
  BY NatLessThanWellFounded, WFMin, Zenon
<1>2. \A x \in S : m <= x
  <2> SUFFICES ASSUME NEW x \in S, x < m PROVE FALSE
    OBVIOUS
  <2>1. <<x, m>> \in OpToRel(<, Nat)
    BY DEF OpToRel
  <2> QED
    BY <1>1, <2>1
<1> QED
  BY <1>2 DEF Min

\* Fewer writes are recent at a later time.
LEMMA RecentShrinks ==
  ASSUME NEW W \in SUBSET Nat, IsFiniteSet(W), NEW t \in Int, NEW u \in Int, t <= u
  PROVE  /\ IsFiniteSet(Recent(W, t)) /\ Cardinality(Recent(W, t)) \in Nat
         /\ Cardinality(Recent(W, u)) \in Nat
         /\ Cardinality(Recent(W, u)) <= Cardinality(Recent(W, t))
         /\ Cardinality(Recent(W, t)) <= Cardinality(W)
<1>1. Recent(W, t) \subseteq W /\ Recent(W, u) \subseteq Recent(W, t)
  <2>1. Window \in Int
    BY Limits
  <2>2. \A x \in W : x \in Int /\ (u - x < Window => t - x < Window)
    BY <2>1
  <2> QED
    BY <2>2 DEF Recent
<1>2. /\ IsFiniteSet(Recent(W, t)) /\ Cardinality(Recent(W, t)) <= Cardinality(W)
      /\ Cardinality(Recent(W, t)) \in Nat
  BY <1>1, FS_Subset, FS_CardinalityType
<1>3. /\ IsFiniteSet(Recent(W, u)) /\ Cardinality(Recent(W, u)) <= Cardinality(Recent(W, t))
      /\ Cardinality(Recent(W, u)) \in Nat
  BY <1>1, <1>2, FS_Subset, FS_CardinalityType
<1> QED
  BY <1>2, <1>3

-----------------------------------------------------------------------------
(* What each step does.                                                    *)

\* A step of p changes no other writer's call.
LEMMA OthersKept ==
  ASSUME GateType, NEW p \in Writer, Step(p), NEW q \in Writer \ {p}
  PROVE  job'[q] = job[q]
BY DEF GateType, Step, Call, Mkdir, Stat, Rm, Pause, RetryLock, Unlock, Load, Send, Accepted, Failed,
   Retryable, Save, Crash, Goto, Quit

\* The steps that lead to and from the lock.
LEMMA OutsideEffect ==
  ASSUME GateType, NEW p \in Writer,
         \/ \E k \in Key \cup {NoKey} : Call(p, k)
         \/ Mkdir(p) \/ Stat(p) \/ Rm(p) \/ Pause(p) \/ Unlock(p) \/ Failed(p) \/ Crash(p)
  PROVE  /\ job' \in [Writer -> JobType]
         /\ job'[p].pc \in {"idle", "mkdir", "stat", "rm", "pause", "load", "unlock"}
         /\ job'[p].pc = "load" => lock = None /\ Mkdir(p)
         /\ job'[p].pc = "unlock" => job[p].pc = "flight"
         /\ job'[p].pc = "rm" => Abandoned
         /\ job'[p].snap \in {job[p].snap, Fresh}
         /\ now' = now /\ store' = store
<1>0. job[p] \in JobType /\ now \in Nat /\ Fresh \in StateType
  BY Limits DEF GateType, Fresh, StateType
<1>1. NoJob \in JobType /\ NoJob.pc = "idle" /\ NoJob.snap = Fresh
  BY <1>0 DEF NoJob, JobType
<1>2. CASE \E k \in Key \cup {NoKey} : Call(p, k)
  <2>1. PICK k \in Key \cup {NoKey} : Call(p, k)
    BY <1>2
  <2>2. job' = [job EXCEPT ![p] = [job[p] EXCEPT !.pc = "mkdir", !.key = k]] /\ now' = now /\ store' = store
    BY <2>1 DEF Call
  <2>3. /\ [job[p] EXCEPT !.pc = "mkdir", !.key = k] \in JobType
        /\ [job[p] EXCEPT !.pc = "mkdir", !.key = k].pc = "mkdir"
        /\ [job[p] EXCEPT !.pc = "mkdir", !.key = k].snap = job[p].snap
    BY <1>0 DEF JobType
  <2> QED
    BY <2>2, <2>3 DEF GateType
<1>3. ASSUME NEW label \in {"load", "stat", "unlock"}, Goto(p, label)
      PROVE  job' \in [Writer -> JobType] /\ job'[p].pc = label /\ job'[p].snap = job[p].snap
  <2>1. job' = [job EXCEPT ![p] = [job[p] EXCEPT !.pc = label]]
    BY <1>3 DEF Goto
  <2>2. /\ [job[p] EXCEPT !.pc = label] \in JobType /\ [job[p] EXCEPT !.pc = label].pc = label
        /\ [job[p] EXCEPT !.pc = label].snap = job[p].snap
    BY <1>0 DEF JobType, Section
  <2> QED
    BY <2>1, <2>2 DEF GateType
<1>4. CASE Mkdir(p)
  BY <1>3, <1>4 DEF Mkdir
<1>5. ASSUME NEW label \in {"rm", "pause"},
             job' = [job EXCEPT ![p] = [job[p] EXCEPT !.pc = label, !.wake = now + 1]]
      PROVE  job' \in [Writer -> JobType] /\ job'[p].pc = label /\ job'[p].snap = job[p].snap
  <2>1. PICK w \in Int : w = now + 1
    BY <1>0
  <2>2. job' = [job EXCEPT ![p] = [job[p] EXCEPT !.pc = label, !.wake = w]]
    BY <1>5, <2>1
  <2>3. /\ [job[p] EXCEPT !.pc = label, !.wake = w] \in JobType
        /\ [job[p] EXCEPT !.pc = label, !.wake = w].pc = label
        /\ [job[p] EXCEPT !.pc = label, !.wake = w].snap = job[p].snap
    BY <1>0 DEF JobType
  <2> QED
    BY <2>2, <2>3 DEF GateType
<1>6. CASE Stat(p)
  <2>1. \E label \in {"rm", "pause"} :
          /\ label = "rm" => Abandoned
          /\ job' = [job EXCEPT ![p] = [job[p] EXCEPT !.pc = label, !.wake = now + 1]]
    BY <1>6 DEF Stat
  <2> QED
    BY <1>5, <1>6, <2>1 DEF Stat
<1>7. CASE Rm(p)
  <2>1. job' = [job EXCEPT ![p] = [job[p] EXCEPT !.pc = "pause", !.wake = now + 1]]
    BY <1>7 DEF Rm
  <2> QED
    BY <1>5, <1>7, <2>1 DEF Rm
<1>8. Quit(p) => job' \in [Writer -> JobType] /\ job'[p] = NoJob
  BY <1>1 DEF Quit, GateType
<1>9. CASE Pause(p)
  <2>1. CASE job[p].tries + 1 < LockTries
    <3>1. job' = [job EXCEPT ![p] = [job[p] EXCEPT !.pc = "mkdir", !.tries = @ + 1, !.wake = 0]]
      BY <1>9, <2>1 DEF Pause, RetryLock
    <3>2. PICK n \in Nat : n = job[p].tries + 1
      BY <1>0 DEF JobType
    <3>3. PICK w \in Int : w = 0
      OBVIOUS
    <3>4. job' = [job EXCEPT ![p] = [job[p] EXCEPT !.pc = "mkdir", !.tries = n, !.wake = w]]
      BY <3>1, <3>2, <3>3
    <3>5. /\ [job[p] EXCEPT !.pc = "mkdir", !.tries = n, !.wake = w] \in JobType
          /\ [job[p] EXCEPT !.pc = "mkdir", !.tries = n, !.wake = w].pc = "mkdir"
          /\ [job[p] EXCEPT !.pc = "mkdir", !.tries = n, !.wake = w].snap = job[p].snap
      BY <1>0 DEF JobType
    <3>6. job' \in [Writer -> JobType] /\ job'[p].pc = "mkdir" /\ job'[p].snap = job[p].snap
      BY <3>4, <3>5 DEF GateType
    <3> QED
      BY <1>9, <3>6 DEF Pause
  <2>2. CASE ~(job[p].tries + 1 < LockTries)
    BY <1>1, <1>8, <1>9, <2>2 DEF Pause, RetryLock
  <2> QED
    BY <2>1, <2>2
<1>10. CASE Unlock(p)
  BY <1>1, <1>8, <1>10 DEF Unlock
<1>11. CASE Failed(p)
  BY <1>3, <1>11 DEF Failed, At
<1>12. CASE Crash(p)
  BY <1>1, <1>8, <1>12 DEF Crash
<1> QED
  BY <1>2, <1>4, <1>6, <1>7, <1>9, <1>10, <1>11, <1>12

\* The state a call starts from.
Loaded == [store EXCEPT !.writes = InWindow(@)]

\* It is the state file without the writes that no longer count.
LEMMA LoadedState ==
  ASSUME GateType
  PROVE  /\ Loaded \in StateType /\ Loaded.last = store.last /\ Loaded.keys = store.keys
         /\ Loaded.writes = Recent(store.writes, now)
<1>1. InWindow(store.writes) = Recent(store.writes, now) /\ InWindow(store.writes) \subseteq store.writes
  BY DEF InWindow, Recent
<1>2. store \in StateType
  BY DEF GateType
<1>3. PICK W \in SUBSET Nat : W = InWindow(store.writes)
  BY <1>1, <1>2 DEF StateType
<1>4. Loaded = [store EXCEPT !.writes = W]
  BY <1>3 DEF Loaded
<1>5. /\ [store EXCEPT !.writes = W] \in StateType /\ [store EXCEPT !.writes = W].last = store.last
      /\ [store EXCEPT !.writes = W].keys = store.keys /\ [store EXCEPT !.writes = W].writes = W
  BY <1>2 DEF StateType
<1> QED
  BY <1>1, <1>3, <1>4, <1>5

\* The throttle and the gap: when the first request may go out, the last write
\* is Gap behind and fewer than Ceiling writes count.
LEMMA FirstSendAllows ==
  ASSUME NEW s \in StateType, IsFiniteSet(s.writes), GateType,
         s.writes = Recent(s.writes, now)
  PROVE  /\ FirstSend(s) \in Int
         /\ FirstSend(s) >= s.last + Gap
         /\ Cardinality(s.writes) <= Ceiling =>
              Cardinality(Recent(s.writes, FirstSend(s))) < Ceiling
<1>1. /\ s.last \in Int /\ s.writes \in SUBSET Nat /\ now \in Int
      /\ Gap \in Nat /\ Window \in Nat /\ Ceiling \in Nat \ {0}
      /\ Cardinality(s.writes) \in Nat
  BY Limits, FS_CardinalityType DEF StateType, GateType
<1>2. CASE Throttled(s.writes)
  <2>1. s.writes # {}
    BY <1>1, <1>2, FS_EmptySet DEF Throttled
  <2>2. PICK m \in s.writes : m = Min(s.writes)
    BY <1>1, <2>1, Earliest
  <2>3. /\ FirstSend(s) = Latest(s.last + Gap, m + Window) /\ m \in Int
    BY <1>1, <1>2, <2>2 DEF FirstSend
  <2>4. FirstSend(s) \in Int /\ FirstSend(s) >= s.last + Gap /\ FirstSend(s) >= m + Window
    BY <1>1, <2>3 DEF Latest
  <2>5. Recent(s.writes, FirstSend(s)) \subseteq s.writes \ {m}
    BY <1>1, <2>3, <2>4 DEF Recent
  <2>6. /\ IsFiniteSet(s.writes \ {m}) /\ Cardinality(s.writes \ {m}) = Cardinality(s.writes) - 1
    BY FS_RemoveElement
  <2>7. /\ Cardinality(Recent(s.writes, FirstSend(s))) <= Cardinality(s.writes \ {m})
        /\ Cardinality(Recent(s.writes, FirstSend(s))) \in Nat
    BY <2>5, <2>6, FS_Subset, FS_CardinalityType
  <2> QED
    BY <1>1, <2>4, <2>6, <2>7
<1>3. CASE ~Throttled(s.writes)
  <2>1. FirstSend(s) = Latest(s.last + Gap, now)
    BY <1>3 DEF FirstSend
  <2>2. FirstSend(s) \in Int /\ FirstSend(s) >= s.last + Gap
    BY <1>1, <2>1 DEF Latest
  <2>3. Recent(s.writes, FirstSend(s)) \subseteq s.writes
    BY DEF Recent
  <2>4. /\ Cardinality(Recent(s.writes, FirstSend(s))) <= Cardinality(s.writes)
        /\ Cardinality(Recent(s.writes, FirstSend(s))) \in Nat
    BY <2>3, FS_Subset, FS_CardinalityType
  <2> QED
    BY <1>1, <1>3, <2>2, <2>4 DEF Throttled
<1> QED
  BY <1>2, <1>3

\* The state a successful answer leads to.
LEMMA RecordedState ==
  ASSUME GateType, NEW s \in StateType, NEW k \in Key \cup {NoKey}
  PROVE  /\ Record(s, k) \in StateType /\ Record(s, k).last = now
         /\ Record(s, k).writes = s.writes \cup {now}
         /\ \A j \in Key : Record(s, k).keys[j] = IF j = k THEN now ELSE s.keys[j]
BY DEF GateType, StateType, Record

\* The call's steps under the lock.
LEMMA LoadEffect ==
  ASSUME GateType, NEW p \in Writer, Load(p)
  PROVE  /\ UNCHANGED <<now, lock, store, taken, unrecorded>> /\ job[p].pc = "load"
         /\ \/ job'[p].pc = "unlock" /\ job'[p].snap = job[p].snap /\ job'[p] \in JobType
            \/ /\ job' = [job EXCEPT ![p].pc = "sleep", ![p].snap = Loaded, ![p].wake = FirstSend(Loaded)]
               /\ ~Suppressed(Loaded, job[p].key)
<1>1. UNCHANGED <<now, lock, store, taken, unrecorded>> /\ job[p].pc = "load"
  BY DEF Load, At
<1>2. job[p] \in JobType
  BY DEF GateType
<1>3. CASE Suppressed(Loaded, job[p].key)
  <2>1. job' = [job EXCEPT ![p] = [job[p] EXCEPT !.pc = "unlock"]]
    BY <1>3 DEF Load, Loaded, Goto
  <2>2. /\ [job[p] EXCEPT !.pc = "unlock"] \in JobType /\ [job[p] EXCEPT !.pc = "unlock"].pc = "unlock"
        /\ [job[p] EXCEPT !.pc = "unlock"].snap = job[p].snap
    BY <1>2 DEF JobType, Section
  <2> QED
    BY <1>1, <2>1, <2>2 DEF GateType
<1>4. CASE ~Suppressed(Loaded, job[p].key)
  <2>1. job' = [job EXCEPT ![p].pc = "sleep", ![p].snap = Loaded, ![p].wake = FirstSend(Loaded)]
    BY <1>4 DEF Load, Loaded
  <2> QED
    BY <1>1, <1>4, <2>1
<1> QED
  BY <1>3, <1>4

\* A call whose sleep begins.
LEMMA SleepFields ==
  ASSUME GateType, PastInv, NEW p \in Writer, Load(p), job'[p].pc # "unlock"
  PROVE  /\ job'[p] \in JobType /\ job'[p].pc = "sleep" /\ job'[p].key = job[p].key
         /\ job'[p].snap = Loaded /\ job'[p].wake = FirstSend(Loaded)
         /\ ~Suppressed(Loaded, job[p].key)
<1>1. job[p] \in JobType /\ IsFiniteSet(store.writes) /\ store.writes \in SUBSET Nat /\ now \in Nat
  BY DEF GateType, StateType, PastInv, Past
<1>2. Loaded \in StateType /\ Loaded.writes = Recent(store.writes, now)
  BY LoadedState
<1>3. IsFiniteSet(Loaded.writes) /\ Loaded.writes = Recent(Loaded.writes, now)
  <2>1. Recent(store.writes, now) \subseteq store.writes
    BY DEF Recent
  <2> QED
    BY <1>1, <1>2, <2>1, FS_Subset DEF Recent
<1>4. FirstSend(Loaded) \in Int
  <2>1. PICK s \in StateType : s = Loaded
    BY <1>2
  <2> QED
    BY <1>3, <2>1, FirstSendAllows
<1>5. /\ job' = [job EXCEPT ![p].pc = "sleep", ![p].snap = Loaded, ![p].wake = FirstSend(Loaded)]
      /\ ~Suppressed(Loaded, job[p].key)
  BY LoadEffect
<1>6. PICK s \in StateType : s = Loaded
  BY <1>2
<1>7. PICK w \in Int : w = FirstSend(Loaded)
  BY <1>4
<1>8. job' = [job EXCEPT ![p] = [job[p] EXCEPT !.pc = "sleep", !.snap = s, !.wake = w]]
  BY <1>5, <1>6, <1>7
<1>9. /\ [job[p] EXCEPT !.pc = "sleep", !.snap = s, !.wake = w] \in JobType
      /\ [job[p] EXCEPT !.pc = "sleep", !.snap = s, !.wake = w].pc = "sleep"
      /\ [job[p] EXCEPT !.pc = "sleep", !.snap = s, !.wake = w].key = job[p].key
      /\ [job[p] EXCEPT !.pc = "sleep", !.snap = s, !.wake = w].snap = s
      /\ [job[p] EXCEPT !.pc = "sleep", !.snap = s, !.wake = w].wake = w
  BY <1>1 DEF JobType, Section
<1>10. job'[p] = [job[p] EXCEPT !.pc = "sleep", !.snap = s, !.wake = w]
  BY <1>8 DEF GateType
<1> QED
  BY <1>5, <1>6, <1>7, <1>9, <1>10, Zenon

\* A request goes out, or the attempts are used up.
LEMMA SendEffect ==
  ASSUME GateType, NEW p \in Writer, Send(p)
  PROVE  /\ UNCHANGED <<now, lock, store, taken, unrecorded>>
         /\ job[p].pc = "sleep" /\ now >= job[p].wake
         /\ job'[p] \in JobType /\ job'[p].snap = job[p].snap /\ job'[p].key = job[p].key
         /\ job'[p].pc = "unlock" \/ (job'[p].pc = "flight" /\ job'[p].wake = now)
<1>1. UNCHANGED <<now, lock, store, taken, unrecorded>> /\ job[p].pc = "sleep" /\ now >= job[p].wake
  BY DEF Send, At
<1>2. job[p] \in JobType /\ now \in Int
  BY DEF GateType
<1>3. CASE job[p].attempt < Attempts
  <2>1. PICK n \in Nat : n = job[p].attempt + 1
    BY <1>2 DEF JobType
  <2>2. PICK w \in Int : w = now
    BY <1>2
  <2>3. job' = [job EXCEPT ![p] = [job[p] EXCEPT !.pc = "flight", !.attempt = n, !.wake = w]]
    BY <1>3, <2>1, <2>2 DEF Send
  <2>4. /\ [job[p] EXCEPT !.pc = "flight", !.attempt = n, !.wake = w] \in JobType
        /\ [job[p] EXCEPT !.pc = "flight", !.attempt = n, !.wake = w].pc = "flight"
        /\ [job[p] EXCEPT !.pc = "flight", !.attempt = n, !.wake = w].key = job[p].key
        /\ [job[p] EXCEPT !.pc = "flight", !.attempt = n, !.wake = w].snap = job[p].snap
        /\ [job[p] EXCEPT !.pc = "flight", !.attempt = n, !.wake = w].wake = w
    BY <1>2 DEF JobType, Section
  <2> QED
    BY <1>1, <2>2, <2>3, <2>4 DEF GateType
<1>4. CASE ~(job[p].attempt < Attempts)
  <2>1. job' = [job EXCEPT ![p] = [job[p] EXCEPT !.pc = "unlock"]]
    BY <1>4 DEF Send, Goto
  <2>2. /\ [job[p] EXCEPT !.pc = "unlock"] \in JobType /\ [job[p] EXCEPT !.pc = "unlock"].pc = "unlock"
        /\ [job[p] EXCEPT !.pc = "unlock"].snap = job[p].snap
        /\ [job[p] EXCEPT !.pc = "unlock"].key = job[p].key
    BY <1>2 DEF JobType, Section
  <2> QED
    BY <1>1, <2>1, <2>2 DEF GateType
<1> QED
  BY <1>3, <1>4

\* A successful answer is recorded in memory.
LEMMA AcceptedEffect ==
  ASSUME GateType, NEW p \in Writer, Accepted(p)
  PROVE  /\ UNCHANGED <<now, lock, store, unrecorded>> /\ job[p].pc = "flight"
         /\ taken' = IF unrecorded THEN {} ELSE taken \cup {Carried(p)}
         /\ job'[p] \in JobType /\ job'[p].pc = "save"
         /\ job'[p].snap = Record(job[p].snap, job[p].key)
<1>1. /\ UNCHANGED <<now, lock, store, unrecorded>> /\ job[p].pc = "flight"
      /\ taken' = IF unrecorded THEN {} ELSE taken \cup {Carried(p)}
  BY DEF Accepted, At
<1>2. job[p] \in JobType
  BY DEF GateType
<1>3. Record(job[p].snap, job[p].key) \in StateType
  BY <1>2, RecordedState DEF JobType
<1>4. PICK s \in StateType : s = Record(job[p].snap, job[p].key)
  BY <1>3
<1>5. job' = [job EXCEPT ![p] = [job[p] EXCEPT !.pc = "save", !.snap = s]]
  BY <1>4 DEF Accepted
<1>6. /\ [job[p] EXCEPT !.pc = "save", !.snap = s] \in JobType
      /\ [job[p] EXCEPT !.pc = "save", !.snap = s].pc = "save"
      /\ [job[p] EXCEPT !.pc = "save", !.snap = s].snap = s
  BY <1>2 DEF JobType, Section
<1>7. job'[p] = [job[p] EXCEPT !.pc = "save", !.snap = s]
  BY <1>5 DEF GateType
<1> QED
  BY <1>1, <1>4, <1>6, <1>7, Zenon

\* A retryable answer puts the call to sleep again.
LEMMA RetryEffect ==
  ASSUME GateType, NEW p \in Writer, Retryable(p)
  PROVE  /\ UNCHANGED <<now, lock, store>> /\ job[p].pc = "flight" /\ Unknown
         /\ job'[p] \in JobType /\ job'[p].pc = "sleep" /\ job'[p].key = job[p].key
         /\ job'[p].snap = job[p].snap /\ job'[p].wake >= now
<1>1. UNCHANGED <<now, lock, store>> /\ job[p].pc = "flight" /\ Unknown
  BY DEF Retryable, At
<1>2. job[p] \in JobType /\ now \in Nat
  BY DEF GateType
<1>3. PICK d \in Backoff : job' = [job EXCEPT ![p].pc = "sleep", ![p].wake = now + d]
  BY DEF Retryable
<1>4. PICK w \in Int : w = now + d /\ w >= now
  BY <1>2, Limits
<1>5. job' = [job EXCEPT ![p] = [job[p] EXCEPT !.pc = "sleep", !.wake = w]]
  BY <1>3, <1>4
<1>6. /\ [job[p] EXCEPT !.pc = "sleep", !.wake = w] \in JobType
      /\ [job[p] EXCEPT !.pc = "sleep", !.wake = w].pc = "sleep"
      /\ [job[p] EXCEPT !.pc = "sleep", !.wake = w].key = job[p].key
      /\ [job[p] EXCEPT !.pc = "sleep", !.wake = w].snap = job[p].snap
      /\ [job[p] EXCEPT !.pc = "sleep", !.wake = w].wake = w
  BY <1>2 DEF JobType, Section
<1>7. job'[p] = [job[p] EXCEPT !.pc = "sleep", !.wake = w]
  BY <1>5 DEF GateType
<1> QED
  BY <1>1, <1>4, <1>6, <1>7

\* The snapshot replaces the state file.
LEMMA SaveEffect ==
  ASSUME GateType, NEW p \in Writer, Save(p)
  PROVE  /\ UNCHANGED <<now, lock, taken, unrecorded>> /\ job[p].pc = "save"
         /\ store' = job[p].snap
         /\ job'[p] \in JobType /\ job'[p].pc = "unlock" /\ job'[p].snap = job[p].snap
<1>1. /\ UNCHANGED <<now, lock, taken, unrecorded>> /\ job[p].pc = "save" /\ store' = job[p].snap
  BY DEF Save, At
<1>2. job' = [job EXCEPT ![p] = [job[p] EXCEPT !.pc = "unlock"]]
  BY DEF Save, Goto
<1>3. /\ [job[p] EXCEPT !.pc = "unlock"] \in JobType /\ [job[p] EXCEPT !.pc = "unlock"].pc = "unlock"
      /\ [job[p] EXCEPT !.pc = "unlock"].snap = job[p].snap
  BY DEF JobType, Section, GateType
<1> QED
  BY <1>1, <1>2, <1>3 DEF GateType

\* The calls after a step.
LEMMA JobsTyped ==
  ASSUME GateType, PastInv, NEW p \in Writer, Step(p)
  PROVE  job' \in [Writer -> JobType]
<1>1. CASE \/ \E k \in Key \cup {NoKey} : Call(p, k)
           \/ Mkdir(p) \/ Stat(p) \/ Rm(p) \/ Pause(p) \/ Unlock(p) \/ Failed(p) \/ Crash(p)
  BY <1>1, OutsideEffect
<1>2. CASE Load(p) \/ Send(p) \/ Accepted(p) \/ Retryable(p) \/ Save(p)
  <2>1. job'[p] \in JobType
    <3>1. CASE Load(p)
      <4>1. job'[p].pc = "unlock" => job'[p] \in JobType
        <5>1. "sleep" # "unlock"
          OBVIOUS
        <5>2. CASE Suppressed(Loaded, job[p].key)
          BY <3>1, <5>2, LoadEffect, Zenon
        <5>3. CASE ~Suppressed(Loaded, job[p].key)
          <6>1. job' = [job EXCEPT ![p].pc = "sleep", ![p].snap = Loaded, ![p].wake = FirstSend(Loaded)]
            BY <3>1, <5>3 DEF Load, Loaded
          <6>2. job'[p].pc = "sleep"
            BY <6>1 DEF GateType
          <6> QED
            BY <5>1, <6>2
        <5> QED
          BY <5>2, <5>3
      <4> QED
        BY <3>1, <4>1, SleepFields
    <3>2. CASE Send(p) \/ Accepted(p) \/ Retryable(p) \/ Save(p)
      BY <3>2, SendEffect, AcceptedEffect, RetryEffect, SaveEffect
    <3> QED
      BY <1>2, <3>1, <3>2
  <2>2. job' = [q \in Writer |-> job'[q]]
    BY <1>2 DEF GateType, Load, Send, Accepted, Retryable, Save, Goto
  <2>3. \A q \in Writer \ {p} : job'[q] = job[q] /\ job[q] \in JobType
    BY OthersKept DEF GateType
  <2>4. \A q \in Writer : job'[q] \in JobType
    BY <2>1, <2>3
  <2> QED
    BY <2>2, <2>4
<1> QED
  BY <1>1, <1>2 DEF Step

\* The lock and the history after a step.
LEMMA LedgerTyped ==
  ASSUME GateType, NEW p \in Writer, Step(p)
  PROVE  /\ now' = now /\ lock' \in LockType \cup {None}
         /\ taken' \subseteq WriteType /\ unrecorded' \in BOOLEAN
<1>1. now' = now
  BY DEF Step, Call, Mkdir, Stat, Rm, Pause, Unlock, Load, Send, Accepted, Failed, Retryable, Save, Crash
<1>2. lock' \in LockType \cup {None}
  <2>1. CASE Mkdir(p)
    BY <2>1 DEF Mkdir, GateType, LockType
  <2>2. CASE ~Mkdir(p)
    BY <2>2 DEF GateType, Step, Call, Stat, Rm, Pause, Unlock, Load, Send, Accepted, Failed, Retryable,
       Save, Crash
  <2> QED
    BY <2>1, <2>2
<1>3. Carried(p) \in WriteType
  BY DEF Carried, WriteType, GateType, JobType
<1>4. taken' = {} \/ taken' = taken \/ taken' = taken \cup {Carried(p)}
  BY DEF Step, Call, Mkdir, Stat, Rm, Pause, Unlock, Load, Send, Accepted, Failed, Retryable, Save, Crash,
     Unknown, Unrecorded
<1>5. unrecorded' = TRUE \/ unrecorded' = unrecorded
  BY DEF Step, Call, Mkdir, Stat, Rm, Pause, Unlock, Load, Send, Accepted, Failed, Retryable, Save, Crash,
     Unknown, Unrecorded
<1> QED
  BY <1>1, <1>2, <1>3, <1>4, <1>5 DEF GateType

\* What a step observes of the lock.
LEMMA ObserveStep == ASSUME GateNext PROVE Observe
BY DEF GateNext, Step, Call, Mkdir, Stat, Rm, Pause, Unlock, Load, Send, Accepted, Failed, Retryable,
   Save, Crash, Tick

\* A state past remains so.
LEMMA StaysPast ==
  ASSUME GateType, NEW s \in StateType, Past(s), NEW t \in Nat, now <= t
  PROVE  s.last <= t /\ (\A k \in Key : s.keys[k] <= t) /\ IsFiniteSet(s.writes)
BY DEF Past, StateType, GateType

\* Types and times are kept.
LEMMA TypeStep ==
  ASSUME GateType, PastInv, [GateNext]_gateVars
  PROVE  GateType'
<1>1. CASE UNCHANGED gateVars
  BY <1>1 DEF GateType, gateVars
<1>2. CASE GateNext
  <2>1. overstayed' \in BOOLEAN /\ raced' \in BOOLEAN
    BY <1>2, ObserveStep, Zenon DEF Observe
  <2>2. CASE Tick
    BY <2>1, <2>2 DEF GateType, Tick
  <2>3. CASE \E p \in Writer : Step(p)
    <3>1. PICK p \in Writer : Step(p)
      BY <2>3
    <3>2. store' \in StateType
      BY <3>1 DEF GateType, JobType, Step, Call, Mkdir, Stat, Rm, Pause, Unlock, Load, Send, Accepted,
         Failed, Retryable, Save, Crash
    <3> QED
      BY <2>1, <3>1, <3>2, JobsTyped, LedgerTyped DEF GateType
  <2> QED
    BY <1>2, <2>2, <2>3 DEF GateNext
<1> QED
  BY <1>1, <1>2

\* The snapshots a step of p may lead to.
LEMMA SnapAfter ==
  ASSUME GateType, PastInv, NEW p \in Writer, Step(p)
  PROVE  /\ job'[p].snap \in {job[p].snap, Fresh, Loaded, Record(job[p].snap, job[p].key)}
         /\ store' \in {store, job[p].snap}
<1>1. CASE \/ \E k \in Key \cup {NoKey} : Call(p, k)
           \/ Mkdir(p) \/ Stat(p) \/ Rm(p) \/ Pause(p) \/ Unlock(p) \/ Failed(p) \/ Crash(p)
  BY <1>1, OutsideEffect
<1>2. CASE Load(p)
  <2>1. CASE Suppressed(Loaded, job[p].key)
    <3>1. job'[p].snap = job[p].snap
      <4>1. job' = [job EXCEPT ![p] = [job[p] EXCEPT !.pc = "unlock"]]
        BY <1>2, <2>1 DEF Load, Loaded, Goto
      <4>2. [job[p] EXCEPT !.pc = "unlock"].snap = job[p].snap
        BY DEF GateType, JobType
      <4> QED
        BY <4>1, <4>2 DEF GateType
    <3> QED
      BY <1>2, <3>1 DEF Load
  <2>2. CASE ~Suppressed(Loaded, job[p].key)
    <3>1. job' = [job EXCEPT ![p].pc = "sleep", ![p].snap = Loaded, ![p].wake = FirstSend(Loaded)]
      BY <1>2, <2>2 DEF Load, Loaded
    <3>2. job'[p].snap = Loaded
      BY <3>1 DEF GateType, JobType
    <3> QED
      BY <1>2, <3>2 DEF Load
  <2> QED
    BY <2>1, <2>2
<1>3. CASE Send(p) \/ Retryable(p) \/ Save(p)
  BY <1>3, SendEffect, RetryEffect, SaveEffect
<1>4. CASE Accepted(p)
  BY <1>4, AcceptedEffect
<1> QED
  BY <1>1, <1>2, <1>3, <1>4 DEF Step

\* No step puts a state into the future.
LEMMA PastStep ==
  ASSUME GateType, PastInv, [GateNext]_gateVars
  PROVE  PastInv'
<1>1. CASE UNCHANGED gateVars
  BY <1>1 DEF PastInv, Past, gateVars
<1>2. CASE Tick
  <2>1. now \in Nat /\ now' \in Nat /\ now <= now' /\ store' = store /\ job' = job
    BY <1>2 DEF Tick, GateType
  <2>2. store \in StateType /\ \A p \in Writer : job[p].snap \in StateType
    BY DEF GateType, JobType
  <2>3. \A s \in StateType : Past(s) => s.last <= now' /\ (\A k \in Key : s.keys[k] <= now') /\ IsFiniteSet(s.writes)
    BY <2>1, StaysPast
  <2>4. Past(store)'
    BY <2>1, <2>2, <2>3 DEF PastInv, Past
  <2>5. ASSUME NEW p \in Writer PROVE Past(job[p].snap)'
    BY <2>1, <2>2, <2>3 DEF PastInv, Past
  <2> QED
    BY <2>4, <2>5 DEF PastInv
<1>3. CASE \E p \in Writer : Step(p)
  <2>1. PICK p \in Writer : Step(p)
    BY <1>3
  <2>2. now' = now /\ now \in Nat
    BY <2>1, LedgerTyped DEF GateType
  <2>3. Past(Fresh)
    BY <2>2, Limits, FS_EmptySet DEF Past, Fresh
  <2>4. Past(store) /\ Past(job[p].snap) /\ job[p].snap \in StateType /\ job[p].key \in Key \cup {NoKey}
    BY DEF PastInv, GateType, JobType
  <2>5. Past(Loaded)
    <3>1. Recent(store.writes, now) \subseteq store.writes
      BY DEF Recent
    <3> QED
      BY <2>4, <3>1, LoadedState, FS_Subset DEF Past
  <2>6. Past(Record(job[p].snap, job[p].key))
    <3>1. PICK s \in StateType, k \in Key \cup {NoKey} : s = job[p].snap /\ k = job[p].key
      BY <2>4
    <3>2. IsFiniteSet(s.writes \cup {now})
      BY <2>4, <3>1, FS_AddElement DEF Past
    <3>3. /\ Record(s, k).last = now /\ Record(s, k).writes = s.writes \cup {now}
          /\ \A j \in Key : Record(s, k).keys[j] <= now
      BY <2>2, <2>4, <3>1, RecordedState DEF Past
    <3>4. Past(Record(s, k))
      BY <2>2, <3>2, <3>3 DEF Past
    <3> QED
      BY <3>1, <3>4
  <2>7. Past(store')
    BY <2>1, <2>4, SnapAfter
  <2>8. Past(job'[p].snap)
    BY <2>1, <2>3, <2>4, <2>5, <2>6, SnapAfter
  <2>9. Past(store)'
    BY <2>2, <2>7 DEF Past
  <2>10. ASSUME NEW q \in Writer PROVE Past(job[q].snap)'
    <3>1. CASE q = p
      BY <2>2, <2>8, <3>1 DEF Past
    <3>2. CASE q # p
      <4>1. Past(job[q].snap) /\ job'[q] = job[q]
        BY <2>1, <3>2, OthersKept DEF PastInv
      <4> QED
        BY <2>2, <4>1 DEF Past
    <3> QED
      BY <3>1, <3>2
  <2> QED
    BY <2>9, <2>10 DEF PastInv
<1> QED
  BY <1>1, <1>2, <1>3 DEF GateNext

-----------------------------------------------------------------------------
(* The lock.                                                               *)

\* A writer comes to the section by its own mkdir only, and to an rm by a
\* stat that found the lock abandoned.
LEMMA PcAfter ==
  ASSUME GateType, PastInv, NEW p \in Writer, Step(p)
  PROVE  /\ job'[p].pc \in Section => job[p].pc \in Section \/ (Mkdir(p) /\ lock = None)
         /\ job'[p].pc = "rm" => Abandoned
<1>1. CASE \/ \E k \in Key \cup {NoKey} : Call(p, k)
           \/ Mkdir(p) \/ Stat(p) \/ Rm(p) \/ Pause(p) \/ Unlock(p) \/ Failed(p) \/ Crash(p)
  <2>1. /\ job'[p].pc \in {"idle", "mkdir", "stat", "rm", "pause", "load", "unlock"}
        /\ job'[p].pc = "load" => lock = None /\ Mkdir(p)
        /\ job'[p].pc = "unlock" => job[p].pc = "flight"
        /\ job'[p].pc = "rm" => Abandoned
    BY <1>1, OutsideEffect
  <2> QED
    BY <2>1 DEF Section
<1>2. CASE Load(p)
  <2>1. job[p].pc = "load" /\ job'[p].pc # "rm"
    BY <1>2, SleepFields DEF Load, At
  <2> QED
    BY <2>1 DEF Section
<1>3. CASE Send(p) \/ Accepted(p) \/ Retryable(p) \/ Save(p)
  <2>1. job[p].pc \in {"sleep", "flight", "save"} /\ job'[p].pc # "rm"
    BY <1>3, SendEffect, AcceptedEffect, RetryEffect, SaveEffect
  <2> QED
    BY <2>1 DEF Section
<1> QED
  BY <1>1, <1>2, <1>3 DEF Step

\* The steps that change the lock.
LEMMA LockAfter ==
  ASSUME GateType, NEW p \in Writer, Step(p)
  PROVE  \/ lock' = lock /\ ~(Mkdir(p) /\ lock = None)
         \/ Mkdir(p) /\ lock = None /\ lock' # None /\ lock'.by = p
         \/ Rm(p) /\ lock' = None /\ job[p].pc = "rm" /\ job'[p].pc = "pause"
         \/ Unlock(p) /\ lock' = None /\ job[p].pc = "unlock" /\ job'[p].pc = "idle"
<1>1. CASE Mkdir(p)
  <2>1. CASE lock = None
    <3>1. lock' = [by |-> p, at |-> now]
      BY <1>1, <2>1 DEF Mkdir
    <3>2. lock' \in LockType
      BY <3>1 DEF LockType, GateType
    <3> QED
      BY <1>1, <2>1, <3>1, <3>2, Limits
  <2>2. CASE lock # None
    BY <1>1, <2>2 DEF Mkdir
  <2> QED
    BY <2>1, <2>2
<1>2. CASE Rm(p)
  <2>1. job' = [job EXCEPT ![p] = [job[p] EXCEPT !.pc = "pause", !.wake = now + 1]]
    BY <1>2 DEF Rm
  <2>2. [job[p] EXCEPT !.pc = "pause", !.wake = now + 1].pc = "pause"
    BY DEF GateType, JobType
  <2>3. job'[p] = [job[p] EXCEPT !.pc = "pause", !.wake = now + 1]
    BY <2>1, Zenon DEF GateType
  <2>4. job'[p].pc = "pause"
    BY <2>2, <2>3, Zenon
  <2> QED
    BY <1>2, <2>4 DEF Rm, At
<1>3. CASE Unlock(p)
  <2>1. job'[p] = NoJob
    BY <1>3 DEF Unlock, Quit, GateType
  <2> QED
    BY <1>3, <2>1 DEF Unlock, At, NoJob
<1>4. CASE ~(Mkdir(p) \/ Rm(p) \/ Unlock(p))
  <2>1. lock' = lock
    BY <1>4 DEF Step, Call, Stat, Pause, Load, Send, Accepted, Failed, Retryable, Save, Crash
  <2> QED
    BY <1>4, <2>1
<1> QED
  BY <1>1, <1>2, <1>3, <1>4

\* An orderly history had an orderly beginning.
LEMMA OrderlyBefore ==
  ASSUME GateType, [GateNext]_gateVars
  PROVE  Orderly' => Orderly
<1>1. CASE GateNext
  <2>1. Observe
    BY <1>1, ObserveStep
  <2> QED
    BY <2>1, Zenon DEF Observe, Orderly
<1>2. CASE UNCHANGED gateVars
  BY <1>2 DEF gateVars, Orderly
<1> QED
  BY <1>1, <1>2

\* Every step keeps the lock's invariant.
LEMMA LockStep ==
  ASSUME GateType, GateType', PastInv, LockInv, [GateNext]_gateVars
  PROVE  LockInv'
<1>1. CASE UNCHANGED gateVars
  BY <1>1 DEF LockInv, SoleWriter, Orderly, At, gateVars
<1>2. CASE GateNext
  <2>0. /\ now \in Nat /\ now' \in Nat /\ StaleAfter \in Nat /\ now <= now'
        /\ lock # None => lock \in LockType /\ lock.at \in Nat
        /\ lock' # None => lock' \in LockType /\ lock'.by \in Writer /\ lock'.at \in Nat
    <3>1. now \in Nat /\ (now' = now \/ now' = now + 1)
      BY <1>2, LedgerTyped DEF GateNext, Tick, GateType
    <3> QED
      BY <3>1, Limits DEF GateType, LockType
  <2>1. /\ ~overstayed' /\ lock' # None =>
             job'[lock'.by].pc \notin Section \/ ~(now' - lock'.at > StaleAfter)
        /\ ~raced' => ~raced /\ (lock' = lock \/ lock' = None \/ \A p \in Writer : ~At(p, "rm"))
    <3>1. Observe
      BY <1>2, ObserveStep
    <3> QED
      BY <3>1, Zenon DEF Observe
  <2>2. ~overstayed' /\ lock' # None => job'[lock'.by].pc \notin Section \/ now' - lock'.at <= StaleAfter
    BY <2>0, <2>1
  <2>3. ASSUME ~raced', NEW p \in Writer, job'[p].pc = "rm"
        PROVE  lock' = None \/ now' - lock'.at > StaleAfter
    <3>1. CASE job[p].pc = "rm"
      <4>1. lock' = lock \/ lock' = None
        BY <2>1, <2>3, <3>1 DEF At
      <4>2. lock = None \/ now - lock.at > StaleAfter
        BY <2>1, <2>3, <3>1 DEF LockInv, At
      <4> QED
        BY <2>0, <4>1, <4>2
    <3>2. CASE job[p].pc # "rm"
      <4>1. PICK q \in Writer : Step(q)
        BY <1>2, <2>3, <3>2 DEF GateNext, Tick
      <4>2. q = p
        BY <2>3, <3>2, <4>1, OthersKept
      <4>3. Abandoned
        BY <2>3, <4>1, <4>2, PcAfter
      <4>4. lock' = lock
        BY <4>1, <4>2, <4>3, LockAfter, <2>3, <3>2 DEF Abandoned
      <4> QED
        BY <2>0, <4>3, <4>4 DEF Abandoned
    <3> QED
      BY <3>1, <3>2
  <2>4. ASSUME Orderly', NEW p \in Writer, job'[p].pc \in Section
        PROVE  lock' # None /\ lock'.by = p
    <3>1. Orderly
      BY <2>4, OrderlyBefore, <1>2
    <3>2. CASE Tick
      BY <2>4, <3>1, <3>2 DEF Tick, LockInv, SoleWriter
    <3>3. CASE \E q \in Writer : Step(q)
      <4>1. PICK q \in Writer : Step(q)
        BY <3>3
      <4>2. job[p].pc \in Section \/ (p = q /\ Mkdir(q) /\ lock = None)
        BY <2>4, <4>1, OthersKept, PcAfter
      <4>3. job[p].pc \in Section => lock # None /\ lock.by = p
        BY <3>1 DEF LockInv, SoleWriter
      <4>4. CASE lock' = lock /\ ~(Mkdir(q) /\ lock = None)
        BY <4>2, <4>3, <4>4
      <4>5. CASE Mkdir(q) /\ lock = None /\ lock' # None /\ lock'.by = q
        BY <4>2, <4>3, <4>5
      <4>6. CASE Rm(q) /\ lock' = None /\ job[q].pc = "rm" /\ job'[q].pc = "pause"
        <5>1. p # q
          BY <2>4, <4>6 DEF Section
        <5>2. job[p].pc \in Section /\ lock # None /\ lock.by = p
          BY <4>2, <4>3, <5>1
        <5>3. now - lock.at > StaleAfter
          BY <3>1, <4>6, <5>2 DEF LockInv, Orderly, At
        <5>4. now - lock.at <= StaleAfter
          BY <3>1, <5>2 DEF LockInv, Orderly
        <5> QED
          BY <2>0, <5>2, <5>3, <5>4
      <4>7. CASE Unlock(q) /\ lock' = None /\ job[q].pc = "unlock" /\ job'[q].pc = "idle"
        <5>1. p # q /\ job[q].pc \in Section
          BY <2>4, <4>7 DEF Section
        <5>2. lock.by = q
          BY <3>1, <5>1 DEF LockInv, SoleWriter
        <5> QED
          BY <4>2, <4>3, <5>1, <5>2
      <4> QED
        BY <4>1, <4>4, <4>5, <4>6, <4>7, LockAfter
    <3> QED
      BY <1>2, <3>2, <3>3 DEF GateNext
  <2>5. SoleWriter'
    BY <2>4 DEF SoleWriter
  <2>6. (~raced => \A p \in Writer : At(p, "rm") => lock = None \/ now - lock.at > StaleAfter)'
    BY <2>3 DEF At
  <2>7. (~overstayed /\ lock # None => job[lock.by].pc \notin Section \/ now - lock.at <= StaleAfter)'
    BY <2>2
  <2> QED
    BY <2>5, <2>6, <2>7 DEF LockInv
<1> QED
  BY <1>1, <1>2

-----------------------------------------------------------------------------
(* The calls under the lock.                                               *)

\* At most one writer is in the section.
LEMMA Alone ==
  ASSUME LockInv, Orderly, NEW p \in Writer, NEW q \in Writer,
         job[p].pc \in Section, job[q].pc \in Section
  PROVE  p = q
BY DEF LockInv, SoleWriter

\* A writer outside the section disturbs none within.
LEMMA QuietOutside ==
  ASSUME GateType, NEW p \in Writer, Step(p), job[p].pc \notin Section
  PROVE  UNCHANGED <<now, store, taken, unrecorded>>
<1>1. ~(Unlock(p) \/ Load(p) \/ Send(p) \/ Accepted(p) \/ Failed(p) \/ Retryable(p) \/ Save(p))
  BY DEF Unlock, Load, Send, Accepted, Failed, Retryable, Save, At, Section
<1>2. ~At(p, "flight") /\ ~At(p, "save")
  BY DEF At, Section
<1>3. CASE Crash(p)
  BY <1>2, <1>3, Zenon DEF Crash
<1>4. CASE ~Crash(p)
  BY <1>1, <1>4 DEF Step, Call, Mkdir, Stat, Rm, Pause
<1> QED
  BY <1>3, <1>4

\* A call that sleeps on or waits on stays as it must be.
LEMMA CallGoesOn ==
  ASSUME GateType, GateType', PastInv, NEW q \in Writer, CallInv(q),
         job[q].pc \in {"sleep", "flight"}, job'[q].pc \in {"sleep", "flight"},
         job'[q].snap = job[q].snap, job'[q].key = job[q].key, store' = store, now <= now',
         job[q].wake <= job'[q].wake, Sent(q) <= Sent(q)', Sent(q)' <= now',
         \/ taken' = taken /\ unrecorded' = unrecorded
         \/ unrecorded' = TRUE
  PROVE  CallInv(q)'
<1>1. /\ job[q] \in JobType /\ job'[q] \in JobType /\ now \in Nat /\ now' \in Nat
      /\ store \in StateType /\ job[q].snap \in StateType /\ taken \subseteq WriteType
      /\ \A a \in taken : a.to \in Nat
      /\ job[q].wake \in Int /\ job'[q].wake \in Int /\ Sent(q) \in Int /\ Sent(q)' \in Int
      /\ job[q].snap.writes \in SUBSET Nat /\ IsFiniteSet(job[q].snap.writes)
  BY DEF GateType, JobType, WriteType, PastInv, Past, Sent, StateType
<1>2. /\ job'[q].snap.last >= store'.last
      /\ \A k \in Key : job'[q].snap.keys[k] >= store'.keys[k]
  BY DEF CallInv
<1>3. job'[q].wake >= store'.last + Gap
  BY <1>1, Limits DEF CallInv, StateType
<1>4. job'[q].key \in Key => Sent(q)' - store'.keys[job'[q].key] >= DedupeFor
  BY <1>1, Limits DEF CallInv, StateType
<1>5. Cardinality(Recent(job'[q].snap.writes, job'[q].wake)) < Ceiling
  <2>1. PICK W \in SUBSET Nat : W = job[q].snap.writes
    BY <1>1
  <2>2. PICK t \in Int, u \in Int : t = job[q].wake /\ u = job'[q].wake
    BY <1>1
  <2>3. Cardinality(Recent(W, t)) < Ceiling
    BY <2>1, <2>2 DEF CallInv
  <2>4. /\ Cardinality(Recent(W, u)) <= Cardinality(Recent(W, t))
        /\ Cardinality(Recent(W, u)) \in Nat /\ Cardinality(Recent(W, t)) \in Nat
    BY <1>1, <2>1, <2>2, RecentShrinks
  <2>5. Cardinality(Recent(W, u)) < Ceiling
    BY <2>3, <2>4, Limits
  <2> QED
    BY <2>1, <2>2, <2>5
<1>6. ~unrecorded' => \A a \in taken' : a.to \in job'[q].snap.writes \/ Sent(q)' - a.to >= Window
  BY <1>1, Limits DEF CallInv
<1> QED
  BY <1>2, <1>3, <1>4, <1>5, <1>6 DEF CallInv

\* A call begins with all that is known, and not too soon.
LEMMA CallBegins ==
  ASSUME GateType, GateType', PastInv, LockInv, CallsInv, TakenInv, Orderly,
         NEW p \in Writer, Load(p), job'[p].pc # "unlock"
  PROVE  CallInv(p)'
<1>1. /\ job[p] \in JobType /\ now \in Nat /\ store \in StateType /\ store.writes \in SUBSET Nat
      /\ \A a \in taken : a.to \in Nat
      /\ IsFiniteSet(store.writes)
  BY DEF GateType, JobType, WriteType, PastInv, Past, StateType
<1>2. /\ job'[p].pc = "sleep" /\ job'[p].key = job[p].key /\ job'[p].snap = Loaded
      /\ job'[p].wake = FirstSend(Loaded) /\ ~Suppressed(Loaded, job[p].key)
  BY SleepFields
<1>3. UNCHANGED <<now, store, taken, unrecorded>> /\ job[p].pc = "load"
  BY DEF Load, At
<1>4. /\ Loaded \in StateType /\ Loaded.last = store.last /\ Loaded.keys = store.keys
      /\ Loaded.writes = Recent(store.writes, now)
  BY LoadedState
<1>5. PICK s \in StateType : s = Loaded
  BY <1>4
<1>6. /\ IsFiniteSet(s.writes) /\ s.writes = Recent(s.writes, now)
      /\ Cardinality(s.writes) <= Ceiling
  <2>1. Recent(store.writes, now) \subseteq store.writes
    BY DEF Recent
  <2>2. Cardinality(Recent(store.writes, now)) <= Ceiling
    BY DEF CallsInv
  <2> QED
    BY <1>1, <1>4, <1>5, <2>1, <2>2, FS_Subset DEF Recent
<1>7. FirstSend(s) >= s.last + Gap /\ Cardinality(Recent(s.writes, FirstSend(s))) < Ceiling
  BY <1>6, FirstSendAllows
<1>8. /\ job'[p].snap.last >= store'.last
      /\ \A k \in Key : job'[p].snap.keys[k] >= store'.keys[k]
  BY <1>1, <1>2, <1>3, <1>4 DEF StateType
<1>9. Sent(p)' = now /\ now' = now
  BY <1>2, <1>3 DEF Sent, At
<1>10. job'[p].key \in Key => now - store'.keys[job'[p].key] >= DedupeFor
  BY <1>1, <1>2, <1>3, <1>4, Limits DEF Suppressed, StateType
<1>11. ~unrecorded' => \A a \in taken' : a.to \in job'[p].snap.writes \/ now - a.to >= Window
  <2>1. \A q \in Writer : ~At(q, "save")
    BY <1>3, Alone DEF At, Section
  <2>2. ~unrecorded => \A a \in taken : a.to \in store.writes \/ now - a.to >= Window
    BY <2>1 DEF TakenInv, Knows
  <2> QED
    BY <1>1, <1>2, <1>3, <1>4, <2>2, Limits DEF Recent
<1>12. /\ job'[p].wake >= store'.last + Gap
       /\ Cardinality(Recent(job'[p].snap.writes, job'[p].wake)) < Ceiling
  BY <1>2, <1>3, <1>4, <1>5, <1>7
<1>13. Sent(p)' <= now'
  BY <1>1, <1>9
<1> QED
  BY <1>2, <1>8, <1>9, <1>10, <1>11, <1>12, <1>13 DEF CallInv

\* A successful answer leads to a state that knows every write, its own too.
LEMMA CallAnswered ==
  ASSUME GateType, GateType', PastInv, LockInv, CallsInv, TakenInv, Orderly,
         NEW p \in Writer, Accepted(p)
  PROVE  CallInv(p)'
<1>1. /\ job[p] \in JobType /\ now \in Nat /\ store \in StateType /\ store.last \in Int
      /\ store.last <= now /\ (\A k \in Key : store.keys[k] <= now /\ store.keys[k] \in Int)
      /\ \A a \in taken : a.to \in Nat /\ a.key \in Key \cup {NoKey}
  BY DEF GateType, JobType, WriteType, PastInv, Past, StateType
<1>2. /\ UNCHANGED <<now, lock, store, unrecorded>> /\ job[p].pc = "flight"
      /\ taken' = IF unrecorded THEN {} ELSE taken \cup {Carried(p)}
      /\ job'[p].pc = "save" /\ job'[p].snap = Record(job[p].snap, job[p].key)
  BY AcceptedEffect
<1>3. PICK s \in StateType, k \in Key \cup {NoKey}, w \in Int :
        s = job[p].snap /\ k = job[p].key /\ w = job[p].wake
  BY <1>1 DEF JobType
<1>4. PICK r \in StateType : r = Record(s, k)
  BY RecordedState
<1>5. /\ r.last = now /\ r.writes = s.writes \cup {now}
      /\ \A j \in Key : r.keys[j] = IF j = k THEN now ELSE s.keys[j]
  BY <1>4, RecordedState
<1>6. CallInv(p) /\ Sent(p) = w
  BY <1>2, <1>3 DEF CallsInv, Sent, At
<1>7. /\ w <= now
      /\ \A j \in Key : s.keys[j] >= store.keys[j]
      /\ Cardinality(Recent(s.writes, w)) < Ceiling
      /\ ~unrecorded => \A a \in taken : a.to \in s.writes \/ w - a.to >= Window
  BY <1>2, <1>3, <1>6 DEF CallInv
<1>8. /\ IsFiniteSet(s.writes) /\ s.writes \in SUBSET Nat /\ \A j \in Key : s.keys[j] \in Int
      /\ \A j \in Key : s.keys[j] <= now
  BY <1>3 DEF PastInv, Past, StateType
<1>9. r.last >= store.last /\ \A j \in Key : r.keys[j] >= store.keys[j]
  BY <1>1, <1>5, <1>7
<1>10. Cardinality(Recent(r.writes, now)) <= Ceiling
  <2>1. Recent(r.writes, now) \subseteq Recent(s.writes, now) \cup {now}
    BY <1>5 DEF Recent
  <2>2. PICK R \in SUBSET Nat : R = Recent(s.writes, now)
    BY <1>8 DEF Recent
  <2>3. /\ IsFiniteSet(R) /\ Cardinality(R) \in Nat
        /\ Cardinality(R) <= Cardinality(Recent(s.writes, w)) /\ Cardinality(Recent(s.writes, w)) \in Nat
    <3>1. now \in Int /\ IsFiniteSet(Recent(s.writes, now)) /\ Cardinality(Recent(s.writes, now)) \in Nat
          /\ Cardinality(Recent(s.writes, now)) <= Cardinality(Recent(s.writes, w))
          /\ Cardinality(Recent(s.writes, w)) \in Nat
      BY <1>1, <1>7, <1>8, RecentShrinks
    <3> QED
      BY <2>2, <3>1
  <2>4. IsFiniteSet(R \cup {now}) /\ Cardinality(R \cup {now}) <= Cardinality(R) + 1
    <3>1. /\ IsFiniteSet(R \cup {now})
          /\ Cardinality(R \cup {now}) = IF now \in R THEN Cardinality(R) ELSE Cardinality(R) + 1
      BY <2>3, FS_AddElement, Zenon
    <3> QED
      BY <2>3, <3>1
  <2>5. /\ Cardinality(Recent(r.writes, now)) <= Cardinality(R \cup {now})
        /\ Cardinality(Recent(r.writes, now)) \in Nat /\ Cardinality(R \cup {now}) \in Nat
    BY <2>1, <2>2, <2>4, FS_Subset, FS_CardinalityType
  <2> QED
    BY <1>7, <2>3, <2>4, <2>5, Limits
<1>11. ASSUME ~unrecorded, NEW a \in taken'
       PROVE  /\ r.last >= a.to
              /\ a.key \in Key => r.keys[a.key] >= a.to
              /\ a.to \in r.writes \/ now - a.to >= Window
  <2>1. CASE a = Carried(p)
    <3>1. a.to = now /\ a.key = k
      BY <1>3, <2>1 DEF Carried
    <3> QED
      BY <1>1, <1>5, <3>1
  <2>2. CASE a \in taken
    <3>1. \A q \in Writer : ~At(q, "save")
      BY <1>2, Alone DEF At, Section
    <3>2. /\ store.last >= a.to /\ a.to \in Nat
          /\ a.key \in Key => store.keys[a.key] >= a.to
      BY <1>1, <1>11, <2>2, <3>1 DEF TakenInv, Knows
    <3>3. r.last >= a.to
      BY <1>1, <1>5, <3>2
    <3>4. a.key \in Key => r.keys[a.key] >= a.to
      BY <1>1, <1>5, <1>7, <1>8, <3>2
    <3>5. a.to \in r.writes \/ now - a.to >= Window
      BY <1>1, <1>5, <1>7, <1>11, <2>2, <3>2, Limits
    <3> QED
      BY <3>3, <3>4, <3>5
  <2> QED
    BY <1>2, <1>11, <2>1, <2>2
<1>12. job'[p].snap = r /\ now' = now /\ store' = store /\ unrecorded' = unrecorded
  BY <1>2, <1>3, <1>4
<1>13. /\ job'[p].snap.last >= store'.last
       /\ \A j \in Key : job'[p].snap.keys[j] >= store'.keys[j]
  BY <1>9, <1>12
<1>14. Cardinality(Recent(job'[p].snap.writes, now')) <= Ceiling
  BY <1>10, <1>12
<1>15. ~unrecorded' => \A a \in taken' :
          /\ job'[p].snap.last >= a.to
          /\ a.key \in Key => job'[p].snap.keys[a.key] >= a.to
          /\ a.to \in job'[p].snap.writes \/ now' - a.to >= Window
  BY <1>11, <1>12
<1> QED
  BY <1>2, <1>13, <1>14, <1>15 DEF CallInv, Knows

\* A call that neither sleeps, waits nor saves has nothing to keep.
LEMMA CallOver ==
  ASSUME NEW q \in Writer, job'[q].pc \notin {"sleep", "flight", "save"}
  PROVE  CallInv(q)'
BY DEF CallInv

\* What a call under the lock relies on, after its own step.
LEMMA CallStep ==
  ASSUME GateType, GateType', PastInv, LockInv, CallsInv, TakenInv, Orderly,
         NEW p \in Writer, Step(p)
  PROVE  CallInv(p)'
<1>0. CallInv(p) /\ job[p] \in JobType /\ now \in Nat
  BY DEF CallsInv, GateType
<1>1. CASE \/ \E k \in Key \cup {NoKey} : Call(p, k)
           \/ Mkdir(p) \/ Stat(p) \/ Rm(p) \/ Pause(p) \/ Unlock(p) \/ Failed(p) \/ Crash(p)
  <2>1. job'[p].pc \in {"idle", "mkdir", "stat", "rm", "pause", "load", "unlock"}
    BY <1>1, OutsideEffect
  <2> QED
    BY <2>1, CallOver
<1>2. CASE Load(p)
  BY <1>2, CallBegins, CallOver
<1>3. CASE Send(p)
  <2>1. /\ UNCHANGED <<now, lock, store, taken, unrecorded>>
        /\ job[p].pc = "sleep" /\ now >= job[p].wake
        /\ job'[p].snap = job[p].snap /\ job'[p].key = job[p].key
        /\ job'[p].pc = "unlock" \/ (job'[p].pc = "flight" /\ job'[p].wake = now)
    BY <1>3, SendEffect
  <2>2. CASE job'[p].pc = "unlock"
    BY <2>2, CallOver
  <2>3. CASE job'[p].pc = "flight" /\ job'[p].wake = now
    <3>1. Sent(p) = now /\ Sent(p)' = now
      BY <2>1, <2>3 DEF Sent, At
    <3>2. job[p].wake <= job'[p].wake /\ now <= now' /\ Sent(p) <= Sent(p)' /\ Sent(p)' <= now'
      BY <1>0, <2>1, <2>3, <3>1 DEF JobType
    <3> QED
      BY <1>0, <2>1, <2>3, <3>2, CallGoesOn
  <2> QED
    BY <2>1, <2>2, <2>3
<1>4. CASE Accepted(p)
  BY <1>4, CallAnswered
<1>5. CASE Retryable(p)
  <2>1. /\ UNCHANGED <<now, lock, store>> /\ job[p].pc = "flight" /\ Unknown
        /\ job'[p].pc = "sleep" /\ job'[p].key = job[p].key
        /\ job'[p].snap = job[p].snap /\ job'[p].wake >= now /\ job'[p] \in JobType
    BY <1>5, RetryEffect
  <2>2. Sent(p) = job[p].wake /\ Sent(p)' = now /\ job[p].wake <= now
    BY <1>0, <2>1 DEF Sent, At, CallInv
  <2>3. job[p].wake <= job'[p].wake /\ now <= now' /\ Sent(p) <= Sent(p)' /\ Sent(p)' <= now'
    BY <1>0, <2>1, <2>2 DEF JobType
  <2>4. (taken' = taken /\ unrecorded' = unrecorded) \/ unrecorded' = TRUE
    BY <2>1 DEF Unknown, Unrecorded
  <2> QED
    BY <1>0, <2>1, <2>3, <2>4, CallGoesOn
<1>6. CASE Save(p)
  BY <1>6, SaveEffect, CallOver
<1> QED
  BY <1>1, <1>2, <1>3, <1>4, <1>5, <1>6 DEF Step

\* Another writer's step leaves a call under the lock alone.
LEMMA CallLeftAlone ==
  ASSUME GateType, GateType', LockInv, CallsInv, Orderly,
         NEW p \in Writer, Step(p), NEW q \in Writer, q # p
  PROVE  CallInv(q)'
<1>1. job'[q] = job[q] /\ CallInv(q)
  BY OthersKept DEF CallsInv
<1>2. CASE job[q].pc \notin {"sleep", "flight", "save"}
  BY <1>1, <1>2, CallOver
<1>3. CASE job[q].pc \in {"sleep", "flight", "save"}
  <2>1. job[p].pc \notin Section
    BY <1>3, Alone DEF Section
  <2>2. UNCHANGED <<now, store, taken, unrecorded>>
    BY <2>1, QuietOutside
  <2> QED
    BY <1>1, <2>2 DEF CallInv, Sent, At, Knows
<1> QED
  BY <1>2, <1>3

\* Time passes for a call under the lock.
LEMMA CallWaits ==
  ASSUME GateType, GateType', PastInv, CallsInv, Orderly, Tick, NEW q \in Writer
  PROVE  CallInv(q)'
<1>1. /\ now \in Nat /\ now' = now + 1 /\ job[q] \in JobType
      /\ UNCHANGED <<lock, store, job, taken, unrecorded>>
      /\ CallInv(q) /\ \A a \in taken : a.to \in Nat
  BY DEF Tick, GateType, CallsInv, WriteType
<1>2. CASE job[q].pc \in {"sleep", "flight"}
  <2>1. /\ Sent(q) = IF job[q].pc = "flight" THEN job[q].wake ELSE now
        /\ Sent(q)' = IF job[q].pc = "flight" THEN job[q].wake ELSE now + 1
    BY <1>1 DEF Sent, At
  <2>2. Sent(q) <= now
    BY <1>2, <1>1 DEF CallInv
  <2>3. Sent(q) <= Sent(q)' /\ Sent(q)' <= now' /\ now <= now' /\ job[q].wake <= job'[q].wake
    BY <1>1, <2>1, <2>2 DEF JobType
  <2> QED
    BY <1>1, <1>2, <2>3, CallGoesOn
<1>3. CASE job[q].pc = "save"
  <2>1. PICK W \in SUBSET Nat : W = job[q].snap.writes
    BY <1>1 DEF JobType, StateType
  <2>2. IsFiniteSet(W)
    BY <2>1 DEF PastInv, Past
  <2>3. PICK n \in Int : n = now + 1
    BY <1>1
  <2>4. /\ Cardinality(Recent(W, n)) <= Cardinality(Recent(W, now))
        /\ Cardinality(Recent(W, n)) \in Nat /\ Cardinality(Recent(W, now)) \in Nat
    BY <1>1, <2>2, <2>3, RecentShrinks
  <2>5. Cardinality(Recent(W, now)) <= Ceiling
    BY <1>1, <1>3, <2>1 DEF CallInv
  <2>6. Cardinality(Recent(W, n)) <= Ceiling
    BY <2>4, <2>5, Limits
  <2>7. Cardinality(Recent(job'[q].snap.writes, now')) <= Ceiling
    BY <1>1, <2>1, <2>3, <2>6
  <2>8. ~unrecorded' => \A a \in taken' :
          /\ job'[q].snap.last >= a.to
          /\ a.key \in Key => job'[q].snap.keys[a.key] >= a.to
          /\ a.to \in job'[q].snap.writes \/ now' - a.to >= Window
    BY <1>1, <1>3, Limits DEF CallInv, Knows
  <2>9. /\ job'[q].snap.last >= store'.last
        /\ \A k \in Key : job'[q].snap.keys[k] >= store'.keys[k]
    BY <1>1, <1>3 DEF CallInv
  <2> QED
    BY <1>1, <1>3, <2>7, <2>8, <2>9 DEF CallInv, Knows
<1>4. CASE job[q].pc \notin {"sleep", "flight", "save"}
  BY <1>1, <1>4, CallOver
<1> QED
  BY <1>2, <1>3, <1>4

\* Every step keeps what is said of the calls.
LEMMA CallsStep ==
  ASSUME GateType, GateType', PastInv, LockInv, CallsInv, TakenInv, [GateNext]_gateVars
  PROVE  CallsInv'
<1>1. CASE UNCHANGED gateVars
  BY <1>1 DEF gateVars, CallsInv, CallInv, Orderly, Sent, At, Knows
<1>2. CASE GateNext
  <2> SUFFICES ASSUME Orderly'
               PROVE  /\ \A q \in Writer : CallInv(q)'
                      /\ Cardinality(Recent(store'.writes, now')) <= Ceiling
    BY DEF CallsInv
  <2>0. Orderly
    BY <1>2, OrderlyBefore
  <2>1. ASSUME NEW q \in Writer PROVE CallInv(q)'
    <3>1. CASE Tick
      BY <2>0, <3>1, CallWaits
    <3>2. ASSUME NEW p \in Writer, Step(p) PROVE CallInv(q)'
      <4>1. CASE p = q
        BY <2>0, <3>2, <4>1, CallStep
      <4>2. CASE p # q
        BY <2>0, <3>2, <4>2, CallLeftAlone
      <4> QED
        BY <4>1, <4>2
    <3> QED
      BY <1>2, <3>1, <3>2 DEF GateNext
  <2>2. Cardinality(Recent(store.writes, now)) <= Ceiling
    BY <2>0 DEF CallsInv
  <2>3. now \in Nat /\ store \in StateType
    BY DEF GateType
  <2>4. CASE Tick
    <3>1. PICK W \in SUBSET Nat : W = store.writes
      BY <2>3 DEF StateType
    <3>2. PICK n \in Int : n = now + 1
      BY <2>3
    <3>3. /\ Cardinality(Recent(W, n)) <= Cardinality(Recent(W, now))
          /\ Cardinality(Recent(W, n)) \in Nat /\ Cardinality(Recent(W, now)) \in Nat
      BY <2>3, <3>1, <3>2, RecentShrinks DEF PastInv, Past
    <3>4. Cardinality(Recent(W, n)) <= Ceiling
      BY <2>2, <3>1, <3>3, Limits
    <3> QED
      BY <2>1, <2>4, <3>1, <3>2, <3>4 DEF Tick
  <2>5. CASE \E p \in Writer : Step(p)
    <3>1. PICK p \in Writer : Step(p)
      BY <2>5
    <3>2. now' = now
      BY <3>1, LedgerTyped
    <3>3. CASE Save(p)
      <4>1. store' = job[p].snap /\ job[p].pc = "save"
        BY <3>3 DEF Save, At
      <4>2. Cardinality(Recent(job[p].snap.writes, now)) <= Ceiling
        BY <2>0, <4>1 DEF CallsInv, CallInv
      <4> QED
        BY <2>1, <3>2, <4>1, <4>2
    <3>4. CASE ~Save(p)
      <4>1. store' = store
        BY <3>1, <3>4 DEF Step, Call, Mkdir, Stat, Rm, Pause, Unlock, Load, Send, Accepted, Failed,
           Retryable, Crash
      <4> QED
        BY <2>1, <2>2, <3>2, <4>1
    <3> QED
      BY <3>3, <3>4
  <2> QED
    BY <1>2, <2>4, <2>5 DEF GateNext
<1> QED
  BY <1>1, <1>2

-----------------------------------------------------------------------------
(* The writes GitHub carried out.                                          *)

\* Only a successful answer adds a write, and the history ends when one goes
\* unrecorded.
LEMMA TakenAfter ==
  ASSUME GateType, [GateNext]_gateVars
  PROVE  /\ ~unrecorded' => ~unrecorded
         /\ \/ taken' = taken
            \/ taken' = {}
            \/ \E p \in Writer : Accepted(p) /\ ~unrecorded /\ taken' = taken \cup {Carried(p)}
<1>1. CASE UNCHANGED gateVars
  BY <1>1 DEF gateVars
<1>2. CASE Tick
  BY <1>2 DEF Tick
<1>3. ASSUME NEW p \in Writer, Step(p)
      PROVE  /\ ~unrecorded' => ~unrecorded
             /\ \/ taken' = taken
                \/ taken' = {}
                \/ Accepted(p) /\ ~unrecorded /\ taken' = taken \cup {Carried(p)}
  <2>1. CASE Failed(p) \/ Retryable(p) \/ Crash(p)
    <3>1. Unknown \/ Unrecorded \/ UNCHANGED <<taken, unrecorded>>
      BY <2>1, Zenon DEF Failed, Retryable, Crash
    <3> QED
      BY <3>1 DEF Unknown, Unrecorded
  <2>2. CASE Accepted(p)
    BY <2>2, AcceptedEffect
  <2>3. CASE ~(Failed(p) \/ Retryable(p) \/ Crash(p) \/ Accepted(p))
    BY <1>3, <2>3 DEF Step, Call, Mkdir, Stat, Rm, Pause, Unlock, Load, Send, Save
  <2> QED
    BY <2>1, <2>2, <2>3
<1> QED
  BY <1>1, <1>2, <1>3 DEF GateNext

\* A request in flight was sent after every write that is known, by Gap at
\* least, and by DedupeFor after the last of its key.
LEMMA FlightIsLate ==
  ASSUME GateType, LockInv, CallsInv, TakenInv, Orderly, ~unrecorded,
         NEW p \in Writer, Accepted(p), NEW a \in taken
  PROVE  /\ job[p].wake <= now
         /\ job[p].wake >= a.to + Gap
         /\ job[p].key \in Key /\ a.key = job[p].key => job[p].wake - a.to >= DedupeFor
         /\ a.to \in job[p].snap.writes \/ job[p].wake - a.to >= Window
<1>1. job[p].pc = "flight" /\ CallInv(p) /\ Sent(p) = job[p].wake
  BY DEF Accepted, At, CallsInv, Sent
<1>2. \A q \in Writer : ~At(q, "save")
  BY <1>1, Alone DEF At, Section
<1>3. store.last >= a.to /\ (a.key \in Key => store.keys[a.key] >= a.to)
  BY <1>2 DEF TakenInv, Knows
<1>4. /\ job[p].wake \in Int /\ now \in Nat /\ a.to \in Nat /\ store.last \in Int
      /\ \A k \in Key : store.keys[k] \in Int
  BY DEF GateType, JobType, WriteType, StateType
<1>5. /\ job[p].wake <= now /\ job[p].wake >= store.last + Gap
      /\ job[p].key \in Key => job[p].wake - store.keys[job[p].key] >= DedupeFor
      /\ a.to \in job[p].snap.writes \/ job[p].wake - a.to >= Window
  BY <1>1 DEF CallInv
<1>6. job[p].wake >= a.to + Gap
  BY <1>3, <1>4, <1>5, Limits
<1>7. ASSUME job[p].key \in Key, a.key = job[p].key PROVE job[p].wake - a.to >= DedupeFor
  BY <1>3, <1>4, <1>5, <1>7, Limits
<1> QED
  BY <1>5, <1>6, <1>7

\* Every step keeps the state file's knowledge of what GitHub carried out.
LEMMA TakenStep ==
  ASSUME GateType, GateType', LockInv, CallsInv, TakenInv, [GateNext]_gateVars
  PROVE  TakenInv'
<1> SUFFICES ASSUME Orderly', ~unrecorded'
             PROVE  /\ \A a \in taken' : a.from <= a.to /\ a.to <= now'
                    /\ (\A p \in Writer : job'[p].pc # "save") =>
                         \A a \in taken' :
                           /\ store'.last >= a.to
                           /\ a.key \in Key => store'.keys[a.key] >= a.to
                           /\ a.to \in store'.writes \/ now' - a.to >= Window
  BY DEF TakenInv, Knows, At
<1>1. Orderly /\ ~unrecorded
  BY OrderlyBefore, TakenAfter
<1>2. \A a \in taken : a.from <= a.to /\ a.to <= now /\ a.from \in Int /\ a.to \in Nat
  BY <1>1 DEF TakenInv, GateType, WriteType
<1>3. now \in Nat /\ (now' = now \/ now' = now + 1)
  BY LedgerTyped DEF GateNext, Tick, gateVars, GateType
<1>4. ASSUME NEW a \in taken' PROVE a.from <= a.to /\ a.to <= now'
  <2>1. CASE a \in taken
    BY <1>2, <1>3, <2>1
  <2>2. CASE a \notin taken
    <3>1. PICK p \in Writer : Accepted(p) /\ a = Carried(p)
      BY <1>4, <2>2, TakenAfter
    <3>2. job[p].wake <= now
      BY <1>1, <3>1 DEF CallsInv, CallInv, Sent, At, Accepted
    <3> QED
      BY <1>3, <3>1, <3>2 DEF Carried
  <2> QED
    BY <2>1, <2>2
<1>5. ASSUME \A p \in Writer : job'[p].pc # "save", NEW a \in taken'
      PROVE  /\ store'.last >= a.to
             /\ a.key \in Key => store'.keys[a.key] >= a.to
             /\ a.to \in store'.writes \/ now' - a.to >= Window
  <2>1. a \in taken
    <3>1. \A p \in Writer : ~Accepted(p)
      BY <1>5, AcceptedEffect
    <3> QED
      BY <1>5, <3>1, TakenAfter
  <2>2. CASE \E p \in Writer : Save(p)
    <3>1. PICK p \in Writer : Save(p)
      BY <2>2
    <3>2. store' = job[p].snap /\ job[p].pc = "save" /\ now' = now
      BY <3>1 DEF Save, At
    <3>3. Knows(job[p].snap, a)
      BY <1>1, <2>1, <3>2 DEF CallsInv, CallInv
    <3> QED
      BY <3>2, <3>3 DEF Knows
  <2>3. CASE \A p \in Writer : ~Save(p)
    <3>1. store' = store
      BY <2>3 DEF GateNext, Step, Call, Mkdir, Stat, Rm, Pause, Unlock, Load, Send, Accepted, Failed,
         Retryable, Crash, Tick, gateVars
    <3>2. ASSUME NEW p \in Writer PROVE ~At(p, "save")
      <4> SUFFICES ASSUME job[p].pc = "save" PROVE FALSE
        BY DEF At
      <4>1. PICK q \in Writer : Step(q)
        BY <1>5 DEF GateNext, Tick, gateVars
      <4>2. q = p
        BY <1>5, <4>1, OthersKept
      <4>3. Crash(p)
        BY <2>3, <4>1, <4>2 DEF Step, Call, Mkdir, Stat, Rm, Pause, Unlock, Load, Send, Accepted, Failed,
           Retryable, At
      <4>4. Unrecorded
        <5>1. At(p, "save") /\ ~At(p, "flight")
          BY DEF At
        <5> QED
          BY <4>3, <5>1, Zenon DEF Crash
      <4> QED
        BY <4>4 DEF Unrecorded
    <3>3. Knows(store, a)
      BY <1>1, <2>1, <3>2 DEF TakenInv
    <3> QED
      BY <1>2, <1>3, <2>1, <3>1, <3>3, Limits DEF Knows
  <2> QED
    BY <2>2, <2>3
<1> QED
  BY <1>4, <1>5

\* No step repeats a comment.
LEMMA CommentedStep ==
  ASSUME GateType, LockInv, CallsInv, TakenInv, CommentedOnce, [GateNext]_gateVars
  PROVE  CommentedOnce'
<1> SUFFICES ASSUME Orderly', ~unrecorded', NEW a \in taken', NEW b \in taken',
                    a.key \in Key, a.key = b.key, a # b
             PROVE  b.from - a.to >= DedupeFor \/ a.from - b.to >= DedupeFor
  BY DEF CommentedOnce
<1>1. Orderly /\ ~unrecorded
  BY OrderlyBefore, TakenAfter
<1>2. CASE taken' = taken \/ taken' = {}
  BY <1>1, <1>2 DEF CommentedOnce
<1>3. CASE \E p \in Writer : Accepted(p) /\ taken' = taken \cup {Carried(p)}
  <2>1. PICK p \in Writer : Accepted(p) /\ taken' = taken \cup {Carried(p)}
    BY <1>3
  <2>2. Carried(p).from = job[p].wake /\ Carried(p).key = job[p].key
    BY DEF Carried
  <2>3. CASE a \in taken /\ b \in taken
    BY <1>1, <2>3 DEF CommentedOnce
  <2>4. CASE a \in taken /\ b = Carried(p)
    BY <1>1, <2>1, <2>2, <2>4, FlightIsLate
  <2>5. CASE b \in taken /\ a = Carried(p)
    BY <1>1, <2>1, <2>2, <2>5, FlightIsLate
  <2> QED
    BY <2>1, <2>3, <2>4, <2>5
<1> QED
  BY <1>2, <1>3, TakenAfter

\* The writes that count against the ceiling for b, among those of T.
Counted(T, b) == {a \in T \ {b} : a.to <= b.from /\ b.from - a.to < Window}

\* Fewer than Ceiling answers lie within the window before a request in flight.
LEMMA CountedForFlight ==
  ASSUME GateType, PastInv, LockInv, CallsInv, TakenInv, Paced, Orderly, ~unrecorded,
         NEW p \in Writer, Accepted(p), NEW b, b = Carried(p)
  PROVE  Cardinality(Counted(taken \cup {b}, b)) < Ceiling
<1>1. PICK w \in Int, W \in SUBSET Nat : w = job[p].wake /\ W = job[p].snap.writes
  BY DEF GateType, JobType, StateType
<1>2. IsFiniteSet(W) /\ b.from = w
  BY <1>1 DEF PastInv, Past, Carried
<1>3. Cardinality(Recent(W, w)) < Ceiling
  BY <1>1 DEF CallsInv, CallInv, Accepted, At
<1>4. IsFiniteSet(Recent(W, w)) /\ Cardinality(Recent(W, w)) \in Nat
  <2>1. w <= w
    OBVIOUS
  <2> QED
    BY <1>2, <2>1, RecentShrinks
<1>5. PICK A : A = Counted(taken \cup {b}, b)
  OBVIOUS
<1>6. \A a \in A : a \in taken /\ a.to \in Recent(W, w)
  <2> SUFFICES ASSUME NEW a \in A PROVE a \in taken /\ a.to \in Recent(W, w)
    OBVIOUS
  <2>1. a \in taken /\ w - a.to < Window /\ a.to \in Nat
    BY <1>2, <1>5 DEF Counted, GateType, WriteType
  <2>2. a.to \in W \/ w - a.to >= Window
    BY <1>1, <2>1, FlightIsLate
  <2> QED
    BY <2>1, <2>2, Limits DEF Recent
<1>7. \A a, c \in A : a.to = c.to => a = c
  <2> SUFFICES ASSUME NEW a \in A, NEW c \in A, a.to = c.to, a # c PROVE FALSE
    OBVIOUS
  <2>1. a \in taken /\ c \in taken
    BY <1>6
  <2>2. a.from <= a.to /\ c.from <= c.to
    BY <2>1 DEF TakenInv
  <2>3. c.from >= a.to + Gap \/ a.from >= c.to + Gap
    BY <2>1 DEF Paced
  <2>4. a.from \in Int /\ c.from \in Int /\ a.to \in Nat /\ c.to \in Nat
    BY <2>1 DEF GateType, WriteType
  <2> QED
    BY <2>2, <2>3, <2>4, Limits
<1>8. [a \in A |-> a.to] \in Injection(A, Recent(W, w))
  BY <1>6, <1>7 DEF Injection, IsInjective
<1>9. IsFiniteSet(A) /\ Cardinality(A) <= Cardinality(Recent(W, w)) /\ Cardinality(A) \in Nat
  BY <1>4, <1>8, FS_Injection, FS_CardinalityType
<1>10. Cardinality(A) < Ceiling
  BY <1>3, <1>4, <1>9, Limits
<1> QED
  BY <1>5, <1>10

\* No step breaks the pacing.
LEMMA PacedStep ==
  ASSUME GateType, PastInv, LockInv, CallsInv, TakenInv, Paced, [GateNext]_gateVars
  PROVE  Paced'
<1> SUFFICES ASSUME Orderly', ~unrecorded', NEW b \in taken'
             PROVE  /\ \A a \in taken' \ {b} : b.from >= a.to + Gap \/ a.from >= b.to + Gap
                    /\ Cardinality(Counted(taken', b)) < Ceiling
  BY DEF Paced, Counted
<1>1. Orderly /\ ~unrecorded
  BY OrderlyBefore, TakenAfter
<1>2. ASSUME NEW c \in taken
      PROVE  /\ \A a \in taken \ {c} : c.from >= a.to + Gap \/ a.from >= c.to + Gap
             /\ Cardinality(Counted(taken, c)) < Ceiling
  BY <1>1 DEF Paced, Counted
<1>3. CASE taken' = taken \/ taken' = {}
  BY <1>2, <1>3
<1>4. CASE \E p \in Writer : Accepted(p) /\ taken' = taken \cup {Carried(p)}
  <2>1. PICK p \in Writer : Accepted(p) /\ taken' = taken \cup {Carried(p)}
    BY <1>4
  <2>2. PICK c : c = Carried(p)
    OBVIOUS
  <2>3. c.from = job[p].wake /\ c.to = now
    BY <2>2 DEF Carried
  <2>4. \A a \in taken : c.from >= a.to + Gap /\ c.from <= now
    BY <1>1, <2>1, <2>3, FlightIsLate
  <2>5. CASE b = c
    <3>1. Cardinality(Counted(taken', b)) < Ceiling
      BY <1>1, <2>1, <2>2, <2>5, CountedForFlight
    <3> QED
      BY <2>1, <2>2, <2>4, <2>5, <3>1
  <2>6. CASE b # c
    <3>1. b \in taken
      BY <2>1, <2>2, <2>6
    <3>2. /\ b.from <= b.to /\ b.from \in Int /\ b.to \in Nat /\ now \in Nat
          /\ job[p].wake \in Int
      BY <1>1, <3>1 DEF TakenInv, GateType, WriteType, JobType
    <3>3. ~(c.to <= b.from)
      BY <2>3, <2>4, <3>1, <3>2, Limits
    <3>4. Counted(taken', b) = Counted(taken, b)
      BY <2>1, <2>2, <3>3 DEF Counted
    <3> QED
      BY <1>2, <2>1, <2>2, <2>4, <3>1, <3>4
  <2> QED
    BY <2>5, <2>6
<1> QED
  BY <1>3, <1>4, TakenAfter

-----------------------------------------------------------------------------
(* The theorems.                                                           *)

\* The first state satisfies the invariant.
LEMMA InitGateInv == GateInit => GateInv
<1> SUFFICES ASSUME GateInit PROVE GateInv
  OBVIOUS
<1>1. Fresh \in StateType /\ NoJob \in JobType
  BY Limits DEF Fresh, StateType, NoJob, JobType
<1>2. \A p \in Writer : job[p].pc = "idle" /\ job[p].snap = Fresh
  BY DEF GateInit, NoJob
<1>3. GateType
  BY <1>1 DEF GateInit, GateType
<1>4. LockInv
  BY <1>2 DEF GateInit, LockInv, SoleWriter, At, Section
<1>5. Past(Fresh)
  BY Limits, FS_EmptySet DEF GateInit, Past, Fresh
<1>6. PastInv
  BY <1>2, <1>5 DEF GateInit, PastInv
<1>7. CallsInv
  <2>1. Recent(Fresh.writes, now) = {}
    BY DEF Recent, Fresh
  <2>2. Cardinality(Recent(store.writes, now)) = 0
    BY <2>1, FS_EmptySet DEF GateInit
  <2>3. \A p \in Writer : CallInv(p)
    BY <1>2 DEF CallInv
  <2> QED
    BY <2>2, <2>3, Limits DEF CallsInv
<1>8. TakenInv /\ Paced /\ CommentedOnce
  BY DEF GateInit, TakenInv, Paced, CommentedOnce
<1> QED
  BY <1>3, <1>4, <1>6, <1>7, <1>8 DEF GateInv

\* Every step keeps the invariant.
LEMMA GateInvStep == GateInv /\ [GateNext]_gateVars => GateInv'
<1> SUFFICES ASSUME GateInv, [GateNext]_gateVars PROVE GateInv'
  OBVIOUS
<1>1. GateType /\ PastInv /\ LockInv /\ CallsInv /\ TakenInv /\ Paced /\ CommentedOnce
  BY DEF GateInv
<1>2. GateType' /\ PastInv'
  BY <1>1, TypeStep, PastStep
<1>3. LockInv' /\ CallsInv' /\ TakenInv'
  BY <1>1, <1>2, LockStep, CallsStep, TakenStep
<1>4. Paced' /\ CommentedOnce'
  BY <1>1, PacedStep, CommentedStep
<1> QED
  BY <1>2, <1>3, <1>4 DEF GateInv

\* The inductive invariant holds in every state: the types, the lock of a
\* writer at work, and what its snapshot, the state file and GitHub know of
\* each other.
THEOREM GateInvariant == GateSpec => []GateInv
BY InitGateInv, GateInvStep, PTL DEF GateSpec

\* The lock directory of lock() and unlock() lets one writer in at a time, as
\* long as none outlives its age limit and none makes it between another's
\* stat and rm.
THEOREM WritersAlone == GateSpec => []SoleWriter
<1>1. GateInv => SoleWriter
  BY DEF GateInv, LockInv
<1> QED
  BY <1>1, GateInvariant, PTL

\* What githubWrite reads, waits for and saves under the lock keeps the gap
\* between any two writes and the ceiling of the window, for every ceiling,
\* window and gap, through retries, crashes and writers started anew.
THEOREM WritesArePaced == GateSpec => []Paced
<1>1. GateInv => Paced
  BY DEF GateInv
<1> QED
  BY <1>1, GateInvariant, PTL

\* A keyed comment is carried out once within DedupeFor.
THEOREM CommentsAreNotRepeated == GateSpec => []CommentedOnce
<1>1. GateInv => CommentedOnce
  BY DEF GateInv
<1> QED
  BY <1>1, GateInvariant, PTL

\* save() replaces the whole file and loses nothing another writer saved.
THEOREM SavesLoseNothing == GateSpec => NothingForgotten
<1>1. ASSUME GateInv, [GateNext]_gateVars, Orderly'
      PROVE  store'.last >= store.last /\ \A k \in Key : store'.keys[k] >= store.keys[k]
  <2>1. CallsInv /\ Orderly /\ store \in StateType
    BY <1>1, OrderlyBefore DEF GateInv, GateType
  <2>2. CASE \E p \in Writer : Save(p)
    <3>1. PICK p \in Writer : Save(p)
      BY <2>2
    <3>2. store' = job[p].snap /\ job[p].pc = "save" /\ CallInv(p)
      BY <2>1, <3>1 DEF Save, At, CallsInv
    <3> QED
      BY <3>2 DEF CallInv
  <2>3. CASE \A p \in Writer : ~Save(p)
    <3>1. store' = store
      BY <1>1, <2>3 DEF GateNext, Step, Call, Mkdir, Stat, Rm, Pause, Unlock, Load, Send, Accepted, Failed,
         Retryable, Crash, Tick, gateVars
    <3> QED
      BY <2>1, <3>1 DEF StateType
  <2> QED
    BY <2>2, <2>3
<1>2. GateInv /\ [GateNext]_gateVars =>
        [Orderly' => store'.last >= store.last /\ \A k \in Key : store'.keys[k] >= store.keys[k]]_gateVars
  BY <1>1
<1> QED
  BY <1>2, GateInvariant, PTL DEF NothingForgotten, GateSpec
================================================================================
