------------------------- MODULE ControllerLockProofs -------------------------
(***************************************************************************)
(* Proofs about ControllerLock for every set of processes and every bound. *)
(*                                                                         *)
(* HolderKeepsLock rests on LockInv: a contender that is about to unlink   *)
(* has validated the file of a process that has ended, and nothing has     *)
(* replaced that file since.  RefusedMeansRival rests on LoneInv: as long  *)
(* as a contender has met nobody, its first pass removes the dead lock and *)
(* its second creates its own.                                             *)
(***************************************************************************)
EXTENDS ControllerLock, TLAPS

\* On one machine, or when no command outlasts lock_timeout_seconds, age alone
\* never takes a lock from its holder.
AgeIrrelevant == (\A p, q \in Proc : Host[p] = Host[q]) \/ ~Slow

OneHost == \A p, q \in Proc : Host[p] = Host[q]

Label == Acquiring \cup Holding \cup {"idle", "held", "busy", "done", "dead"}

LockType ==
  /\ file \in Proc \cup {None}
  /\ written \subseteq Proc
  /\ aged \subseteq Proc
  /\ pc \in [Proc -> Label]
  /\ tries \in [Proc -> Nat]
  /\ seen \in [Proc -> Proc \cup {None}]
  /\ rival \subseteq Proc
  /\ raced \in BOOLEAN

\* A file's contents are written by its holder, and stay when it ends.
WrittenByHolder == \A p \in Proc :
  /\ pc[p] \in Holding => p \in written
  /\ p \in written => pc[p] \in Holding \cup {"done", "dead"}

\* A contender that passed the first look saw the lock of an ended process.
SeenIsOver == \A p \in Proc :
  pc[p] \in {"verify", "unlink"} => seen[p] \in written /\ pc[seen[p]] \in {"done", "dead"}

\* What is at the path while nobody creates a lock under an unlink.
PathUndisturbed ==
  ~raced => \A p \in Proc :
    /\ pc[p] \in {"write"} \cup Holding => file = p
    /\ pc[p] = "unlink" => file \in {seen[p], None}

LockInv ==
  /\ LockType
  /\ ~Slow => aged = {}
  /\ WrittenByHolder
  /\ SeenIsOver
  /\ PathUndisturbed

\* The first state satisfies the invariant.
LEMMA InitLockInv == LockInit => LockInv
<1> SUFFICES ASSUME LockInit PROVE LockInv
  OBVIOUS
<1>1. LockType
  BY DEF LockInit, LockType, Label
<1>2. aged = {} /\ WrittenByHolder /\ SeenIsOver /\ PathUndisturbed
  BY DEF LockInit, WrittenByHolder, SeenIsOver, PathUndisturbed, Holding
<1> QED
  BY <1>1, <1>2 DEF LockInv

\* What the history variables do in any step.
LEMMA ObserveStep ==
  ASSUME LockType, Observe
  PROVE  /\ rival \subseteq rival' /\ rival' \subseteq Proc
         /\ raced' \in BOOLEAN
         /\ raced => raced'
         /\ ~raced' /\ file' # file /\ file' # None => \A p \in Proc : pc[p] # "unlink"
BY DEF Observe, LockType

\* Every step of a process keeps the invariant.
LEMMA StepLockInv ==
  ASSUME LockInv, AgeIrrelevant, NEW p \in Proc, Step(p)
  PROVE  LockInv'
<1>0. /\ LockType /\ WrittenByHolder /\ SeenIsOver /\ PathUndisturbed
      /\ ~Slow => aged = {}
      /\ None \notin Proc
  BY LockConstants DEF LockInv
<1>1. Observe
  BY DEF Step, Start, Create, Write, FirstLook, SecondLook, Unlink, Finish, Release, Remove, Age, Crash
<1>2. /\ rival' \subseteq Proc /\ raced' \in BOOLEAN /\ (raced => raced')
      /\ ~raced' /\ file' # file /\ file' # None => \A q \in Proc : pc[q] # "unlink"
  BY <1>0, <1>1, ObserveStep
<1>3. CASE Start(p)
  BY <1>0, <1>2, <1>3 DEF Start, LockInv, LockType, WrittenByHolder, SeenIsOver, PathUndisturbed,
     Label, Acquiring, Holding
<1>4. CASE Create(p)
  BY <1>0, <1>2, <1>4 DEF Create, CanCreate, LockInv, LockType, WrittenByHolder, SeenIsOver, PathUndisturbed,
     Label, Acquiring, Holding
<1>5. CASE Write(p)
  BY <1>0, <1>2, <1>5 DEF Write, LockInv, LockType, WrittenByHolder, SeenIsOver, PathUndisturbed,
     Label, Acquiring, Holding
<1>6. CASE FirstLook(p)
  <2>1. CASE Inspect = None
    BY <1>0, <1>2, <1>6, <2>1 DEF FirstLook, Again, LockInv, LockType, WrittenByHolder, SeenIsOver,
       PathUndisturbed, Label, Acquiring, Holding
  <2>2. CASE Inspect # None
    <3>1. Inspect = file /\ file \in written
      BY <2>2 DEF Inspect
    <3>2. ~Held(p, file) => pc[file] \in {"done", "dead"}
      BY <1>0, <3>1 DEF Held, Alive, AgeIrrelevant, LockType, WrittenByHolder
    <3> QED
      BY <1>0, <1>2, <1>6, <2>2, <3>1, <3>2 DEF FirstLook, LockInv, LockType, WrittenByHolder,
         SeenIsOver, PathUndisturbed, Label, Acquiring, Holding
  <2> QED
    BY <2>1, <2>2
<1>7. CASE SecondLook(p)
  BY <1>0, <1>2, <1>7 DEF SecondLook, Inspect, Again, LockInv, LockType, WrittenByHolder, SeenIsOver,
     PathUndisturbed, Label, Acquiring, Holding
<1>8. CASE Unlink(p)
  BY <1>0, <1>2, <1>8 DEF Unlink, Again, LockInv, LockType, WrittenByHolder, SeenIsOver,
     PathUndisturbed, Label, Acquiring, Holding
<1>9. CASE Finish(p)
  BY <1>0, <1>2, <1>9 DEF Finish, LockInv, LockType, WrittenByHolder, SeenIsOver, PathUndisturbed,
     Label, Acquiring, Holding
<1>10. CASE Release(p)
  BY <1>0, <1>2, <1>10 DEF Release, LockInv, LockType, WrittenByHolder, SeenIsOver, PathUndisturbed,
     Label, Acquiring, Holding
<1>11. CASE Remove(p)
  BY <1>0, <1>2, <1>11 DEF Remove, LockInv, LockType, WrittenByHolder, SeenIsOver, PathUndisturbed,
     Label, Acquiring, Holding
<1>12. CASE Age(p)
  BY <1>0, <1>2, <1>12 DEF Age, LockInv, LockType, WrittenByHolder, SeenIsOver, PathUndisturbed,
     Label, Acquiring, Holding
<1>13. CASE Crash(p)
  BY <1>0, <1>2, <1>13 DEF Crash, Alive, LockInv, LockType, WrittenByHolder, SeenIsOver, PathUndisturbed,
     Label, Acquiring, Holding
<1> QED
  BY <1>3, <1>4, <1>5, <1>6, <1>7, <1>8, <1>9, <1>10, <1>11, <1>12, <1>13 DEF Step

\* The invariant holds in every reachable state.
LEMMA SpecLockInv == ASSUME AgeIrrelevant PROVE LockSpec => []LockInv
<1>1. LockInv /\ UNCHANGED lockVars => LockInv'
  BY DEF lockVars, LockInv, LockType, WrittenByHolder, SeenIsOver, PathUndisturbed
<1>2. LockInv /\ [LockNext]_lockVars => LockInv'
  BY <1>1, StepLockInv DEF LockNext
<1> QED
  BY <1>2, InitLockInv, PTL DEF LockSpec

\* Without a lock created under an unlink, however many contenders recover
\* stale locks, the lock of a running controller stays at the path until the
\* controller itself removes it.
THEOREM HolderSafe == ASSUME AgeIrrelevant PROVE LockSpec => []HolderKeepsLock
<1>1. LockInv => HolderKeepsLock
  BY LockConstants DEF LockInv, WrittenByHolder, PathUndisturbed, HolderKeepsLock, Inspect
<1> QED
  BY <1>1, SpecLockInv, PTL

\* In those histories the lock is what controller/README.md promises.
THEOREM ExclusiveUnlessRaced == ASSUME AgeIrrelevant PROVE LockSpec => [](~raced => OneController)
<1>1. HolderKeepsLock => (~raced => OneController)
  BY DEF HolderKeepsLock, OneController
<1> QED
  BY <1>1, HolderSafe, PTL
-----------------------------------------------------------------------------
(* A lone contender.                                                       *)

\* The file at the path is complete, or its creator is still writing it.
NoTornFile == file # None => file \in written \/ pc[file] = "write"

\* Whoever acquires beside a live process is known to have a rival.
RivalsKnown == \A p \in Proc :
  pc[p] \in Acquiring /\ (\E q \in Proc \ {p} : Alive(q)) => p \in rival

\* A contender without a rival finds each thing it left.
LonePass == \A p \in Proc \ rival :
  /\ pc[p] \in {"idle", "inspect", "verify", "unlink"} => tries[p] = 0
  /\ pc[p] = "create" => tries[p] = 0 \/ file = None
  /\ pc[p] = "inspect" => file \in written
  /\ pc[p] \in {"verify", "unlink"} => file = seen[p] /\ file \in written

LoneInv ==
  /\ LockType
  /\ WrittenByHolder
  /\ NoTornFile
  /\ RivalsKnown
  /\ LonePass
  /\ RefusedMeansRival

\* The first state satisfies the invariant.
LEMMA InitLoneInv == LockInit => LoneInv
BY InitLockInv, LockConstants DEF LockInit, LockInv, LoneInv, NoTornFile, RivalsKnown, LonePass, RefusedMeansRival,
   Alive, Acquiring, Holding

\* Another process's step gives a contender a rival, or leaves it alone.
LEMMA RivalStep ==
  ASSUME LockType, RivalsKnown, NEW p \in Proc, Step(p)
  PROVE  /\ RivalsKnown'
         /\ \A q \in Proc \ {p} : pc'[q] = pc[q] /\ tries'[q] = tries[q] /\ seen'[q] = seen[q]
         /\ \A q \in Proc \ {p} : pc[q] \in Acquiring /\ q \notin rival' => file' = file
         /\ written \subseteq written'
         /\ rival \subseteq rival'
<1>1. Observe
  BY DEF Step, Start, Create, Write, FirstLook, SecondLook, Unlink, Finish, Release, Remove, Age, Crash
<1>2. rival \subseteq rival' /\ RivalsKnown'
  BY <1>1, ObserveStep DEF Observe, RivalsKnown, Alive
<1>3. \A q \in Proc \ {p} : pc'[q] = pc[q] /\ tries'[q] = tries[q] /\ seen'[q] = seen[q]
  BY DEF Step, Start, Create, Write, FirstLook, SecondLook, Unlink, Finish, Release, Remove, Age,
     Crash, Again, LockType
<1>4. file' = file \/ Alive(p)
  BY DEF Step, Start, Create, Write, FirstLook, SecondLook, Unlink, Finish, Release, Remove, Age,
     Crash, Alive, Acquiring, Holding
<1>5. written \subseteq written'
  BY DEF Step, Start, Create, Write, FirstLook, SecondLook, Unlink, Finish, Release, Remove, Age, Crash
<1> QED
  BY <1>2, <1>3, <1>4, <1>5 DEF RivalsKnown

\* Every step of a process keeps the lone contender's invariant, in a build
\* that does not die between creating and writing a file.
LEMMA StepLoneInv ==
  ASSUME LoneInv, LockType', WrittenByHolder', OneHost, ~TornCrash, Attempts > 1,
         NEW p \in Proc, Step(p)
  PROVE  LoneInv'
<1>0. /\ LockType /\ WrittenByHolder /\ NoTornFile /\ RivalsKnown /\ LonePass /\ RefusedMeansRival
      /\ None \notin Proc /\ Attempts \in Nat
  BY LockConstants DEF LoneInv
<1>1. /\ RivalsKnown' /\ written \subseteq written' /\ rival \subseteq rival'
      /\ \A q \in Proc \ {p} : pc'[q] = pc[q] /\ tries'[q] = tries[q] /\ seen'[q] = seen[q]
      /\ \A q \in Proc \ {p} : pc[q] \in Acquiring /\ q \notin rival' => file' = file
  BY <1>0, RivalStep
<1>2. NoTornFile'
  BY <1>0, <1>1 DEF Step, Start, Create, Write, FirstLook, SecondLook, Unlink, Finish, Release,
     Remove, Age, Crash, NoTornFile, LockType, Again
\* The other contenders.
<1>3. ASSUME NEW q \in Proc \ {p}
      PROVE  /\ q \notin rival' =>
                  /\ pc'[q] \in {"idle", "inspect", "verify", "unlink"} => tries'[q] = 0
                  /\ pc'[q] = "create" => tries'[q] = 0 \/ file' = None
                  /\ pc'[q] = "inspect" => file' \in written'
                  /\ pc'[q] \in {"verify", "unlink"} => file' = seen'[q] /\ file' \in written'
             /\ pc'[q] \in {"held", "busy"} => q \in rival'
  BY <1>0, <1>1 DEF LonePass, RefusedMeansRival, Acquiring
\* p itself.
<1> DEFINE Lone ==
      /\ p \notin rival' =>
           /\ pc'[p] \in {"idle", "inspect", "verify", "unlink"} => tries'[p] = 0
           /\ pc'[p] = "create" => tries'[p] = 0 \/ file' = None
           /\ pc'[p] = "inspect" => file' \in written'
           /\ pc'[p] \in {"verify", "unlink"} => file' = seen'[p] /\ file' \in written'
      /\ pc'[p] \in {"held", "busy"} => p \in rival'
<1>4. Lone
  <2>1. CASE p \in rival
    BY <1>1, <2>1
  <2>2. CASE p \notin rival
    <3>1. \A q \in Proc \ {p} : pc[p] \in Acquiring => ~Alive(q)
      BY <1>0, <2>2 DEF RivalsKnown
    <3>2. CASE Start(p)
      BY <1>0, <2>2, <3>2 DEF Start, LonePass, LockType
    <3>3. CASE Create(p)
      <4>1. pc[p] = "create" /\ tries' = tries /\ written' = written
        BY <3>3 DEF Create
      <4>2. CASE file = None
        BY <1>0, <3>3, <4>2 DEF Create, CanCreate, LockType
      <4>3. CASE file # None
        <5>1. pc'[p] = "inspect" /\ file' = file
          BY <1>0, <3>3, <4>3 DEF Create, CanCreate, LockType
        <5>2. tries[p] = 0
          BY <1>0, <2>2, <4>1, <4>3 DEF LonePass
        <5>3. file \in written
          BY <1>0, <3>1, <4>1, <4>3 DEF NoTornFile, LockType, Alive, Acquiring
        <5> QED
          BY <4>1, <5>1, <5>2, <5>3
      <4> QED
        BY <4>2, <4>3
    <3>4. CASE FirstLook(p)
      <4>1. /\ pc[p] = "inspect" /\ tries[p] = 0 /\ file \in written /\ file \in Proc
            /\ file # p /\ file' = file /\ written' = written
        BY <1>0, <2>2, <3>4 DEF FirstLook, LonePass, LockType, WrittenByHolder, Holding
      <4>2. Inspect = file /\ ~Held(p, file)
        BY <3>1, <4>1 DEF Inspect, Held, OneHost, Acquiring
      <4>3. tries' = tries /\ pc'[p] = "verify" /\ seen'[p] = file
        BY <1>0, <3>4, <4>1, <4>2 DEF FirstLook, LockType
      <4> QED
        BY <4>1, <4>3
    <3>5. CASE SecondLook(p)
      <4>1. /\ pc[p] = "verify" /\ tries[p] = 0 /\ file \in written /\ file = seen[p]
            /\ file' = file /\ written' = written /\ seen' = seen
        BY <1>0, <2>2, <3>5 DEF SecondLook, LonePass
      <4>2. pc'[p] = "unlink" /\ tries' = tries
        BY <1>0, <3>5, <4>1 DEF SecondLook, Inspect, LockType
      <4> QED
        BY <4>1, <4>2
    <3>6. CASE Unlink(p)
      <4>1. tries[p] = 0 /\ file' = None
        BY <1>0, <2>2, <3>6 DEF Unlink, LonePass
      <4>2. pc'[p] = "create"
        BY <1>0, <3>6, <4>1 DEF Unlink, Again, LockType
      <4> QED
        BY <4>1, <4>2
    <3>7. CASE Write(p) \/ Finish(p) \/ Release(p) \/ Remove(p) \/ Crash(p)
      BY <1>0, <3>7 DEF Write, Finish, Release, Remove, Crash, LockType
    <3>8. CASE Age(p)
      BY <1>0, <1>1, <2>2, <3>8 DEF Age, LonePass, RefusedMeansRival
    <3> QED
      BY <3>2, <3>3, <3>4, <3>5, <3>6, <3>7, <3>8 DEF Step
  <2> QED
    BY <2>1, <2>2
<1> HIDE DEF Lone
<1>5. LonePass' /\ RefusedMeansRival'
  BY <1>3, <1>4 DEF LonePass, RefusedMeansRival, Lone
<1> QED
  BY <1>1, <1>2, <1>5 DEF LoneInv

\* "Stale-lock recovery": on one machine, and unless a process dies with an
\* empty file at the path, an acquire with a second try is refused only to a
\* process that met another live controller meanwhile.
THEOREM RefusalJustified ==
  ASSUME OneHost, ~TornCrash, Attempts > 1
  PROVE  LockSpec => []RefusedMeansRival
<1>1. AgeIrrelevant
  BY DEF OneHost, AgeIrrelevant
<1>2. LoneInv /\ UNCHANGED lockVars => LoneInv'
  BY DEF lockVars, LoneInv, LockType, WrittenByHolder, NoTornFile, RivalsKnown, LonePass,
     RefusedMeansRival, Alive
<1>3. LockInv /\ LockInv' /\ LoneInv /\ [LockNext]_lockVars => LoneInv'
  BY <1>2, StepLoneInv DEF LockNext, LockInv
<1>4. LoneInv => RefusedMeansRival
  BY DEF LoneInv
<1>5. LockSpec => []LockInv
  BY <1>1, SpecLockInv
<1> QED
  BY <1>3, <1>4, <1>5, InitLoneInv, PTL DEF LockSpec
=============================================================================
