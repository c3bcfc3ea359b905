---------------------------- MODULE ArtifactProofs ----------------------------
(***************************************************************************)
(* Proofs about the managed artifact directory, for any number of          *)
(* processes, names, crashes and failed file operations, and any limits;   *)
(* and about the reaping of an implicit artifact namespace, for any number *)
(* of reapers that scan, crash and interleave.                             *)
(***************************************************************************)
EXTENDS ArtifactReaper, FiniteSetTheorems, WellFoundedInduction, TLAPS

\* The process is inside write(), from its sweep to its commit.
Writing(p) ==
    \/ pc[p] \in {"admit", "place", "commit"}
    \/ pc[p] \in {"sweep", "save"} /\ after[p] = "write"

TypeOK ==
    /\ lock \in Procs \cup {None, Stale}
    /\ files \in [Names -> FileStates]
    /\ manifest \in SUBSET Names
    /\ clock \in Nat
    /\ expiry \in [Names -> Nat]
    /\ pc \in [Procs -> Steps]
    /\ records \in [Procs -> SUBSET Names]
    /\ job \in [Procs -> Names \cup {None}]
    /\ after \in [Procs -> {"start", "load", "write", "read"}]
    /\ acked \in SUBSET Names
    /\ failed \in SUBSET Names
    /\ tampered \in SUBSET Names
    /\ usurped \in BOOLEAN
    /\ overtaken \in SUBSET Procs
    /\ faults \in Nat /\ crashes \in Nat

\* A process holds a name exactly while it writes, and no record when it is down.
JobsAreWrites == \A p \in Procs : Writing(p) <=> job[p] # None
DownIsEmpty == \A p \in Procs : pc[p] = "down" => records[p] = {}

ShapeInv == TypeOK /\ JobsAreWrites /\ DownIsEmpty

\* Every step of one process, in the order of Next.
Step(p) ==
    \/ Construct(p) \/ Sweep(p) \/ Save(p) \/ SaveFails(p) \/ Write(p)
    \/ \E n \in Names : ReadDrops(p, n)
    \/ Close(p) \/ Unlink(p) \/ Crash(p)

LEMMA NextSplits == Next <=> (\E p \in Procs : Step(p)) \/ Environment
BY DEF Next, Step

USE LimitsArePositive, BoundsAreNaturals

LEMMA UnlinkEachType ==
    ASSUME TypeOK, NEW S, UnlinkEach(S)
    PROVE  /\ files' \in [Names -> FileStates]
           /\ faults' \in Nat /\ crashes' \in Nat /\ faults' >= faults
           /\ \A n \in Names : files'[n] = files[n] \/ (n \in S /\ files'[n] = "absent")
           /\ faults' = 0 => faults = 0 /\ files' = Without(S)
BY DEF TypeOK, UnlinkEach, Without, Fails, Succeeds, bounds, FileStates

LEMMA ForgetKeepsShape ==
    ASSUME ShapeInv, NEW p \in Procs, NEW step \in {"down", "unlink"}, Forget(p, step)
    PROVE  /\ pc' \in [Procs -> Steps] /\ records' \in [Procs -> SUBSET Names]
           /\ job' \in [Procs -> Names \cup {None}]
           /\ after' \in [Procs -> {"start", "load", "write", "read"}]
           /\ JobsAreWrites' /\ DownIsEmpty'
BY DEF ShapeInv, TypeOK, JobsAreWrites, DownIsEmpty, Writing, Forget, Goto, Steps

LEMMA ReleaseForgets ==
    ASSUME NEW p \in Procs, Release(p)
    PROVE  \E step \in {"down", "unlink"} :
              Forget(p, step) /\ UNCHANGED lock /\ (step = "unlink" <=> lock = p)
BY DEF Release, OwnsLock

LEMMA ShapeStep == ShapeInv /\ [Next]_vars => ShapeInv'
<1> SUFFICES ASSUME ShapeInv, [Next]_vars PROVE ShapeInv'
  OBVIOUS
<1> USE DEF ShapeInv, disk, memory, history, bounds
<1>1. CASE UNCHANGED vars
  BY <1>1 DEF vars, TypeOK, JobsAreWrites, DownIsEmpty, Writing
<1>2. ASSUME NEW p \in Procs, Step(p) PROVE ShapeInv'
  <2>1. CASE Acquire(p)
    BY <2>1 DEF Acquire, LockFree, Goto, TypeOK, JobsAreWrites, DownIsEmpty, Writing, Steps
  <2>13. CASE Mark(p)
    BY <2>13 DEF Mark, Goto, TypeOK, JobsAreWrites, DownIsEmpty, Writing, Steps
  <2>14. CASE MarkFails(p)
    BY <2>14 DEF MarkFails, Fails, Goto, TypeOK, JobsAreWrites, DownIsEmpty, Writing, Steps
  <2>15. CASE Unlink(p)
    BY <2>15, ForgetKeepsShape DEF Unlink, Left, Unaware, Succeeds, Fails, TypeOK
  <2>2. CASE LoadManifest(p)
    BY <2>2 DEF LoadManifest, Goto, Kept, TypeOK, JobsAreWrites, DownIsEmpty, Writing, Steps
  <2>3. CASE LoadRefuses(p)
    BY <2>3, ReleaseForgets, ForgetKeepsShape DEF LoadRefuses, TypeOK
  <2>4. CASE Reconcile(p)
    BY <2>4, UnlinkEachType DEF Reconcile, Goto, TypeOK, JobsAreWrites, DownIsEmpty, Writing, Steps
  <2>5. CASE Sweep(p)
    BY <2>5, UnlinkEachType DEF Sweep, Goto, Resume, TypeOK, JobsAreWrites, DownIsEmpty, Writing, Steps
  <2>6. CASE Save(p)
    BY <2>6 DEF Save, Goto, Resume, TypeOK, JobsAreWrites, DownIsEmpty, Writing, Steps
  <2>7. CASE SaveFails(p)
    <3>1. CASE Release(p) /\ UNCHANGED failed
      BY <2>7, <3>1, ReleaseForgets, ForgetKeepsShape DEF SaveFails, Fails, TypeOK
    <3>2. CASE ~(Release(p) /\ UNCHANGED failed)
      BY <2>7, <3>2 DEF SaveFails, Fails, Goto, TypeOK, JobsAreWrites, DownIsEmpty, Writing, Steps
    <3>3. QED
      BY <3>1, <3>2
  <2>8. CASE Write(p)
    <3>1. ASSUME NEW n \in Names, BeginWrite(p, n) PROVE ShapeInv'
      BY <3>1 DEF BeginWrite, Goto, TypeOK, JobsAreWrites, DownIsEmpty, Writing, Steps
    <3>2. CASE Admit(p)
      BY <3>2 DEF Admit, Goto, TypeOK, JobsAreWrites, DownIsEmpty, Writing, Steps
    <3>3. CASE OverQuota(p)
      BY <3>3 DEF OverQuota, WriteThrows, Goto, TypeOK, JobsAreWrites, DownIsEmpty, Writing, Steps
    <3>4. CASE Place(p)
      BY <3>4 DEF Place, Goto, TypeOK, JobsAreWrites, DownIsEmpty, Writing, Steps, FileStates
    <3>5. CASE PlaceFails(p)
      BY <3>5 DEF PlaceFails, Fails, WriteThrows, Goto, TypeOK, JobsAreWrites, DownIsEmpty, Writing, Steps
    <3>6. CASE Commit(p)
      <4>1. job[p] \in Names
        BY <3>6 DEF Commit, TypeOK, JobsAreWrites, Writing
      <4>2. QED
        BY <3>6, <4>1 DEF Commit, Record, Goto, TypeOK, JobsAreWrites, DownIsEmpty, Writing, Steps
    <3>7. CASE CommitFails(p)
      BY <3>7 DEF CommitFails, Rollback, Without, Fails, WriteThrows, Goto, TypeOK,
                  JobsAreWrites, DownIsEmpty, Writing, Steps, FileStates
    <3>8. QED
      BY <2>8, <3>1, <3>2, <3>3, <3>4, <3>5, <3>6, <3>7 DEF Write
  <2>9. ASSUME NEW n \in Names, ReadDrops(p, n) PROVE ShapeInv'
    BY <2>9, UnlinkEachType DEF ReadDrops, Goto, TypeOK, JobsAreWrites, DownIsEmpty, Writing, Steps
  <2>10. CASE Close(p)
    BY <2>10, ReleaseForgets, ForgetKeepsShape DEF Close, TypeOK
  <2>11. CASE Crash(p)
    <3>1. pc[p] = "commit" => job[p] \in Names
      BY DEF TypeOK, JobsAreWrites, Writing
    <3>2. QED
      BY <2>11, <3>1, ForgetKeepsShape DEF Crash, Left, TypeOK
  <2>12. QED
    BY <1>2, <2>1, <2>2, <2>3, <2>4, <2>5, <2>6, <2>7, <2>8, <2>9, <2>10, <2>11, <2>13, <2>14,
       <2>15 DEF Step, Construct
<1>3. CASE Environment
  BY <1>3 DEF Environment, RemoveLock, Unaware, Tick, Tamper, TypeOK, JobsAreWrites, DownIsEmpty, Writing,
              FileStates
<1>4. QED
  BY <1>1, <1>2, <1>3, NextSplits

LEMMA ShapeInit == Init => ShapeInv
<1> SUFFICES ASSUME Init PROVE ShapeInv
  OBVIOUS
<1>1. TypeOK
  BY DEF Init, TypeOK, FileStates, Steps
<1>2. JobsAreWrites /\ DownIsEmpty
  BY DEF Init, JobsAreWrites, DownIsEmpty, Writing
<1>3. QED
  BY <1>1, <1>2 DEF ShapeInv

LEMMA ShapeInvariant == Spec => []ShapeInv
BY ShapeInit, ShapeStep, PTL DEF Spec

-----------------------------------------------------------------------------
(***************************************************************************)
(* Ownership.  What any step of a process leaves alone: the memory of the  *)
(* other processes, and a lock that is not its own.                        *)
(***************************************************************************)
LEMMA StepFrame ==
    ASSUME ShapeInv, NEW p \in Procs, Step(p)
    PROVE  /\ \A q \in Procs \ {p} : /\ pc'[q] = pc[q] /\ records'[q] = records[q]
                                     /\ job'[q] = job[q] /\ after'[q] = after[q]
           /\ UNCHANGED <<clock, tampered, usurped>>
           /\ \/ lock = None /\ lock' = p /\ pc[p] = "down" /\ pc'[p] = "mark"
              \/ pc[p] # "down" /\ lock' = lock /\ (pc'[p] = "down" => lock # p)
              \/ pc[p] # "down" /\ pc'[p] = "down" /\ lock' = Left(p)
              \/ pc[p] = "unlink" /\ pc'[p] = "down" /\ lock' = None
<1> USE MarkersAreNotProcesses
    DEF ShapeInv, TypeOK, disk, memory, history, bounds, Goto, Forget, Release, OwnsLock, Left
<1>1. CASE Acquire(p) \/ Mark(p) \/ MarkFails(p)
  BY <1>1 DEF Acquire, LockFree, Mark, MarkFails
<1>2. CASE LoadManifest(p) \/ LoadRefuses(p)
  BY <1>2 DEF LoadManifest, LoadRefuses
<1>3. CASE Reconcile(p) \/ Sweep(p) \/ Save(p)
  BY <1>3 DEF Reconcile, Sweep, Save, Resume
<1>4. CASE SaveFails(p)
  BY <1>4 DEF SaveFails
<1>5. CASE Write(p)
  BY <1>5 DEF Write, BeginWrite, Admit, OverQuota, Place, PlaceFails, Commit, CommitFails,
              WriteThrows, Record, Rollback
<1>6. ASSUME NEW n \in Names, ReadDrops(p, n) PROVE pc[p] = "open" /\ pc' = [pc EXCEPT ![p] = "save"]
  BY <1>6 DEF ReadDrops
<1>7. CASE \E n \in Names : ReadDrops(p, n)
  BY <1>6, <1>7 DEF ReadDrops
<1>8. CASE Close(p) \/ Unlink(p) \/ Crash(p)
  BY <1>8 DEF Close, Unlink, Crash
<1>9. QED
  BY <1>1, <1>2, <1>3, <1>4, <1>5, <1>7, <1>8 DEF Step, Construct

\* Unless a lock in use is removed, a process that is up holds the lock.
LockIsHeld == ~usurped => \A p \in Procs : pc[p] # "down" => lock = p

LEMMA OwnershipStep == ShapeInv /\ LockIsHeld /\ [Next]_vars => LockIsHeld'
<1> SUFFICES ASSUME ShapeInv, LockIsHeld, [Next]_vars, ~usurped', NEW p \in Procs, pc'[p] # "down"
             PROVE  lock' = p
  BY DEF LockIsHeld
<1> USE MarkersAreNotProcesses DEF LockIsHeld
<1>1. CASE UNCHANGED vars
  BY <1>1 DEF vars, disk, memory, history
<1>2. ASSUME NEW q \in Procs, Step(q) PROVE lock' = p
  BY <1>2, StepFrame
<1>3. CASE Environment
  BY <1>3 DEF Environment, RemoveLock, Tick, Tamper, disk, memory, history, ShapeInv, TypeOK
<1>4. QED
  BY <1>1, <1>2, <1>3, NextSplits

LEMMA OwnershipInvariant == Spec => [](ShapeInv /\ LockIsHeld)
<1>1. Init => LockIsHeld
  BY DEF Init, LockIsHeld
<1>2. QED
  BY <1>1, ShapeInvariant, OwnershipStep, PTL DEF Spec

\* At most one process works on the directory, through crashes and restarts.
THEOREM OneOwner == Spec => []SingleOwner
<1>1. LockIsHeld => SingleOwner
  BY DEF LockIsHeld, SingleOwner
<1>2. QED
  BY <1>1, OwnershipInvariant, PTL

(***************************************************************************)
(* A process that is about to unlink its lock, or that has not written it  *)
(* yet, holds it or is known to have lost it: whoever removes its lock     *)
(* there, the operator or a store that was itself overtaken, records it.   *)
(***************************************************************************)
LocksAreKnown == \A p \in Procs : pc[p] \in {"mark", "unlink"} /\ p \notin overtaken => lock = p

LEMMA StepOvertakes ==
    ASSUME ShapeInv, NEW p \in Procs, Step(p)
    PROVE  /\ overtaken \ {p} \subseteq overtaken'
           /\ \/ lock' = lock
              \/ lock \in {None, p}
              \/ Unaware \ {p} \subseteq overtaken'
           /\ pc'[p] \in {"mark", "unlink"} =>
                 lock' = p \/ (pc[p] = "mark" /\ lock' = lock /\ overtaken' = overtaken)
<1> USE DEF ShapeInv, TypeOK, disk, memory, history, bounds, Goto, Forget, Release, OwnsLock, Left
<1>1. CASE Construct(p)
  BY <1>1 DEF Construct, Acquire, LockFree, Mark, MarkFails, LoadManifest, LoadRefuses, Reconcile
<1>2. CASE Sweep(p) \/ Save(p) \/ SaveFails(p)
  BY <1>2 DEF Sweep, Save, Resume, SaveFails
<1>3. CASE Write(p)
  BY <1>3 DEF Write, BeginWrite, Admit, OverQuota, Place, PlaceFails, Commit, CommitFails, WriteThrows
<1>4. CASE \E n \in Names : ReadDrops(p, n)
  BY <1>4 DEF ReadDrops
<1>5. CASE Close(p) \/ Unlink(p) \/ Crash(p)
  BY <1>5 DEF Close, Unlink, Crash
<1>6. QED
  BY <1>1, <1>2, <1>3, <1>4, <1>5 DEF Step

LEMMA LocksAreKnownStep == ShapeInv /\ LocksAreKnown /\ [Next]_vars => LocksAreKnown'
<1> SUFFICES ASSUME ShapeInv, LocksAreKnown, [Next]_vars, NEW p \in Procs,
                    pc'[p] \in {"mark", "unlink"}, p \notin overtaken'
             PROVE  lock' = p
  BY DEF LocksAreKnown
<1>1. CASE UNCHANGED vars
  BY <1>1 DEF vars, disk, memory, history, LocksAreKnown
<1>2. CASE Step(p)
  BY <1>2, StepOvertakes DEF LocksAreKnown
<1>3. ASSUME NEW q \in Procs, q # p, Step(q) PROVE lock' = p
  <2>1. pc[p] = pc'[p] /\ p \notin overtaken
    BY <1>3, StepFrame, StepOvertakes
  <2>2. lock = p /\ p \in Unaware
    BY <2>1 DEF LocksAreKnown, Unaware
  <2>3. QED
    BY <1>3, <2>2, StepOvertakes, MarkersAreNotProcesses
<1>4. CASE Environment
  BY <1>4 DEF Environment, RemoveLock, Unaware, Tick, Tamper, disk, memory, history, LocksAreKnown
<1>5. QED
  BY <1>1, <1>2, <1>3, <1>4, NextSplits

\* No process removes the lock file of another, also after its own was removed,
\* unless that happened between its last look at the lock and its unlink.
THEOREM LocksAreRespected == Spec => OnlyOwnerReleases
<1>1. ASSUME ShapeInv, LocksAreKnown, [Next]_vars, NEW p \in Procs, NEW q \in Procs, p # q,
             p \notin overtaken, pc'[p] # pc[p], lock = q
      PROVE  lock' = q
  <2>1. CASE UNCHANGED vars
    BY <1>1, <2>1 DEF vars, memory
  <2>2. ASSUME NEW r \in Procs, Step(r) PROVE lock' = q
    <3>1. r = p
      BY <1>1, <2>2, StepFrame
    <3>2. pc[p] = "unlink" => lock = p
      BY <1>1 DEF LocksAreKnown
    <3>3. QED
      BY <1>1, <2>2, <3>1, <3>2, StepFrame, MarkersAreNotProcesses DEF Left
  <2>3. CASE Environment
    BY <1>1, <2>3 DEF Environment, RemoveLock, Tick, Tamper, memory
  <2>4. QED
    BY <1>1, <2>1, <2>2, <2>3, NextSplits
<1>2. ShapeInv /\ LocksAreKnown /\ [Next]_vars
        => [\A p, q \in Procs :
               p # q /\ p \notin overtaken /\ pc'[p] # pc[p] /\ lock = q => lock' = q]_vars
  BY <1>1
<1>3. Init => LocksAreKnown
  BY DEF Init, LocksAreKnown
<1>4. QED
  BY <1>2, <1>3, ShapeInvariant, LocksAreKnownStep, PTL DEF Spec, OnlyOwnerReleases

-----------------------------------------------------------------------------
(***************************************************************************)
(* Durability.  AcknowledgedSurvives is not inductive alone: a commit would *)
(* acknowledge a file it never placed, and a rollback could remove one that *)
(* had been acknowledged.  The strengthening follows the life of a name:    *)
(* nothing lists it before its quota was granted nor while its write is     *)
(* under way, no file has its name before it is placed, and a placed file   *)
(* stays good until somebody else touches it.                               *)
(***************************************************************************)
DiskInv ==
    /\ \A n \in manifest \cup acked : expiry[n] # 0
    /\ failed \cap manifest = {}
    /\ \A n \in acked \ tampered : ~Expired(n) => files[n] = "good" /\ n \in manifest
    /\ \A n \in Names : expiry[n] = 0 \/ (n \in failed /\ faults < 2) => ~Present(n)

MemoryInv(p) ==
    /\ \A n \in records[p] : expiry[n] # 0
    /\ failed \cap records[p] = {}
    /\ Writing(p) => job[p] \notin manifest \cup records[p] \cup acked \cup failed
    /\ pc[p] \in {"place", "commit"} => expiry[job[p]] # 0
    /\ pc[p] = "commit" => job[p] \in tampered \/ files[job[p]] = "good"
    /\ Writing(p) /\ pc[p] # "commit" => ~Present(job[p])
    /\ Loaded(p) =>
          \A n \in acked \ tampered : ~Expired(n) => n \in records[p]

DurableInv == ~usurped => DiskInv /\ \A p \in Procs : MemoryInv(p)

\* The other processes are down, and stay so, during a step of one process.
LEMMA OthersAreDown ==
    ASSUME ShapeInv, LockIsHeld, ~usurped, NEW p \in Procs, Step(p), NEW q \in Procs, q # p
    PROVE  /\ pc[q] = "down" /\ records[q] = {} /\ ~Writing(q)
           /\ pc'[q] = "down" /\ records'[q] = {} /\ ~Writing(q)'
<1>1. pc[q] = "down"
  BY StepFrame, MarkersAreNotProcesses DEF LockIsHeld
<1>2. QED
  BY <1>1, StepFrame DEF ShapeInv, DownIsEmpty, Writing

\* A step of the process that is up keeps the disk and its memory consistent.
LEMMA StepKeepsLedger ==
    ASSUME ShapeInv, ShapeInv', NEW p \in Procs, Step(p), DiskInv, MemoryInv(p)
    PROVE  DiskInv' /\ MemoryInv(p)'
<1> USE DEF ShapeInv, TypeOK, DiskInv, MemoryInv, disk, memory, history, bounds, Goto, Expired,
            Present, Loaded
<1>0. UNCHANGED <<clock, tampered>>
  BY StepFrame
<1>j. Writing(p) => job[p] \in Names
  BY DEF JobsAreWrites
<1>1. CASE Acquire(p) \/ Mark(p) \/ MarkFails(p)
  BY <1>1 DEF Acquire, LockFree, Mark, MarkFails, Fails, Writing, DownIsEmpty
<1>2. CASE LoadManifest(p)
  BY <1>2 DEF LoadManifest, Kept, Writing
<1>3. CASE LoadRefuses(p)
  BY <1>3, ReleaseForgets DEF LoadRefuses, Forget, Writing
<1>4. CASE Reconcile(p)
  BY <1>4, UnlinkEachType DEF Reconcile, Orphans, Writing
<1>5. CASE Sweep(p)
  <2>1. DiskInv'
    BY <1>5, UnlinkEachType DEF Sweep
  <2>2. /\ Writing(p)' => Writing(p)
        /\ pc'[p] \notin {"place", "commit"} /\ UNCHANGED <<job, expiry, manifest, acked, failed>>
        /\ records'[p] = {n \in records[p] : ~Expired(n)}
    BY <1>5 DEF Sweep, Resume, Writing
  <2>3. pc[p] = "sweep" /\ \A n \in Names : files'[n] = files[n] \/ files'[n] = "absent"
    BY <1>5, UnlinkEachType DEF Sweep
  <2>4. MemoryInv(p)'
    BY <1>j, <2>2, <2>3, <1>0
  <2>5. QED
    BY <2>1, <2>4
<1>6. CASE Save(p)
  BY <1>6 DEF Save, Resume, Writing
<1>7. CASE SaveFails(p)
  <2>1. CASE Release(p) /\ UNCHANGED failed
    BY <1>7, <2>1, ReleaseForgets DEF SaveFails, Fails, Forget, Writing
  <2>2. CASE ~(Release(p) /\ UNCHANGED failed)
    BY <1>7, <1>j, <2>2 DEF SaveFails, Fails, Writing
  <2>3. QED
    BY <2>1, <2>2
<1>8. CASE Write(p)
  <2>1. ASSUME NEW n \in Names, BeginWrite(p, n) PROVE DiskInv' /\ MemoryInv(p)'
    BY <2>1 DEF BeginWrite, Writing
  <2>2. CASE Admit(p)
    BY <2>2, <1>j DEF Admit, Writing
  <2>3. CASE OverQuota(p)
    BY <2>3, <1>j DEF OverQuota, WriteThrows, Writing
  <2>4. CASE Place(p)
    BY <2>4, <1>j DEF Place, Writing
  <2>5. CASE PlaceFails(p)
    BY <2>5, <1>j DEF PlaceFails, Fails, WriteThrows, Writing
  <2>6. CASE Commit(p)
    BY <2>6, <1>j DEF Commit, Record, Writing
  <2>7. CASE CommitFails(p)
    BY <2>7, <1>j DEF CommitFails, Rollback, Without, Fails, WriteThrows, Writing
  <2>8. QED
    BY <1>8, <2>1, <2>2, <2>3, <2>4, <2>5, <2>6, <2>7 DEF Write
<1>9. ASSUME NEW n \in Names, ReadDrops(p, n) PROVE DiskInv' /\ MemoryInv(p)'
  BY <1>9, UnlinkEachType DEF ReadDrops, Servable, Writing
<1>10. CASE Close(p) \/ Unlink(p)
  BY <1>10, ReleaseForgets DEF Close, Unlink, Fails, Succeeds, Forget, Writing
<1>11. CASE Crash(p)
  BY <1>11, <1>j DEF Crash, Forget, Writing
<1>12. QED
  BY <1>1, <1>2, <1>3, <1>4, <1>5, <1>6, <1>7, <1>8, <1>9, <1>10, <1>11 DEF Step, Construct

LEMMA LedgerStep == ShapeInv /\ LockIsHeld /\ DurableInv /\ [Next]_vars => DurableInv'
<1> SUFFICES ASSUME ShapeInv, LockIsHeld, DurableInv, [Next]_vars, ~usurped'
             PROVE  DiskInv' /\ \A p \in Procs : MemoryInv(p)'
  BY DEF DurableInv
<1> USE DEF disk, memory, history, bounds
<1>1. CASE UNCHANGED vars
  BY <1>1 DEF vars, DurableInv, DiskInv, MemoryInv, Writing, Expired, Present, Loaded
<1>2. ASSUME NEW p \in Procs, Step(p) PROVE DiskInv' /\ \A q \in Procs : MemoryInv(q)'
  <2>1. ~usurped
    BY <1>2, StepFrame
  <2>2. DiskInv' /\ MemoryInv(p)'
    BY <1>2, <2>1, ShapeStep, StepKeepsLedger DEF DurableInv
  <2>3. ASSUME NEW q \in Procs, q # p PROVE MemoryInv(q)'
    BY <1>2, <2>1, <2>3, OthersAreDown DEF MemoryInv, Loaded
  <2>4. QED
    BY <2>2, <2>3
<1>3. CASE Environment
  <2> USE DEF DurableInv, DiskInv, MemoryInv, Writing, Expired, Present, Loaded, ShapeInv, TypeOK
  <2>1. CASE RemoveLock
    BY <2>1 DEF RemoveLock
  <2>2. CASE Tick
    BY <2>2 DEF Tick
  <2>3. ASSUME NEW n \in Names, Tamper(n) PROVE DiskInv' /\ \A p \in Procs : MemoryInv(p)'
    BY <2>3 DEF Tamper
  <2>4. QED
    BY <1>3, <2>1, <2>2, <2>3 DEF Environment
<1>4. QED
  BY <1>1, <1>2, <1>3, NextSplits

LEMMA InitIsSound == Init => ShapeInv /\ LockIsHeld /\ DurableInv
BY ShapeInit DEF Init, LockIsHeld, DurableInv, DiskInv, MemoryInv, Writing, Present, Loaded

LEMMA DurableInvariant == Spec => [](ShapeInv /\ LockIsHeld /\ DurableInv)
BY InitIsSound, OwnershipInvariant, LedgerStep, PTL DEF Spec

\* An artifact a caller was given is on disk, in the manifest and in the map of
\* every open store until its TTL, through crashes, failures and restarts.
THEOREM AcknowledgedIsDurable == Spec => []AcknowledgedSurvives
<1>1. DurableInv => AcknowledgedSurvives
  BY DEF DurableInv, DiskInv, MemoryInv, AcknowledgedSurvives
<1>2. QED
  BY <1>1, DurableInvariant, PTL

\* A write that threw is in no map and no manifest, then or later, and its file
\* is gone unless the unlink failed as well.
THEOREM FailedIsUndone == Spec => []FailedWriteLeavesNothing
<1>1. ShapeInv /\ DurableInv => FailedWriteLeavesNothing
  BY DEF ShapeInv, TypeOK, DurableInv, DiskInv, MemoryInv, FailedWriteLeavesNothing
<1>2. QED
  BY <1>1, DurableInvariant, PTL

-----------------------------------------------------------------------------
(***************************************************************************)
(* Orphans.  From its reconciliation on, a store knows every file but the  *)
(* one it has just placed, as long as no unlink failed.                    *)
(***************************************************************************)
Reconciled(p) ==
    \/ pc[p] \in {"sweep", "open", "admit", "place", "commit"}
    \/ pc[p] = "save" /\ after[p] # "load"

FilesAreKnown(p) ==
    faults = 0 /\ Reconciled(p) =>
        \A n \in Names : Present(n) => n \in records[p] \/ (pc[p] = "commit" /\ n = job[p])

TidyInv == ~usurped => \A p \in Procs : FilesAreKnown(p)

LEMMA StepKeepsTidy ==
    ASSUME ShapeInv, NEW p \in Procs, Step(p), FilesAreKnown(p)
    PROVE  FilesAreKnown(p)'
<1> USE DEF ShapeInv, TypeOK, FilesAreKnown, Reconciled, Present, disk, memory, history, bounds, Goto
<1>1. CASE Acquire(p) \/ Mark(p) \/ MarkFails(p)
  BY <1>1 DEF Acquire, Mark, MarkFails, Fails
<1>2. CASE LoadManifest(p) \/ LoadRefuses(p)
  BY <1>2, ReleaseForgets DEF LoadManifest, LoadRefuses, Forget
<1>3. CASE Reconcile(p)
  BY <1>3, UnlinkEachType DEF Reconcile, Orphans, Without
<1>4. CASE Sweep(p)
  BY <1>4, UnlinkEachType DEF Sweep, Resume, Without
<1>5. CASE Save(p)
  BY <1>5 DEF Save, Resume
<1>6. CASE SaveFails(p)
  BY <1>6 DEF SaveFails, Fails
<1>7. CASE Write(p)
  <2>1. ASSUME NEW n \in Names, BeginWrite(p, n) PROVE FilesAreKnown(p)'
    BY <2>1 DEF BeginWrite
  <2>2. CASE Admit(p) \/ OverQuota(p)
    BY <2>2 DEF Admit, OverQuota, WriteThrows
  <2>3. CASE Place(p)
    BY <2>3 DEF Place
  <2>4. CASE PlaceFails(p) \/ CommitFails(p)
    BY <2>4 DEF PlaceFails, CommitFails, Rollback, Fails
  <2>5. CASE Commit(p)
    BY <2>5 DEF Commit, Record
  <2>6. QED
    BY <1>7, <2>1, <2>2, <2>3, <2>4, <2>5 DEF Write
<1>8. ASSUME NEW n \in Names, ReadDrops(p, n) PROVE FilesAreKnown(p)'
  BY <1>8, UnlinkEachType DEF ReadDrops, Without
<1>9. CASE Close(p) \/ Unlink(p) \/ Crash(p)
  BY <1>9, ReleaseForgets DEF Close, Unlink, Fails, Succeeds, Crash, Forget
<1>10. QED
  BY <1>1, <1>2, <1>3, <1>4, <1>5, <1>6, <1>7, <1>8, <1>9 DEF Step, Construct

LEMMA TidyStep == ShapeInv /\ LockIsHeld /\ TidyInv /\ [Next]_vars => TidyInv'
<1> SUFFICES ASSUME ShapeInv, LockIsHeld, TidyInv, [Next]_vars, ~usurped', NEW p \in Procs
             PROVE  FilesAreKnown(p)'
  BY DEF TidyInv
<1> USE DEF disk, memory, history, bounds
<1>1. CASE UNCHANGED vars
  BY <1>1 DEF vars, TidyInv, FilesAreKnown, Reconciled, Present
<1>2. ASSUME NEW q \in Procs, Step(q) PROVE FilesAreKnown(p)'
  <2>1. ~usurped
    BY <1>2, StepFrame
  <2>2. QED
    BY <1>2, <2>1, StepKeepsTidy, OthersAreDown DEF TidyInv, FilesAreKnown, Reconciled
<1>3. CASE Environment
  BY <1>3 DEF Environment, RemoveLock, Tick, Tamper, TidyInv, FilesAreKnown, Reconciled, Present,
              ShapeInv, TypeOK
<1>4. QED
  BY <1>1, <1>2, <1>3, NextSplits

\* While no file operation fails, an open store has a record for every artifact
\* file, also one that a crashed process left between its two renames.
THEOREM NoOrphans == Spec => []NoOrphanFiles
<1>1. Init => TidyInv
  BY DEF Init, TidyInv, FilesAreKnown, Present
<1>2. TidyInv => NoOrphanFiles
  BY DEF TidyInv, FilesAreKnown, Reconciled, NoOrphanFiles
<1>3. QED
  BY <1>1, <1>2, OwnershipInvariant, TidyStep, PTL DEF Spec

-----------------------------------------------------------------------------
(***************************************************************************)
(* Sums.  TotalBytes folds over a set in an order of its own; what a quota  *)
(* check relies on, that adding a name adds its size and that a subset      *)
(* weighs no more, is proved by descent to a smallest set without it.       *)
(***************************************************************************)
\* A family of subsets of a finite set that is not empty has a smallest member.
LEMMA SmallestSubset ==
    ASSUME NEW U, IsFiniteSet(U), NEW F, F \subseteq SUBSET U, F # {}
    PROVE  \E S \in F : \A T \in F : T \subseteq S => T = S
<1>1. F \subseteq FiniteSubsetsOf(U)
  BY FS_FiniteSubsetsOfFinite
<1>2. IsWellFoundedOn(StrictSubsetOrdering(U), FiniteSubsetsOf(U))
  BY FS_StrictSubsetOrderingWellFounded
<1>3. \E S \in F : \A T \in F : <<T, S>> \notin StrictSubsetOrdering(U)
  BY <1>1, <1>2, WFMin
<1>4. QED
  BY <1>3 DEF StrictSubsetOrdering

Pick(s) == CHOOSE x \in s : TRUE
Rest(s) == s \ {Pick(s)}

\* g is the recursive function that the fold over S applies to S.
IsFold(g, S) ==
    g = [s \in SUBSET S |-> IF s = {} THEN 0 ELSE Size[Pick(s)] + g[Rest(s)]]

LEMMA PickIn == ASSUME NEW s, s # {} PROVE Pick(s) \in s
BY DEF Pick

LEMMA TotalIsFold ==
    ASSUME NEW S
    PROVE  TotalBytes(S) = (CHOOSE g : IsFold(g, S))[S]
BY DEF TotalBytes, MapThenSumSet, MapThenFoldSet, IsFold, Pick, Rest

LEMMA FoldUnique ==
    ASSUME NEW S, IsFiniteSet(S), NEW V, S \subseteq V, NEW g, NEW h, IsFold(g, S), IsFold(h, V)
    PROVE  g[S] = h[S]
<1> DEFINE F == {s \in SUBSET S : g[s] # h[s]}
<1> SUFFICES ASSUME F # {} PROVE FALSE
  OBVIOUS
<1>1. PICK s \in F : \A t \in F : t \subseteq s => t = s
  <2>1. F \subseteq SUBSET S
    OBVIOUS
  <2> HIDE DEF F
  <2>2. QED
    BY <2>1, SmallestSubset
<1>2. s \in SUBSET S /\ s \in SUBSET V /\ g[s] # h[s]
  OBVIOUS
<1>3. s # {}
  BY <1>2 DEF IsFold
<1>4. Rest(s) \subseteq s /\ Rest(s) # s
  BY <1>3, PickIn DEF Rest
<1>5. g[Rest(s)] = h[Rest(s)]
  BY <1>1, <1>2, <1>4
<1>6. g[s] = Size[Pick(s)] + g[Rest(s)] /\ h[s] = Size[Pick(s)] + h[Rest(s)]
  BY <1>2, <1>3 DEF IsFold
<1>7. QED
  BY <1>2, <1>5, <1>6

LEMMA FoldExists ==
    ASSUME NEW S, IsFiniteSet(S)
    PROVE  \E g : IsFold(g, S)
<1> DEFINE F == {s \in SUBSET S : ~ \E g : IsFold(g, s)}
<1> SUFFICES ASSUME F # {} PROVE FALSE
  OBVIOUS
<1>1. PICK s \in F : \A t \in F : t \subseteq s => t = s
  <2>1. F \subseteq SUBSET S
    OBVIOUS
  <2> HIDE DEF F
  <2>2. QED
    BY <2>1, SmallestSubset
<1>2. \A t \in SUBSET s : t # s => \E g : IsFold(g, t)
  BY <1>1
<1> DEFINE fold(t) == CHOOSE g : IsFold(g, t)
           sum(t) == fold(t)[t]
           h == [t \in SUBSET s |-> IF t = {} THEN 0 ELSE Size[Pick(t)] + sum(Rest(t))]
<1>3. \A t \in SUBSET s : t # s => IsFold(fold(t), t)
  BY <1>2
<1>4. ASSUME NEW t \in SUBSET s, t # s PROVE sum(t) = h[t]
  <2>1. CASE t = {}
    <3>1. IsFold(fold(t), t)
      BY <1>3, <1>4
    <3>2. fold(t)[t] = 0
      <4> HIDE DEF fold
      <4> QED BY <2>1, <3>1 DEF IsFold
    <3>3. QED
      BY <2>1, <3>2
  <2>2. CASE t # {}
    <3>1. Rest(t) \subseteq t /\ Rest(t) # t /\ Rest(t) \in SUBSET s /\ Rest(t) # s
      BY <2>2, PickIn DEF Rest
    <3>2. IsFold(fold(t), t) /\ IsFold(fold(Rest(t)), Rest(t))
      BY <1>3, <1>4, <3>1
    <3>3. IsFiniteSet(Rest(t))
      BY <1>1, <3>1, FS_Subset
    <3>4. fold(Rest(t))[Rest(t)] = fold(t)[Rest(t)]
      <4> HIDE DEF fold
      <4> QED BY <3>1, <3>2, <3>3, FoldUnique
    <3>5. fold(t)[t] = Size[Pick(t)] + fold(t)[Rest(t)]
      <4> HIDE DEF fold
      <4> QED BY <2>2, <3>2 DEF IsFold
    <3>6. QED
      BY <2>2, <3>4, <3>5
  <2>3. QED
    BY <2>1, <2>2
<1>5. ASSUME NEW t \in SUBSET s
      PROVE  h[t] = IF t = {} THEN 0 ELSE Size[Pick(t)] + h[Rest(t)]
  <2>1. CASE t = {}
    BY <2>1
  <2>2. CASE t # {}
    <3>1. Rest(t) \in SUBSET s /\ Rest(t) # s
      BY <2>2, PickIn DEF Rest
    <3>2. sum(Rest(t)) = h[Rest(t)]
      BY <1>4, <3>1
    <3>3. h[t] = Size[Pick(t)] + sum(Rest(t))
      BY <2>2
    <3>4. QED
      BY <2>2, <3>2, <3>3
  <2>3. QED
    BY <2>1, <2>2
<1>6. IsFold(h, s)
  <2> DEFINE k == [t \in SUBSET s |-> IF t = {} THEN 0 ELSE Size[Pick(t)] + h[Rest(t)]]
  <2>1. DOMAIN h = SUBSET s /\ h = [t \in SUBSET s |-> h[t]]
    OBVIOUS
  <2>2. h = k
    <3> HIDE DEF h
    <3> QED BY <1>5, <2>1
  <2>3. QED
    BY <2>2 DEF IsFold
<1>7. QED
  <2> HIDE DEF h
  <2> QED BY <1>1, <1>6

\* What the code's sum over a set of names is: it does not depend on the order.
LEMMA TotalStep ==
    ASSUME NEW S, IsFiniteSet(S)
    PROVE  /\ S = {} => TotalBytes(S) = 0
           /\ S # {} => TotalBytes(S) = Size[Pick(S)] + TotalBytes(Rest(S))
<1> DEFINE fold(T) == CHOOSE g : IsFold(g, T)
<1>1. \A T \in SUBSET S : IsFold(fold(T), T) /\ TotalBytes(T) = fold(T)[T]
  BY FS_Subset, FoldExists, TotalIsFold
<1> HIDE DEF fold
<1>2. CASE S = {}
  BY <1>1, <1>2 DEF IsFold
<1>3. CASE S # {}
  <2>1. Rest(S) \subseteq S /\ IsFiniteSet(Rest(S)) /\ S \in SUBSET S /\ Rest(S) \in SUBSET S
    BY FS_Subset DEF Rest
  <2>2. fold(Rest(S))[Rest(S)] = fold(S)[Rest(S)]
    BY <1>1, <2>1, FoldUnique
  <2>3. fold(S)[S] = Size[Pick(S)] + fold(S)[Rest(S)]
    BY <1>1, <1>3, <2>1 DEF IsFold
  <2>4. QED
    BY <1>1, <1>3, <2>1, <2>2, <2>3
<1>4. QED
  BY <1>2, <1>3

LEMMA TotalType ==
    ASSUME NEW S \in SUBSET Names, IsFiniteSet(S)
    PROVE  TotalBytes(S) \in Nat
<1> DEFINE F == {T \in SUBSET S : TotalBytes(T) \notin Nat}
<1> SUFFICES ASSUME F # {} PROVE FALSE
  OBVIOUS
<1>1. PICK T \in F : \A V \in F : V \subseteq T => V = T
  <2>1. F \subseteq SUBSET S
    OBVIOUS
  <2> HIDE DEF F
  <2>2. QED
    BY <2>1, SmallestSubset
<1>2. T \in SUBSET S /\ IsFiniteSet(T) /\ TotalBytes(T) \notin Nat
  BY FS_Subset
<1>3. T # {}
  BY <1>2, TotalStep
<1>4. Pick(T) \in Names /\ Rest(T) \in SUBSET S /\ Rest(T) \subseteq T /\ Rest(T) # T
  BY <1>2, <1>3, PickIn DEF Rest
<1>5. TotalBytes(Rest(T)) \in Nat
  BY <1>1, <1>4
<1>6. QED
  BY <1>2, <1>3, <1>4, <1>5, TotalStep, LimitsArePositive

LEMMA TotalRemove ==
    ASSUME NEW S \in SUBSET Names, IsFiniteSet(S), NEW n \in S
    PROVE  TotalBytes(S) = Size[n] + TotalBytes(S \ {n})
<1> DEFINE F == {T \in SUBSET S : \E x \in T : TotalBytes(T) # Size[x] + TotalBytes(T \ {x})}
<1> SUFFICES ASSUME F # {} PROVE FALSE
  OBVIOUS
<1>1. PICK T \in F : \A V \in F : V \subseteq T => V = T
  <2>1. F \subseteq SUBSET S
    OBVIOUS
  <2> HIDE DEF F
  <2>2. QED
    BY <2>1, SmallestSubset
<1>2. T \in SUBSET S /\ IsFiniteSet(T)
  BY FS_Subset
<1>3. PICK x \in T : TotalBytes(T) # Size[x] + TotalBytes(T \ {x})
  OBVIOUS
<1> DEFINE c == Pick(T)
<1>4. c \in T /\ x # c /\ TotalBytes(T) = Size[c] + TotalBytes(T \ {c})
  BY <1>2, <1>3, PickIn, TotalStep DEF Rest
<1>s. ASSUME NEW V \in SUBSET T, V # T, NEW y \in V
      PROVE  TotalBytes(V) = Size[y] + TotalBytes(V \ {y})
  BY <1>1, <1>2, <1>s
<1>5. TotalBytes(T \ {c}) = Size[x] + TotalBytes((T \ {c}) \ {x})
  <2>1. T \ {c} \in SUBSET T /\ T \ {c} # T /\ x \in T \ {c}
    BY <1>4
  <2>2. QED
    BY <1>s, <2>1
<1>6. TotalBytes(T \ {x}) = Size[c] + TotalBytes((T \ {x}) \ {c})
  <2>1. T \ {x} \in SUBSET T /\ T \ {x} # T /\ c \in T \ {x}
    BY <1>4
  <2>2. QED
    BY <1>s, <2>1
<1>7. (T \ {c}) \ {x} = (T \ {x}) \ {c}
  OBVIOUS
<1>8. Size[x] \in Nat /\ Size[c] \in Nat /\ TotalBytes((T \ {c}) \ {x}) \in Nat
  BY <1>2, <1>4, FS_Subset, TotalType, LimitsArePositive
<1> HIDE DEF c
<1>9. TotalBytes(T \ {x}) = Size[c] + TotalBytes((T \ {c}) \ {x})
  BY <1>6, <1>7
<1>10. TotalBytes(T) = Size[x] + TotalBytes(T \ {x})
  <2>1. Size[c] + (Size[x] + TotalBytes((T \ {c}) \ {x})) = Size[x] + (Size[c] + TotalBytes((T \ {c}) \ {x}))
    BY <1>8
  <2>2. QED
    BY <1>4, <1>5, <1>9, <2>1
<1>11. QED
  BY <1>3, <1>10

LEMMA TotalAdd ==
    ASSUME NEW S \in SUBSET Names, IsFiniteSet(S), NEW n \in Names, n \notin S
    PROVE  TotalBytes(S \cup {n}) = TotalBytes(S) + Size[n]
<1>1. (S \cup {n}) \ {n} = S /\ IsFiniteSet(S \cup {n}) /\ S \cup {n} \in SUBSET Names
  BY FS_AddElement
<1>2. TotalBytes(S) \in Nat /\ Size[n] \in Nat
  BY TotalType, LimitsArePositive
<1>3. QED
  BY <1>1, <1>2, TotalRemove

LEMMA TotalMonotone ==
    ASSUME NEW S \in SUBSET Names, IsFiniteSet(S), NEW V \in SUBSET S
    PROVE  TotalBytes(V) <= TotalBytes(S)
<1> DEFINE F == {T \in SUBSET S : V \subseteq T /\ ~(TotalBytes(V) <= TotalBytes(T))}
<1> SUFFICES ASSUME F # {} PROVE FALSE
  OBVIOUS
<1>1. PICK T \in F : \A W \in F : W \subseteq T => W = T
  <2>1. F \subseteq SUBSET S
    OBVIOUS
  <2> HIDE DEF F
  <2>2. QED
    BY <2>1, SmallestSubset
<1>2. T \in SUBSET S /\ IsFiniteSet(T) /\ V \subseteq T /\ IsFiniteSet(V)
  BY FS_Subset
<1>3. TotalBytes(V) \in Nat /\ TotalBytes(T) \in Nat /\ ~(TotalBytes(V) <= TotalBytes(T))
  BY <1>2, TotalType
<1>4. PICK x \in T : x \notin V
  <2>1. T # V
    BY <1>3
  <2>2. QED
    BY <1>2, <2>1
<1>5. TotalBytes(V) <= TotalBytes(T \ {x})
  BY <1>1, <1>2, <1>4
<1>6. TotalBytes(T) = Size[x] + TotalBytes(T \ {x}) /\ Size[x] \in Nat /\ TotalBytes(T \ {x}) \in Nat
  BY <1>2, <1>4, FS_Subset, TotalRemove, TotalType, LimitsArePositive
<1>7. QED
  BY <1>3, <1>5, <1>6

-----------------------------------------------------------------------------
(***************************************************************************)
(* Quotas.  Every map is within the limits of its process, and so is the   *)
(* manifest within those of the process that saved it last; a write that   *)
(* passed the two checks still fits when it commits.                       *)
(***************************************************************************)
LimitsInv ==
    ~usurped =>
        /\ IsFiniteSet(manifest)
        /\ manifest # {} => \E p \in Procs : WithinLimits(p, manifest)
        /\ \A p \in Procs :
              /\ IsFiniteSet(records[p]) /\ WithinLimits(p, records[p])
              /\ pc[p] \in {"place", "commit"} => WithinQuota(p)

\* A subset of what is within the limits is within them.
LEMMA SubsetWithinLimits ==
    ASSUME NEW p \in Procs, NEW S \in SUBSET Names, IsFiniteSet(S), WithinLimits(p, S), NEW V \in SUBSET S
    PROVE  IsFiniteSet(V) /\ WithinLimits(p, V)
<1>1. IsFiniteSet(V) /\ Cardinality(V) <= Cardinality(S) /\ TotalBytes(V) <= TotalBytes(S)
  BY FS_Subset, TotalMonotone
<1>2. /\ Cardinality(V) \in Nat /\ Cardinality(S) \in Nat
      /\ TotalBytes(V) \in Nat /\ TotalBytes(S) \in Nat
  BY <1>1, FS_CardinalityType, TotalType
<1>3. QED
  BY <1>1, <1>2 DEF WithinLimits

\* What the two quota checks let through is within the limits afterwards.
LEMMA AdmittedFits ==
    ASSUME ShapeInv, NEW p \in Procs, job[p] \in Names, job[p] \notin records[p],
           IsFiniteSet(records[p]), WithinQuota(p)
    PROVE  /\ IsFiniteSet(records[p] \cup {job[p]})
           /\ WithinLimits(p, records[p] \cup {job[p]})
<1>1. records[p] \in SUBSET Names
  BY DEF ShapeInv, TypeOK
<1>2. Cardinality(records[p]) \in Nat
  BY FS_CardinalityType
<1>3. /\ IsFiniteSet(records[p] \cup {job[p]})
      /\ Cardinality(records[p] \cup {job[p]}) = Cardinality(records[p]) + 1
  BY FS_AddElement
<1>4. TotalBytes(records[p] \cup {job[p]}) = TotalBytes(records[p]) + Size[job[p]]
  BY <1>1, TotalAdd
<1>5. QED
  BY <1>2, <1>3, <1>4 DEF WithinLimits, WithinQuota, Fits

LEMMA StepKeepsLimits ==
    ASSUME ShapeInv, NEW p \in Procs, Step(p), ~usurped, LimitsInv, MemoryInv(p), LockIsHeld
    PROVE  LimitsInv'
<1> USE DEF disk, memory, history, bounds, Goto
<1>1. /\ IsFiniteSet(manifest) /\ IsFiniteSet(records[p]) /\ WithinLimits(p, records[p])
      /\ manifest # {} => \E q \in Procs : WithinLimits(q, manifest)
  BY DEF LimitsInv
<1>2. pc[p] = "commit" => /\ IsFiniteSet(records[p] \cup {job[p]})
                          /\ WithinLimits(p, records[p] \cup {job[p]})
  BY AdmittedFits DEF LimitsInv, MemoryInv, Writing, ShapeInv, TypeOK, JobsAreWrites
<1>3. \/ manifest' = manifest
      \/ manifest' = records[p]
      \/ pc[p] = "commit" /\ manifest' = records[p] \cup {job[p]}
  BY DEF Step, Construct, Acquire, Mark, MarkFails, LoadManifest, LoadRefuses, Reconcile, Sweep, Save,
         SaveFails, Write, BeginWrite, Admit, OverQuota, Place, PlaceFails, Commit, Record, CommitFails,
         Rollback, ReadDrops, Close, Unlink, Crash, ShapeInv, TypeOK
<1>4. \/ records'[p] \subseteq records[p]
      \/ ~TooMany(p) /\ ~TooLarge(p) /\ records'[p] = Kept(p)
      \/ pc[p] = "commit" /\ records'[p] = records[p] \cup {job[p]}
  <2> USE DEF ShapeInv, TypeOK
  <2>1. CASE Construct(p)
    BY <2>1, ReleaseForgets DEF Construct, Acquire, Mark, MarkFails, LoadManifest, LoadRefuses, Forget,
                                Reconcile
  <2>2. CASE Sweep(p) \/ Save(p) \/ SaveFails(p)
    BY <2>2, ReleaseForgets DEF Sweep, Save, SaveFails, Forget
  <2>3. CASE Write(p)
    BY <2>3 DEF Write, BeginWrite, Admit, OverQuota, Place, PlaceFails, WriteThrows, Commit,
                Record, CommitFails, Rollback
  <2>4. CASE \E n \in Names : ReadDrops(p, n)
    BY <2>4 DEF ReadDrops
  <2>5. CASE Close(p) \/ Unlink(p) \/ Crash(p)
    BY <2>5, ReleaseForgets DEF Close, Unlink, Crash, Forget
  <2>6. QED
    BY <2>1, <2>2, <2>3, <2>4, <2>5 DEF Step
<1>5. TypeOK /\ \A q \in Procs : q # p => records'[q] = {} /\ pc'[q] = "down"
  BY OthersAreDown DEF ShapeInv
<1>6. IsFiniteSet(manifest') /\ (manifest' # {} => \E q \in Procs : WithinLimits(q, manifest'))
  BY <1>1, <1>2, <1>3
<1>7. IsFiniteSet(records'[p]) /\ WithinLimits(p, records'[p])
  <2>1. CASE records'[p] \subseteq records[p]
    BY <1>1, <1>5, <2>1, SubsetWithinLimits DEF TypeOK
  <2>2. CASE ~TooMany(p) /\ ~TooLarge(p) /\ records'[p] = Kept(p)
    <3>1. IsFiniteSet(Kept(p)) /\ Cardinality(Kept(p)) <= Cardinality(manifest)
      BY <1>1, FS_Subset DEF Kept
    <3>2. Kept(p) \in SUBSET Names
      BY <1>5 DEF Kept, TypeOK
    <3>3. /\ Cardinality(Kept(p)) \in Nat /\ Cardinality(manifest) \in Nat
          /\ TotalBytes(Kept(p)) \in Nat
      BY <1>1, <3>1, <3>2, FS_CardinalityType, TotalType
    <3>4. QED
      BY <2>2, <3>1, <3>3 DEF TooMany, TooLarge, WithinLimits
  <2>3. QED
    BY <1>2, <1>4, <2>1, <2>2
<1>8. pc'[p] \in {"place", "commit"} => WithinQuota(p)'
  <2>1. pc'[p] \in {"place", "commit"} => Admit(p) \/ Place(p)
    BY <1>5, ReleaseForgets DEF Step, Construct, Acquire, Mark, MarkFails, LoadManifest, LoadRefuses,
            Forget, Reconcile, Sweep, Save, Resume, SaveFails, Write, BeginWrite, OverQuota, PlaceFails,
            WriteThrows, Commit, CommitFails, ReadDrops, Close, Unlink, Crash, TypeOK
  <2>2. Admit(p) \/ Place(p) => WithinQuota(p) /\ records' = records /\ job' = job
    BY DEF Admit, Place, LimitsInv
  <2>3. QED
    BY <2>1, <2>2 DEF WithinQuota, Fits
<1>9. ASSUME NEW q \in Procs, q # p
      PROVE  /\ IsFiniteSet(records'[q]) /\ WithinLimits(q, records'[q])
             /\ pc'[q] \notin {"place", "commit"}
  BY <1>5, <1>9, FS_EmptySet, TotalStep DEF WithinLimits
<1>10. QED
  BY <1>6, <1>7, <1>8, <1>9 DEF LimitsInv, WithinLimits

LEMMA LimitsStep ==
    ShapeInv /\ LockIsHeld /\ DurableInv /\ LimitsInv /\ [Next]_vars => LimitsInv'
<1> SUFFICES ASSUME ShapeInv, LockIsHeld, DurableInv, LimitsInv, [Next]_vars PROVE LimitsInv'
  OBVIOUS
<1> USE DEF disk, memory, history, bounds
<1>1. CASE UNCHANGED vars
  BY <1>1 DEF vars, LimitsInv, WithinLimits, WithinQuota, Fits
<1>2. ASSUME NEW p \in Procs, Step(p) PROVE LimitsInv'
  <2>1. CASE usurped
    BY <1>2, <2>1, StepFrame DEF LimitsInv
  <2>2. CASE ~usurped
    BY <1>2, <2>2, StepKeepsLimits DEF DurableInv
  <2>3. QED
    BY <2>1, <2>2
<1>3. CASE Environment
  BY <1>3 DEF Environment, RemoveLock, Tick, Tamper, LimitsInv, WithinLimits, WithinQuota, Fits
<1>4. QED
  BY <1>1, <1>2, <1>3, NextSplits

\* What callers can fetch is within the number and the size that the process
\* serving it, and that some process in any case, is configured with.
THEOREM QuotasHold == Spec => []QuotaHolds
<1>1. Init => LimitsInv
  BY FS_EmptySet, TotalStep DEF Init, LimitsInv, WithinLimits
<1>2. ShapeInv /\ DurableInv /\ LimitsInv => QuotaHolds
  <2> SUFFICES ASSUME ShapeInv, DurableInv, LimitsInv, ~usurped, Fetchable # {}
               PROVE  /\ \E p \in Procs : WithinLimits(p, Fetchable)
                      /\ \A p \in Procs : Loaded(p) => WithinLimits(p, Fetchable)
    BY DEF QuotaHolds
  <2>1. Fetchable \subseteq manifest
    BY DEF Fetchable, DurableInv, DiskInv
  <2>2. \A p \in Procs : Loaded(p) => Fetchable \subseteq records[p]
    BY DEF Fetchable, DurableInv, MemoryInv
  <2>3. manifest \in SUBSET Names /\ \A p \in Procs : records[p] \in SUBSET Names
    BY DEF ShapeInv, TypeOK
  <2>4. \E p \in Procs : WithinLimits(p, Fetchable)
    BY <2>1, <2>3, SubsetWithinLimits DEF LimitsInv
  <2>5. \A p \in Procs : Loaded(p) => WithinLimits(p, Fetchable)
    BY <2>2, <2>3, SubsetWithinLimits DEF LimitsInv
  <2>6. QED
    BY <2>4, <2>5
<1>3. QED
  BY <1>1, <1>2, DurableInvariant, LimitsStep, PTL DEF Spec

(***************************************************************************)
(* Reapers of the namespace of a store that may be gone.                   *)
(***************************************************************************)

ReaperTypeOK ==
    /\ dir \in {"unmade", "making", "fresh", "aged", "gone"}
    /\ rpc \in [Reapers -> {"idle", "read", "scan", "rename", "rmdir"}]
    /\ asOf \in [Reapers -> Nat]
    /\ seen \in [Reapers -> SUBSET Names]
    /\ todo \in [Reapers -> SUBSET Names]
    /\ live \in [Reapers -> SUBSET Names]
    /\ crossed \in SUBSET Reapers

\* A reaper enters an abandoned namespace only and takes its lock away.
EntersAbandoned(r) ==
    rpc[r] # "idle" =>
        dir \notin {"unmade", "making"} /\ ~OwnerIsUp /\ lock = None /\ asOf[r] <= clock

\* It keeps what is acknowledged; without faults, what it neither kept nor has
\* still to look at is gone.
KeepsAcknowledged(r) ==
    /\ rpc[r] \in {"idle", "read"} => live[r] = {}
    /\ rpc[r] \notin {"idle", "read"} =>
          /\ live[r] \subseteq seen[r]
          /\ \A n \in seen[r] : expiry[n] # 0 /\ n \notin failed
          /\ \A n \in acked \ tampered :
                ~Expired(n) => n \in seen[r] /\ n \in live[r] \cup todo[r]
          /\ faults = 0 => \A n \in Names : Present(n) => n \in live[r] \cup todo[r]

\* When it comes to the directory, the manifest is gone, or another reaper wrote it.
LeavesNothing(r) ==
    /\ rpc[r] \in {"rename", "rmdir"} => todo[r] = {}
    /\ rpc[r] = "rmdir" => live[r] = {} /\ (faults = 0 /\ r \notin crossed => manifest = {})

ReaperInv(r) == EntersAbandoned(r) /\ KeepsAcknowledged(r) /\ LeavesNothing(r)

NamespaceInv ==
    /\ ShapeInv /\ LockIsHeld /\ DurableInv /\ ~usurped
    /\ ReaperTypeOK
    /\ \A r \in Reapers : ReaperInv(r)

\* What the owner does after it opened is a step of a process that is up.
LEMMA OwnerWorksIsAStep ==
    ASSUME OwnerWorks
    PROVE  /\ \E p \in Procs : Step(p) /\ pc[p] # "down"
           /\ UNCHANGED reaperVars
<1>1. PICK p \in Procs :
          \/ Mark(p) \/ MarkFails(p) \/ LoadManifest(p) \/ Reconcile(p)
          \/ Sweep(p) \/ Save(p) \/ SaveFails(p) \/ Write(p)
          \/ \E n \in Names : ReadDrops(p, n)
          \/ Close(p) \/ Unlink(p) \/ Crash(p)
  BY DEF OwnerWorks
<1>2. Step(p)
  BY <1>1 DEF Step, Construct
<1>3. pc[p] # "down"
  BY <1>1 DEF Mark, MarkFails, LoadManifest, Reconcile, Sweep, Save, SaveFails, Write, BeginWrite,
              Admit, OverQuota, Place, PlaceFails, Commit, CommitFails, ReadDrops, Close, Unlink, Crash
<1>4. QED
  BY <1>2, <1>3 DEF OwnerWorks

\* Seen from the store, a step of the owner or of the world is one of its own.
StoreStep == MakeDir \/ OwnerOpens \/ OwnerWorks \/ Age \/ World \/ UNCHANGED allVars

LEMMA StoreStepIsNext ==
    ASSUME StoreStep
    PROVE  [Next]_vars /\ UNCHANGED reaperVars
<1>1. CASE MakeDir \/ Age \/ UNCHANGED allVars
  BY <1>1 DEF MakeDir, Age, allVars
<1>2. CASE OwnerOpens
  BY <1>2 DEF OwnerOpens, Next, Construct
<1>3. CASE OwnerWorks
  BY <1>3, OwnerWorksIsAStep, NextSplits
<1>4. CASE World
  BY <1>4, NextSplits DEF World, Environment
<1>5. QED
  BY <1>1, <1>2, <1>3, <1>4 DEF StoreStep

\* The owner and the world leave what the reapers rely on alone.
LEMMA StoreStepKeepsReapers ==
    ASSUME NamespaceInv, StoreStep
    PROVE  ~usurped' /\ ReaperTypeOK' /\ \A r \in Reapers : ReaperInv(r)'
<1> USE DEF NamespaceInv, ReaperTypeOK, ReaperInv, EntersAbandoned, KeepsAcknowledged, LeavesNothing,
            disk, memory, history, bounds, reaperVars, visit
<1>1. CASE MakeDir \/ Age \/ UNCHANGED allVars
  BY <1>1 DEF MakeDir, Age, allVars, vars, OwnerIsUp, Expired, Present
<1>2. CASE OwnerOpens
  <2>1. \A r \in Reapers : rpc[r] = "idle"
    BY <1>2 DEF OwnerOpens
  <2>2. ~usurped'
    BY <1>2 DEF OwnerOpens, Acquire
  <2>3. QED
    BY <1>2, <2>1, <2>2 DEF OwnerOpens
<1>3. CASE OwnerWorks
  <2>1. PICK p \in Procs : Step(p) /\ pc[p] # "down"
    BY <1>3, OwnerWorksIsAStep
  <2>2. UNCHANGED reaperVars /\ ~usurped'
    BY <1>3, <2>1, OwnerWorksIsAStep, StepFrame
  <2>3. \A r \in Reapers : rpc[r] = "idle"
    BY <2>1 DEF OwnerIsUp
  <2>4. QED
    BY <1>3, <2>2, <2>3 DEF OwnerWorks, Touched
<1>4. CASE World
  BY <1>4 DEF World, Tick, Tamper, OwnerIsUp, Expired, Present, ShapeInv, TypeOK, FileStates
<1>5. QED
  BY <1>1, <1>2, <1>3, <1>4 DEF StoreStep

\* What a reaper may do to the files of an owner that is gone.
LEMMA ReaperKeepsStore ==
    ASSUME NamespaceInv, ~OwnerIsUp,
           UNCHANGED <<memory, history, expiry, clock>>,
           lock' \in {lock, None}, manifest' \in SUBSET Names, files' \in [Names -> FileStates],
           faults' \in Nat, faults' >= faults, crashes' \in Nat,
           \A n \in Names : files'[n] = files[n] \/ files'[n] = "absent",
           \A n \in manifest' : expiry[n] # 0 /\ n \notin failed,
           \A n \in acked \ tampered : ~Expired(n) => files'[n] = files[n] /\ n \in manifest'
    PROVE  ShapeInv' /\ LockIsHeld' /\ DurableInv' /\ ~usurped'
<1> USE DEF NamespaceInv, memory, history
<1>1. \A p \in Procs : pc[p] = "down" /\ ~Writing(p) /\ records[p] = {}
  BY DEF OwnerIsUp, Writing, ShapeInv, DownIsEmpty
<1>2. ShapeInv'
  BY DEF ShapeInv, TypeOK, JobsAreWrites, DownIsEmpty, Writing
<1>3. DurableInv'
  <2>1. DiskInv'
    BY DEF DurableInv, DiskInv, Expired, Present, ShapeInv, TypeOK
  <2>2. ASSUME NEW p \in Procs PROVE MemoryInv(p)'
    BY <1>1, <2>2 DEF MemoryInv, Writing, Loaded
  <2>3. QED
    BY <2>1, <2>2 DEF DurableInv
<1>4. QED
  BY <1>1, <1>2, <1>3 DEF LockIsHeld

\* A reaper keeps the acknowledged artifacts and the other reapers' decisions.
LEMMA ReapKeepsNamespace ==
    ASSUME NamespaceInv, NEW r \in Reapers, Reap(r)
    PROVE  NamespaceInv'
<1> USE DEF NamespaceInv, disk, memory, history, bounds, visit, reaperVars, vars, Visits
<1>1. UNCHANGED <<memory, history, expiry, clock>>
  BY DEF Reap, Inspect, Read, Scan, KeepAll, WriteTemp, Relist, Unlist, RemoveDir, ReaperCrash
<1>2. ~OwnerIsUp /\ dir \notin {"unmade", "making"}
  BY MarkersAreNotProcesses DEF Reap, Inspect, Read, Scan, KeepAll, Scanned, WriteTemp, Relist, Unlist,
     RemoveDir, ReaperCrash, NotOwned, OwnerIsUp, LockIsHeld, ReaperInv, EntersAbandoned
<1>3. ~OwnerIsUp'
  BY <1>1, <1>2 DEF OwnerIsUp
<1>t. /\ manifest \in SUBSET Names /\ files \in [Names -> FileStates] /\ faults \in Nat /\ crashes \in Nat
      /\ clock \in Nat
      /\ \A n \in manifest : expiry[n] # 0 /\ n \notin failed
      /\ \A n \in acked \ tampered : ~Expired(n) => n \in manifest /\ n \in Names /\ files[n] = "good"
  BY DEF ShapeInv, TypeOK, DurableInv, DiskInv
<1> USE DEF ReaperTypeOK, ReaperInv, EntersAbandoned, KeepsAcknowledged, LeavesNothing
<1>4. CASE Inspect(r)
  <2>1. ShapeInv' /\ LockIsHeld' /\ DurableInv' /\ ~usurped'
    BY <1>1, <1>2, <1>4, <1>t, ReaperKeepsStore DEF Inspect, Unlock
  <2>2. ReaperTypeOK'
    BY <1>4, <1>t DEF Inspect
  <2>3. \A q \in Reapers : ReaperInv(q)'
    BY <1>1, <1>3, <1>4, <1>t, <1>2 DEF Inspect, Unlock, Expired, Present
  <2>4. QED
    BY <2>1, <2>2, <2>3
<1>5. CASE Read(r)
  <2>1. ShapeInv' /\ LockIsHeld' /\ DurableInv' /\ ~usurped'
    BY <1>1, <1>2, <1>5, <1>t, ReaperKeepsStore DEF Read
  <2>2. ReaperTypeOK'
    BY <1>5, <1>t DEF Read
  <2>3. \A q \in Reapers : ReaperInv(q)'
    BY <1>1, <1>3, <1>5, <1>t DEF Read, Expired, Present
  <2>4. QED
    BY <2>1, <2>2, <2>3
<1>6. ASSUME NEW n \in Names, Scan(r, n) PROVE NamespaceInv'
  <2>1. /\ files' \in [Names -> FileStates] /\ faults' \in Nat /\ crashes' \in Nat
        /\ \A m \in Names : files'[m] = files[m] \/ (m = n /\ files'[m] = "absent")
        /\ faults' >= faults
        /\ n \in live'[r] \/ (faults' = 0 => files'[n] = "absent")
    <3>1. CASE n \in seen[r] /\ KeepsRecord(r, n)
      BY <1>6, <1>t, <3>1 DEF Scan
    <3>2. CASE ~(n \in seen[r] /\ KeepsRecord(r, n))
      <4>1. UnlinkEach({n})
        BY <1>6, <3>2 DEF Scan
      <4>2. faults' = 0 => files'[n] = "absent"
        BY <4>1, UnlinkEachType DEF ShapeInv, Without
      <4>3. QED
        BY <4>1, <4>2, UnlinkEachType DEF ShapeInv
    <3>3. QED
      BY <3>1, <3>2
  <2>2. ASSUME NEW m \in acked \ tampered, ~Expired(m)
        PROVE  files'[m] = files[m] /\ (m = n => n \in live'[r] /\ n \in seen[r])
    <3>1. m = n => n \in seen[r] /\ KeepsRecord(r, n)
      BY <1>6, <1>t, <2>2 DEF Scan, KeepsRecord, Expired, ShapeInv, TypeOK
    <3>2. QED
      BY <1>6, <1>t, <2>1, <2>2, <3>1 DEF Scan
  <2>3. ShapeInv' /\ LockIsHeld' /\ DurableInv' /\ ~usurped'
    BY <1>1, <1>2, <1>6, <1>t, <2>1, <2>2, ReaperKeepsStore DEF Scan
  <2>4. ReaperTypeOK'
    BY <1>6 DEF Scan
  <2>5. \A q \in Reapers : EntersAbandoned(q)' /\ LeavesNothing(q)'
    BY <1>1, <1>2, <1>3, <1>6, <1>t, <2>1 DEF Scan
  <2>6. KeepsAcknowledged(r)'
    <3>1. live'[r] \subseteq live[r] \cup {n} /\ live[r] \subseteq live'[r] /\ todo'[r] = todo[r] \ {n}
      BY <1>6 DEF Scan
    <3>2. live'[r] \subseteq seen[r]
      BY <1>6 DEF Scan
    <3>3. QED
      BY <1>1, <1>6, <1>t, <2>1, <2>2, <3>1, <3>2 DEF Scan, Expired, Present
  <2>7. ASSUME NEW q \in Reapers, q # r PROVE KeepsAcknowledged(q)'
    BY <1>1, <1>6, <1>t, <2>1, <2>7 DEF Scan, Expired, Present
  <2>8. QED
    BY <2>3, <2>4, <2>5, <2>6, <2>7
<1>7. CASE KeepAll(r) \/ WriteTemp(r) \/ RemoveDir(r) \/ ReaperCrash(r)
  <2>1. UNCHANGED <<lock, files, manifest, faults>> /\ crashes' \in Nat
    BY <1>7, <1>t DEF KeepAll, WriteTemp, RemoveDir, ReaperCrash
  <2>2. ShapeInv' /\ LockIsHeld' /\ DurableInv' /\ ~usurped'
    BY <1>1, <1>2, <1>t, <2>1, ReaperKeepsStore
  <2>3. ReaperTypeOK'
    BY <1>7 DEF KeepAll, WriteTemp, RemoveDir, ReaperCrash, EndVisit
  <2>4. \A q \in Reapers : ReaperInv(q)'
    BY <1>1, <1>2, <1>3, <1>7, <2>1 DEF KeepAll, WriteTemp, Scanned, RemoveDir, ReaperCrash, EndVisit,
       Expired, Present
  <2>5. QED
    BY <2>2, <2>3, <2>4
<1>8. CASE Relist(r) \/ Unlist(r)
  <2>1. /\ UNCHANGED <<lock, files, crashes>>
        /\ manifest' \in {manifest, live[r]} /\ faults' \in Nat /\ faults' >= faults
        /\ todo[r] = {} /\ rpc[r] \in {"scan", "rename"}
    <3>1. CASE Relist(r)
      BY <1>t, <3>1 DEF Relist
    <3>2. CASE Unlist(r)
      BY <1>t, <3>2 DEF Unlist, Scanned, Succeeds, Fails
    <3>3. QED
      BY <1>8, <3>1, <3>2
  <2>2. ShapeInv' /\ LockIsHeld' /\ DurableInv' /\ ~usurped'
    BY <1>1, <1>2, <1>t, <2>1, ReaperKeepsStore
  <2>3. ReaperTypeOK'
    BY <1>8 DEF Relist, Unlist, EndVisit, Removing
  <2>4. CASE Relist(r)
    BY <1>1, <1>2, <1>3, <2>1, <2>2, <2>3, <2>4 DEF Relist, EndVisit, Removing, Expired, Present
  <2>5. CASE Unlist(r)
    <3>1. live[r] = {} /\ (faults' = 0 => manifest' = {} /\ faults = 0)
      BY <1>t, <2>5 DEF Unlist, Succeeds, Fails
    <3>2. \A q \in Reapers : ReaperInv(q)'
      BY <1>1, <1>2, <1>3, <2>1, <2>5, <3>1 DEF Unlist, Expired, Present
    <3>3. QED
      BY <2>2, <2>3, <3>2
  <2>6. QED
    BY <1>8, <2>4, <2>5
<1>9. QED
  BY <1>4, <1>5, <1>6, <1>7, <1>8 DEF Reap

LEMMA NamespaceInvariant == ReaperSpec => []NamespaceInv
<1>1. ReaperInit => NamespaceInv
  <2> SUFFICES ASSUME ReaperInit PROVE NamespaceInv
    OBVIOUS
  <2>1. ShapeInv /\ LockIsHeld /\ DurableInv /\ ~usurped
    BY InitIsSound DEF ReaperInit, Init
  <2>2. ReaperTypeOK /\ \A r \in Reapers : ReaperInv(r)
    BY DEF ReaperInit, Init, ReaperTypeOK, ReaperInv, EntersAbandoned, KeepsAcknowledged, LeavesNothing
  <2>3. QED
    BY <2>1, <2>2 DEF NamespaceInv
<1>2. NamespaceInv /\ [ReaperNext]_allVars => NamespaceInv'
  <2> SUFFICES ASSUME NamespaceInv, [ReaperNext]_allVars PROVE NamespaceInv'
    OBVIOUS
  <2>1. CASE StoreStep
    BY <2>1, StoreStepIsNext, StoreStepKeepsReapers, ShapeStep, OwnershipStep, LedgerStep DEF NamespaceInv
  <2>2. ASSUME NEW r \in Reapers, Reap(r) PROVE NamespaceInv'
    BY <2>2, ReapKeepsNamespace
  <2>3. QED
    BY <2>1, <2>2 DEF ReaperNext, StoreStep
<1>3. QED
  BY <1>1, <1>2, PTL DEF ReaperSpec

\* What a closed or crashed owner had acknowledged survives the reapers until its
\* TTL, however many of them scan the namespace, fail and crash.
THEOREM ReapingKeepsAcknowledged == ReaperSpec => []AcknowledgedSurvives
<1>1. NamespaceInv => AcknowledgedSurvives
  BY DEF NamespaceInv, DurableInv, DiskInv, MemoryInv, AcknowledgedSurvives
<1>2. QED
  BY <1>1, NamespaceInvariant, PTL

\* While a process of the namespace is alive no reaper's step touches the disk.
THEOREM LiveOwnersAreSafe == ReaperSpec => LiveOwnerUntouched
<1>1. ASSUME NamespaceInv, [ReaperNext]_allVars, NEW r \in Reapers,
             <<rpc[r], todo[r]>>' # <<rpc[r], todo[r]>>, OwnerIsUp
      PROVE  disk' = disk
  <2>1. ~StoreStep
    BY <1>1, StoreStepIsNext DEF reaperVars, visit
  <2>2. PICK q \in Reapers : Reap(q)
    BY <1>1, <2>1 DEF ReaperNext, StoreStep
  <2>3. FALSE
    BY <1>1, <2>2, MarkersAreNotProcesses DEF NamespaceInv, ReaperInv, EntersAbandoned, Reap, Inspect, Read,
          Scan, KeepAll, Scanned, WriteTemp, Relist, Unlist, RemoveDir, ReaperCrash, NotOwned, OwnerIsUp,
          LockIsHeld
  <2>4. QED
    BY <2>3
<1>2. NamespaceInv /\ [ReaperNext]_allVars
        => [\A r \in Reapers : <<rpc[r], todo[r]>>' # <<rpc[r], todo[r]>> /\ OwnerIsUp
               => disk' = disk]_allVars
  BY <1>1
<1>3. QED
  BY <1>2, NamespaceInvariant, PTL DEF ReaperSpec, LiveOwnerUntouched

\* Without faults and without a temporary file left behind, a reaper that keeps
\* nothing removes the directory, unless another one, going by an earlier time,
\* wrote a manifest meanwhile or is about to.
THEOREM CleanNamespacesGo == ReaperSpec => CleanNamespaceRemoved
<1>1. ASSUME NamespaceInv, [ReaperNext]_allVars, NEW r \in Reapers, Emptied(r), strays = {},
             ~Disturbed(r)
      PROVE  dir' = "gone"
  <2>1. ~StoreStep
    BY <1>1, StoreStepIsNext DEF reaperVars, Emptied
  <2>2. PICK q \in Reapers : Reap(q)
    BY <1>1, <2>1 DEF ReaperNext, StoreStep
  <2>3. RemoveDir(r)
    <3>1. rpc \in [Reapers -> {"idle", "read", "scan", "rename", "rmdir"}] /\ rpc[r] = "rmdir"
          /\ rpc'[r] = "idle"
      BY <1>1 DEF Emptied, NamespaceInv, ReaperTypeOK
    <3>2. r = q
      BY <2>2, <3>1 DEF Reap, Visits, EndVisit, Inspect, Read, Scan, KeepAll, WriteTemp, Relist, Unlist,
            RemoveDir, ReaperCrash
    <3>3. ~ReaperCrash(r)
      BY <1>1 DEF Emptied, ReaperCrash, NamespaceInv, ShapeInv, TypeOK
    <3>4. QED
      BY <2>2, <3>1, <3>2, <3>3 DEF Reap, Inspect, Read, Scan, KeepAll, Scanned, WriteTemp, Relist, Unlist
  <2>4. lock = None /\ manifest = {} /\ \A n \in Names : ~Present(n)
    BY <1>1 DEF Emptied, Disturbed, NamespaceInv, ReaperInv, EntersAbandoned, KeepsAcknowledged, LeavesNothing
  <2>5. QED
    BY <1>1, <2>3, <2>4 DEF Disturbed, RemoveDir, Empty
<1>2. NamespaceInv /\ [ReaperNext]_allVars
        => [\A r \in Reapers : Emptied(r) /\ strays = {} /\ ~Disturbed(r) => dir' = "gone"]_allVars
  BY <1>1
<1>3. QED
  BY <1>2, NamespaceInvariant, PTL DEF ReaperSpec, CleanNamespaceRemoved
=============================================================================
