--------------------------- MODULE ArtifactStore ---------------------------
(***************************************************************************)
(* The managed artifact directory of src/mcp/artifacts.ts: the ownership   *)
(* lock, the persisted manifest and the artifact files, used by server     *)
(* processes that open it, write and read artifacts, close it or crash.    *)
(*                                                                         *)
(* A store call runs synchronously in its process, but it is several file  *)
(* operations: each of them is an action, so that a crash or a failed      *)
(* operation can fall between any two.  A name stands for one generated    *)
(* artifact file with the record made for it; names are never reused.      *)
(* A manifest is the set of names it lists; it is replaced by a rename, so *)
(* a reader sees the old one or the new one.                               *)
(***************************************************************************)
EXTENDS Naturals, FiniteSets, FiniteSetsExt

CONSTANTS
    Procs,             \* server processes that may use the directory
    Names,             \* artifact names that may be generated
    Size,              \* bytes of each artifact
    MaxArtifacts,      \* maxArtifacts each process is configured with
    MaxBytes,          \* maxBytes each process is configured with
    MaxTotalBytes,     \* maxTotalBytes each process is configured with
    Ttl,               \* ttlMs
    OperatorErrs,      \* whether a lock in use may be removed
    MaxClock,          \* bound on the clock
    MaxFaults,         \* bound on failed file operations
    MaxCrashes,        \* bound on process crashes
    MaxTampers,        \* bound on files changed by somebody else
    None, Stale        \* no lock file; a lock file left by a crash

ASSUME LimitsArePositive ==
    /\ Ttl \in Nat \ {0}
    /\ Size \in [Names -> Nat]
    /\ MaxArtifacts \in [Procs -> Nat \ {0}]
    /\ MaxBytes \in [Procs -> Nat \ {0}]
    /\ MaxTotalBytes \in [Procs -> Nat \ {0}]
    /\ \A p \in Procs : MaxBytes[p] <= MaxTotalBytes[p]

ASSUME BoundsAreNaturals ==
    /\ OperatorErrs \in BOOLEAN
    /\ {MaxClock, MaxFaults, MaxCrashes, MaxTampers} \subseteq Nat

ASSUME MarkersAreNotProcesses == None \notin Procs /\ Stale \notin Procs /\ None # Stale

VARIABLES
    lock,       \* who created the lock file
    files,      \* state of each artifact file
    manifest,   \* names the manifest file lists
    strays,     \* temporary files left behind
    clock,
    expiry,     \* expiresAt in the record of each name, 0 before it is made
    pc,         \* the file operation each process is at
    records,    \* the records map of each process
    job,        \* the name its write is about
    after,      \* what the manifest is being saved for
    acked,      \* names a caller was given
    failed,     \* names whose write threw
    tampered,   \* names whose file somebody else changed
    usurped,    \* whether a lock in use was ever removed
    overtaken,  \* processes that lost their lock where they no longer check it
    faults, crashes

disk == <<lock, files, manifest, strays>>
memory == <<pc, records, job, after>>
history == <<acked, failed, tampered, usurped, overtaken>>
bounds == <<faults, crashes>>
vars == <<disk, clock, expiry, memory, history, bounds>>

FileStates == {"absent", "good", "altered", "cut"}
Steps == {"down", "mark", "load", "reconcile", "sweep", "save", "open", "admit",
          "place", "commit", "unlink"}
ManifestTemp == "manifest"

Init ==
    /\ lock = None /\ files = [n \in Names |-> "absent"]
    /\ manifest = {} /\ strays = {} /\ clock = 0
    /\ expiry = [n \in Names |-> 0]
    /\ pc = [p \in Procs |-> "down"]
    /\ records = [p \in Procs |-> {}]
    /\ job = [p \in Procs |-> None]
    /\ after = [p \in Procs |-> "start"]
    /\ acked = {} /\ failed = {} /\ tampered = {} /\ usurped = FALSE
    /\ overtaken = {}
    /\ faults = 0 /\ crashes = 0

Present(n) == files[n] # "absent"
Expired(n) == expiry[n] <= clock
TotalBytes(S) == MapThenSumSet(LAMBDA n : Size[n], S)
Goto(p, step) == pc' = [pc EXCEPT ![p] = step]
Loaded(p) == pc[p] \notin {"down", "mark", "load", "unlink"}
Without(S) == [n \in Names |-> IF n \in S THEN "absent" ELSE files[n]]

(***************************************************************************)
(* A step of a store call that cannot fail, and one that does.             *)
(***************************************************************************)
Succeeds == UNCHANGED bounds
Fails == faults < MaxFaults /\ faults' = faults + 1 /\ UNCHANGED crashes

(***************************************************************************)
(* unlinkSync inside try/catch: a failure is swallowed and the file stays. *)
(***************************************************************************)
UnlinkEach(S) ==
    \/ files' = Without(S) /\ Succeeds
    \/ \E kept \in SUBSET {n \in S : Present(n)} :
          kept # {} /\ files' = Without(S \ kept) /\ Fails

-----------------------------------------------------------------------------
(* Defective variants of the definitions below, the mutants. *)
OwnsAnyLock(p) == lock # None
StealLock(p) == lock' = p
FitsBefore(p, n) == TotalBytes(records[p]) <= MaxTotalBytes[p]
OrphansBeforeLoad(p) == {n \in Names : Present(n)}
OrphansNone(p) == {}
RollbackKeepingFile(p) == Fails /\ UNCHANGED <<records, manifest, files>>
-----------------------------------------------------------------------------
(***************************************************************************)
(* close: the lock file is unlinked by its path in a step of its own, after *)
(* its identity and its token were found to be those of this process.      *)
(***************************************************************************)
OwnsLock(p) == lock = p

Forget(p, step) ==
    /\ Goto(p, step)
    /\ records' = [records EXCEPT ![p] = {}]
    /\ job' = [job EXCEPT ![p] = None]
    /\ UNCHANGED after

Release(p) == Forget(p, IF OwnsLock(p) THEN "unlink" ELSE "down") /\ UNCHANGED lock

Close(p) ==
    /\ pc[p] = "open"
    /\ Release(p)
    /\ UNCHANGED <<files, manifest, strays, clock, expiry, history, bounds>>

(* Who loses the lock file when somebody removes it, and will not notice. *)
Unaware == {q \in Procs : lock = q /\ pc[q] \in {"mark", "unlink"}}
Left(p) == IF lock = p THEN Stale ELSE lock

(* A failed unlink is swallowed: the lock file stays as after a crash. *)
Unlink(p) ==
    /\ pc[p] = "unlink"
    /\ \/ lock' = None /\ overtaken' = (overtaken \cup Unaware) \ {p} /\ Succeeds
       \/ lock' = Left(p) /\ overtaken' = overtaken \ {p} /\ Fails
    /\ Forget(p, "down")
    /\ UNCHANGED <<files, manifest, strays, clock, expiry, acked, failed, tampered, usurped>>

(***************************************************************************)
(* acquireOwnership: the lock file is created exclusively and then written. *)
(* If writing it fails, it is unlinked by its path, with no check.         *)
(***************************************************************************)
LockFree(p) == lock = None /\ lock' = p

Acquire(p) ==
    /\ pc[p] = "down"
    /\ LockFree(p)
    /\ Goto(p, "mark")
    /\ UNCHANGED <<files, manifest, strays, clock, expiry, records, job, after,
                   history, bounds>>

Mark(p) ==
    /\ pc[p] = "mark"
    /\ Goto(p, "load")
    /\ overtaken' = overtaken \ {p}
    /\ UNCHANGED <<disk, clock, expiry, records, job, after, acked, failed, tampered,
                   usurped, bounds>>

MarkFails(p) ==
    /\ pc[p] = "mark"
    /\ Fails
    /\ Goto(p, "unlink")
    /\ UNCHANGED <<disk, clock, expiry, records, job, after, history>>

(***************************************************************************)
(* loadManifest: a listed file that is missing is dropped, a listed file   *)
(* that does not match its record, or a manifest beyond the limits, makes  *)
(* the constructor close the store again and throw.                        *)
(***************************************************************************)
Kept(p) == {n \in manifest : Present(n)}
TooMany(p) == Cardinality(manifest) > MaxArtifacts[p]
TooLarge(p) == TotalBytes(Kept(p)) > MaxTotalBytes[p]
Mismatch(p) == \E n \in manifest : files[n] \in {"altered", "cut"}

LoadManifest(p) ==
    /\ pc[p] = "load"
    /\ ~TooMany(p) /\ ~Mismatch(p) /\ ~TooLarge(p)
    /\ records' = [records EXCEPT ![p] = Kept(p)]
    /\ Goto(p, IF Kept(p) = manifest THEN "reconcile" ELSE "save")
    /\ after' = [after EXCEPT ![p] = "load"]
    /\ UNCHANGED <<disk, clock, expiry, job, history, bounds>>

LoadRefuses(p) ==
    /\ pc[p] = "load"
    /\ TooMany(p) \/ Mismatch(p) \/ TooLarge(p)
    /\ Release(p)
    /\ UNCHANGED <<files, manifest, strays, clock, expiry, history, bounds>>

(***************************************************************************)
(* reconcileManagedFiles removes artifact files no record lists.           *)
(* Temporary files have other names and are not looked at.                 *)
(***************************************************************************)
Orphans(p) == {n \in Names : Present(n)} \ records[p]

Reconcile(p) ==
    /\ pc[p] = "reconcile"
    /\ UnlinkEach(Orphans(p))
    /\ Goto(p, "sweep")
    /\ after' = [after EXCEPT ![p] = "start"]
    /\ UNCHANGED <<lock, manifest, strays, clock, expiry, records, job, history>>

(***************************************************************************)
(* cleanupExpired, in the constructor and at the start of every write.     *)
(***************************************************************************)
Resume(p) == Goto(p, CASE after[p] = "load" -> "reconcile"
                       [] after[p] = "write" -> "admit"
                       [] OTHER -> "open")

Sweep(p) ==
    LET gone == {n \in records[p] : Expired(n)}
    IN  /\ pc[p] = "sweep"
        /\ records' = [records EXCEPT ![p] = @ \ gone]
        /\ UnlinkEach(gone)
        /\ IF gone = {} THEN Resume(p) ELSE Goto(p, "save")
        /\ UNCHANGED <<lock, manifest, strays, clock, expiry, job, after, history>>

(***************************************************************************)
(* persistManifest outside a write's own commit: a failure throws out of   *)
(* the call being made, which closes the store if it is the constructor.   *)
(***************************************************************************)
Save(p) ==
    /\ pc[p] = "save"
    /\ manifest' = records[p]
    /\ Resume(p)
    /\ UNCHANGED <<lock, files, strays, clock, expiry, records, job, after,
                   history, bounds>>

SaveFails(p) ==
    /\ pc[p] = "save"
    /\ Fails
    /\ \/ after[p] \in {"load", "start"} /\ Release(p) /\ UNCHANGED failed
       \/ /\ after[p] = "write"
          /\ Goto(p, "open")
          /\ job' = [job EXCEPT ![p] = None]
          /\ failed' = failed \cup {job[p]}
          /\ UNCHANGED <<lock, records, after>>
       \/ after[p] = "read" /\ Goto(p, "open") /\ UNCHANGED <<lock, records, job, after, failed>>
    /\ strays' \in {strays, strays \cup {ManifestTemp}}
    /\ UNCHANGED <<files, manifest, clock, expiry, acked, tampered, usurped, overtaken>>

-----------------------------------------------------------------------------
(***************************************************************************)
(* write: sweep, the two quotas, a temporary file renamed into place, then *)
(* the manifest.  Whatever throws after the quotas is rolled back.  Bytes   *)
(* beyond maxBytes or maxTotalBytes are refused at once, which is no step. *)
(***************************************************************************)
BeginWrite(p, n) ==
    /\ pc[p] = "open"
    /\ expiry[n] = 0 /\ n \notin failed /\ \A q \in Procs : job[q] # n
    /\ Size[n] <= MaxBytes[p] /\ Size[n] <= MaxTotalBytes[p]
    /\ job' = [job EXCEPT ![p] = n]
    /\ after' = [after EXCEPT ![p] = "write"]
    /\ Goto(p, "sweep")
    /\ UNCHANGED <<disk, clock, expiry, records, history, bounds>>

Fits(p, n) == TotalBytes(records[p]) + Size[n] <= MaxTotalBytes[p]
WithinQuota(p) == Cardinality(records[p]) < MaxArtifacts[p] /\ Fits(p, job[p])

Admit(p) ==
    /\ pc[p] = "admit"
    /\ WithinQuota(p)
    /\ expiry' = [expiry EXCEPT ![job[p]] = clock + Ttl]
    /\ Goto(p, "place")
    /\ UNCHANGED <<disk, clock, records, job, after, history, bounds>>

WriteThrows(p) ==
    /\ Goto(p, "open")
    /\ failed' = failed \cup {job[p]}
    /\ job' = [job EXCEPT ![p] = None]
    /\ UNCHANGED <<after, acked, tampered, usurped, overtaken>>

OverQuota(p) ==
    /\ pc[p] = "admit"
    /\ ~WithinQuota(p)
    /\ WriteThrows(p)
    /\ UNCHANGED <<disk, clock, expiry, records, bounds>>

Place(p) ==
    /\ pc[p] = "place"
    /\ files' = [files EXCEPT ![job[p]] = "good"]
    /\ Goto(p, "commit")
    /\ UNCHANGED <<lock, manifest, strays, clock, expiry, records, job, after,
                   history, bounds>>

(* The unlink of a temporary file can fail as well. *)
PlaceFails(p) ==
    /\ pc[p] = "place"
    /\ Fails
    /\ strays' \in {strays, strays \cup {job[p]}}
    /\ WriteThrows(p)
    /\ UNCHANGED <<lock, files, manifest, clock, expiry, records>>

Record(p) ==
    /\ records' = [records EXCEPT ![p] = @ \cup {job[p]}]
    /\ manifest' = records'[p]

Commit(p) ==
    /\ pc[p] = "commit"
    /\ Record(p)
    /\ acked' = acked \cup {job[p]}
    /\ job' = [job EXCEPT ![p] = None]
    /\ Goto(p, "open")
    /\ UNCHANGED <<lock, files, strays, clock, expiry, after, failed, tampered,
                   usurped, overtaken, bounds>>

(***************************************************************************)
(* The manifest could not be saved: records.delete, then both unlinks.  If *)
(* the second of them fails as well, the file stays without a record.      *)
(***************************************************************************)
Rollback(p) ==
    /\ UNCHANGED <<records, manifest>>
    /\ \/ files' = Without({job[p]}) /\ Fails
       \/ /\ faults + 2 <= MaxFaults /\ faults' = faults + 2
          /\ UNCHANGED <<files, crashes>>

CommitFails(p) ==
    /\ pc[p] = "commit"
    /\ Rollback(p)
    /\ strays' \in {strays, strays \cup {ManifestTemp}}
    /\ WriteThrows(p)
    /\ UNCHANGED <<lock, clock, expiry>>

(***************************************************************************)
(* read: a record that is expired, missing or does not match its file is   *)
(* dropped with its file.  A read that serves, or of an unknown name,      *)
(* changes nothing.                                                        *)
(***************************************************************************)
Servable(p, n) == n \in records[p] /\ ~Expired(n) /\ files[n] = "good"

ReadDrops(p, n) ==
    /\ pc[p] = "open"
    /\ n \in records[p] /\ ~Servable(p, n)
    /\ records' = [records EXCEPT ![p] = @ \ {n}]
    /\ UnlinkEach({n})
    /\ after' = [after EXCEPT ![p] = "read"]
    /\ Goto(p, "save")
    /\ UNCHANGED <<lock, manifest, strays, clock, expiry, job, history>>

-----------------------------------------------------------------------------
(***************************************************************************)
(* A crash loses the memory of the process.  Its lock file stays, and so   *)
(* does a temporary file it had not renamed yet.  A write may have saved   *)
(* the manifest and not returned.                                          *)
(***************************************************************************)
TempsOf(p) == CASE pc[p] = "place" -> {job[p]}
                [] pc[p] \in {"save", "commit"} -> {ManifestTemp}
                [] OTHER -> {}

Crash(p) ==
    /\ pc[p] # "down" /\ crashes < MaxCrashes
    /\ lock' = Left(p) /\ overtaken' = overtaken \ {p}
    /\ \E left \in SUBSET TempsOf(p) : strays' = strays \cup left
    /\ \/ UNCHANGED manifest
       \/ pc[p] = "commit" /\ manifest' = records[p] \cup {job[p]}
    /\ Forget(p, "down")
    /\ crashes' = crashes + 1
    /\ UNCHANGED <<files, clock, expiry, acked, failed, tampered, usurped, faults>>

(* The operator removes the lock file a crash left, or by mistake one in use. *)
RemoveLock ==
    /\ lock = Stale \/ (OperatorErrs /\ lock # None)
    /\ lock' = None
    /\ usurped' = (usurped \/ lock # Stale)
    /\ overtaken' = overtaken \cup Unaware
    /\ UNCHANGED <<files, manifest, strays, clock, expiry, memory, acked, failed,
                   tampered, bounds>>

(* Somebody else changes or deletes an artifact file. *)
Tamper(n) ==
    /\ Present(n) /\ Cardinality(tampered) < MaxTampers
    /\ \E s \in FileStates \ {"good"} : files' = [files EXCEPT ![n] = s]
    /\ tampered' = tampered \cup {n}
    /\ UNCHANGED <<lock, manifest, strays, clock, expiry, memory, acked, failed,
                   usurped, overtaken, bounds>>

Tick ==
    /\ clock < MaxClock
    /\ clock' = clock + 1
    /\ UNCHANGED <<disk, expiry, memory, history, bounds>>

Construct(p) ==
    \/ Acquire(p) \/ Mark(p) \/ MarkFails(p)
    \/ LoadManifest(p) \/ LoadRefuses(p) \/ Reconcile(p)

Write(p) ==
    \/ \E n \in Names : BeginWrite(p, n)
    \/ Admit(p) \/ OverQuota(p) \/ Place(p) \/ PlaceFails(p) \/ Commit(p) \/ CommitFails(p)

Environment == RemoveLock \/ Tick \/ \E n \in Names : Tamper(n)

Next ==
    \/ \E p \in Procs :
          \/ Construct(p) \/ Sweep(p) \/ Save(p) \/ SaveFails(p) \/ Write(p)
          \/ \E n \in Names : ReadDrops(p, n)
          \/ Close(p) \/ Unlink(p) \/ Crash(p)
    \/ Environment

Spec == Init /\ [][Next]_vars

-----------------------------------------------------------------------------
(***************************************************************************)
(* An artifact a caller was given stays on disk, in the manifest and in    *)
(* the map of every open store until its TTL, through crashes, failed file *)
(* operations and restarts, unless somebody else touched its file or       *)
(* removed a lock in use.                                                  *)
(***************************************************************************)
AcknowledgedSurvives ==
    \A n \in acked \ tampered : ~usurped /\ ~Expired(n) =>
        /\ files[n] = "good" /\ n \in manifest
        /\ \A p \in Procs : Loaded(p) => n \in records[p]

(***************************************************************************)
(* The quotas bound what callers can fetch, over all processes that ever   *)
(* owned the directory, also if they are configured differently: some      *)
(* process allows it, and one that has loaded the manifest does.           *)
(***************************************************************************)
Fetchable == {n \in acked \ tampered : ~Expired(n)}
WithinLimits(p, S) == Cardinality(S) <= MaxArtifacts[p] /\ TotalBytes(S) <= MaxTotalBytes[p]
QuotaHolds ==
    ~usurped /\ Fetchable # {} =>
        /\ \E p \in Procs : WithinLimits(p, Fetchable)
        /\ \A p \in Procs : Loaded(p) => WithinLimits(p, Fetchable)

(***************************************************************************)
(* At most one process is past the exclusive creation of the lock file.    *)
(***************************************************************************)
SingleOwner ==
    \A p, q \in Procs : ~usurped /\ pc[p] # "down" /\ pc[q] # "down" => p = q

(***************************************************************************)
(* A write that threw is undone: no map and no later manifest lists it, and *)
(* its file is gone unless a second file operation, its unlink, failed too. *)
(***************************************************************************)
FailedWriteLeavesNothing ==
    \A n \in failed : ~usurped =>
        /\ n \notin manifest /\ \A p \in Procs : n \notin records[p]
        /\ faults < 2 => ~Present(n)

(***************************************************************************)
(* As long as no file operation failed, an open store has no artifact file *)
(* without a record, also after a crash in the middle of a write.          *)
(***************************************************************************)
NoOrphanFiles ==
    \A p \in Procs : ~usurped /\ pc[p] = "open" /\ faults = 0 =>
        \A n \in Names : Present(n) => n \in records[p]

(***************************************************************************)
(* A store removes the lock file of another one only if its own was taken  *)
(* away where it no longer looks: between the checks of close and the      *)
(* unlink, or before it had written the lock file and failed to.  A lock   *)
(* taken away from an open store never costs its successor the directory.  *)
(***************************************************************************)
OnlyOwnerReleases ==
    [][\A p, q \in Procs :
          p # q /\ p \notin overtaken /\ pc'[p] # pc[p] /\ lock = q => lock' = q]_vars
=============================================================================
