--------------------------- MODULE ArtifactReaper ---------------------------
(***************************************************************************)
(* One implicit artifact namespace: a directory its owner makes for itself *)
(* and opens once, and that later implicit stores of other processes reap  *)
(* (src/mcp/artifacts.ts, reapImplicitArtifactNamespaces).  The owner is a *)
(* process of ArtifactStore; a reaper takes a step for each file it looks   *)
(* at, because others may reap the same namespace or crash meanwhile.      *)
(*                                                                         *)
(* Age stands for IMPLICIT_REAP_GRACE_MS passing without a change to the   *)
(* directory.  That an owner needs less than the grace period from mkdir   *)
(* to its lock file is an assumption: a directory in the making never ages.*)
(***************************************************************************)
EXTENDS ArtifactStore

CONSTANT Reapers

ASSUME ReapersAreFinite == IsFiniteSet(Reapers)

VARIABLES
    dir,    \* the directory: not made, made and not locked yet, fresh or aged
            \* by its mtime, or gone
    rpc,    \* where each reaper is in the namespace
    asOf,   \* the time it goes by, read before it visited any namespace
    seen,   \* the names the manifest listed when it read it
    todo,   \* the files it has not looked at yet
    live,   \* the records it decided to keep
    crossed \* reapers about to remove a directory another one wrote to

visit == <<asOf, seen, todo, live>>
reaperVars == <<rpc, visit, crossed>>
allVars == <<vars, dir, reaperVars>>

ReaperInit ==
    /\ Init
    /\ dir = "unmade"
    /\ rpc = [r \in Reapers |-> "idle"]
    /\ asOf = [r \in Reapers |-> 0]
    /\ seen = [r \in Reapers |-> {}] /\ todo = seen /\ live = seen
    /\ crossed = {}

OwnerIsUp == \E p \in Procs : pc[p] # "down"
Touched == dir' = IF disk' = disk THEN dir ELSE "fresh"

Age ==
    /\ dir = "fresh"
    /\ dir' = "aged"
    /\ UNCHANGED <<vars, reaperVars>>

(* mkdirSync in the constructor, then the rest of the store's life. *)
MakeDir ==
    /\ dir = "unmade"
    /\ dir' = "making"
    /\ UNCHANGED <<vars, reaperVars>>

OwnerOpens ==
    /\ dir = "making"
    /\ \E p \in Procs : Acquire(p)
    /\ dir' = "fresh"
    /\ UNCHANGED reaperVars

OwnerWorks ==
    /\ dir \in {"fresh", "aged"}
    /\ \E p \in Procs :
          \/ Mark(p) \/ MarkFails(p) \/ LoadManifest(p) \/ Reconcile(p)
          \/ Sweep(p) \/ Save(p) \/ SaveFails(p) \/ Write(p)
          \/ \E n \in Names : ReadDrops(p, n)
          \/ Close(p) \/ Unlink(p) \/ Crash(p)
    /\ Touched
    /\ UNCHANGED reaperVars

World ==
    /\ Tick \/ \E n \in Names : Tamper(n)
    /\ UNCHANGED <<dir, reaperVars>>

-----------------------------------------------------------------------------
(* Defective variants, the mutants. *)
OwnedOrNot(r) == TRUE
LeaveLock(r) == UNCHANGED lock
LiveIgnoringTtl(r, n) == files[n] \in {"good", "altered"} /\ expiry[n] <= asOf[r]
-----------------------------------------------------------------------------
(***************************************************************************)
(* A namespace is passed over while it is fresh or its lock's process is   *)
(* alive.  The pid of a dead owner may be in use again, so a stale lock    *)
(* may be passed over too, which is no step; otherwise it is removed.      *)
(***************************************************************************)
NotOwned(r) == lock \in {None, Stale}
Unlock(r) == lock' = None

Visits(r, step) == rpc' = [rpc EXCEPT ![r] = step]

Inspect(r) ==
    /\ rpc[r] = "idle" /\ dir = "aged"
    /\ NotOwned(r)
    /\ Unlock(r)
    /\ dir' = IF lock = None THEN dir ELSE "fresh"
    /\ \E now \in 0 .. clock : asOf' = [asOf EXCEPT ![r] = now]
    /\ Visits(r, "read")
    /\ UNCHANGED <<files, manifest, strays, clock, expiry, memory, history, bounds,
                   seen, todo, live, crossed>>

(***************************************************************************)
(* reapClosedNamespace: a record is kept if it is unexpired and its file   *)
(* has the recorded size; every other artifact file is unlinked.           *)
(***************************************************************************)
Read(r) ==
    /\ rpc[r] = "read"
    /\ seen' = [seen EXCEPT ![r] = manifest]
    /\ todo' = [todo EXCEPT ![r] = {n \in Names : Present(n)}]
    /\ Visits(r, "scan")
    /\ UNCHANGED <<vars, dir, asOf, live, crossed>>

KeepsRecord(r, n) == files[n] \in {"good", "altered"} /\ expiry[n] > asOf[r]

Scan(r, n) ==
    /\ rpc[r] = "scan" /\ n \in todo[r]
    /\ todo' = [todo EXCEPT ![r] = @ \ {n}]
    /\ IF n \in seen[r] /\ KeepsRecord(r, n)
       THEN live' = [live EXCEPT ![r] = @ \cup {n}] /\ UNCHANGED <<files, bounds>>
       ELSE UnlinkEach({n}) /\ UNCHANGED live
    /\ dir' = IF files' = files THEN dir ELSE "fresh"
    /\ UNCHANGED <<lock, manifest, strays, clock, expiry, memory, history,
                   rpc, asOf, seen, crossed>>

Scanned(r) == rpc[r] = "scan" /\ todo[r] = {}

EndVisit(r) ==
    /\ Visits(r, "idle")
    /\ asOf' = [asOf EXCEPT ![r] = 0]
    /\ seen' = [seen EXCEPT ![r] = {}]
    /\ todo' = [todo EXCEPT ![r] = {}]
    /\ live' = [live EXCEPT ![r] = {}]

(***************************************************************************)
(* Something is kept.  The manifest is replaced if it listed more, by way  *)
(* of a temporary file, which is in the directory until it is renamed.     *)
(***************************************************************************)
KeepAll(r) ==
    /\ Scanned(r)
    /\ live[r] # {} /\ (live[r] = seen[r] \/ dir = "gone")
    /\ EndVisit(r)
    /\ UNCHANGED <<vars, dir, crossed>>

WriteTemp(r) ==
    /\ Scanned(r)
    /\ live[r] # {} /\ live[r] # seen[r] /\ dir # "gone"
    /\ Visits(r, "rename") /\ dir' = "fresh"
    /\ UNCHANGED <<vars, visit, crossed>>

Removing == {r \in Reapers : rpc[r] = "rmdir"}

Relist(r) ==
    /\ rpc[r] = "rename"
    /\ manifest' = live[r] /\ dir' = "fresh"
    /\ crossed' = crossed \cup Removing
    /\ EndVisit(r)
    /\ UNCHANGED <<lock, files, strays, clock, expiry, memory, history, bounds>>

(***************************************************************************)
(* Nothing is kept: the manifest goes, and in a step of its own the        *)
(* directory, which rmdirSync removes only if it is empty.                 *)
(***************************************************************************)
Unlist(r) ==
    /\ Scanned(r)
    /\ live[r] = {}
    /\ \/ manifest' = {} /\ dir' = (IF manifest = {} THEN dir ELSE "fresh") /\ Succeeds
       \/ manifest # {} /\ UNCHANGED <<manifest, dir>> /\ Fails
    /\ Visits(r, "rmdir")
    /\ UNCHANGED <<lock, files, strays, clock, expiry, memory, history, visit, crossed>>

Empty ==
    /\ lock = None /\ strays = {} /\ manifest = {}
    /\ \A n \in Names : ~Present(n)
    /\ \A r \in Reapers : rpc[r] # "rename"

RemoveDir(r) ==
    /\ rpc[r] = "rmdir"
    /\ dir' = IF Empty THEN "gone" ELSE dir
    /\ crossed' = crossed \ {r}
    /\ EndVisit(r)
    /\ UNCHANGED vars

(* A crash of the reaping process, or an error, which ends its visit. *)
ReaperCrash(r) ==
    /\ rpc[r] # "idle" /\ crashes < MaxCrashes
    /\ crashes' = crashes + 1
    /\ EndVisit(r)
    /\ crossed' = crossed \ {r}
    /\ \E left \in SUBSET (IF rpc[r] = "rename" THEN {ManifestTemp} ELSE {}) :
          strays' = strays \cup left
    /\ UNCHANGED <<lock, files, manifest, clock, expiry, memory, history, faults, dir>>

Reap(r) ==
    \/ Inspect(r) \/ Read(r) \/ (\E n \in Names : Scan(r, n))
    \/ KeepAll(r) \/ WriteTemp(r) \/ Relist(r)
    \/ Unlist(r) \/ RemoveDir(r) \/ ReaperCrash(r)

ReaperNext == MakeDir \/ OwnerOpens \/ OwnerWorks \/ Age \/ World \/ \E r \in Reapers : Reap(r)

ReaperSpec == ReaperInit /\ [][ReaperNext]_allVars
-----------------------------------------------------------------------------
(***************************************************************************)
(* No step of a reaper changes the namespace of a process that is alive.   *)
(***************************************************************************)
LiveOwnerUntouched ==
    [][\A r \in Reapers : <<rpc[r], todo[r]>>' # <<rpc[r], todo[r]>> /\ OwnerIsUp
          => disk' = disk]_allVars

(***************************************************************************)
(* A reaper that finds nothing to keep removes the namespace.  The second  *)
(* form excepts one with a temporary file left by a crash, and a visit in  *)
(* which another reaper, going by an earlier time, wrote a manifest after  *)
(* this one had removed it, or is about to; a later visit that nobody      *)
(* disturbs is not excepted, whatever the earlier ones left behind.        *)
(***************************************************************************)
Emptied(r) == /\ rpc[r] = "rmdir" /\ faults = 0
              /\ rpc'[r] = "idle" /\ crashes' = crashes
Disturbed(r) == r \in crossed \/ \E q \in Reapers : rpc[q] = "rename"
EmptyNamespaceRemoved ==
    [][\A r \in Reapers : Emptied(r) => dir' = "gone"]_allVars
CleanNamespaceRemoved ==
    [][\A r \in Reapers : Emptied(r) /\ strays = {} /\ ~Disturbed(r) => dir' = "gone"]_allVars
=============================================================================
