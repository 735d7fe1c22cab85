---- MODULE FilePager ----
(***************************************************************************)
(* The page cache of one regular file: guest/memory/file-pager.c and       *)
(* page-backing.c, the provider in kernel/aarch64-file-mapping-service.c   *)
(* and the coordinated file operations of kernel/fs-task.c.                *)
(*                                                                         *)
(* Shared mappings store into resident pages under the page's lock only.   *)
(* Everything that touches the host file (read, write, truncate, page-in,  *)
(* write-back, fsync) holds the inode's file_io_lock, and a store may come *)
(* between any two steps of it.  The pager itself is found through a weak  *)
(* slot of the inode: its last reference drains the dirty pages, a failed  *)
(* drain brings it back to life on a list of orphans, and everybody who    *)
(* meets a draining pager waits for file_pager_changed.                    *)
(*                                                                         *)
(* A file is a row of cells, PageSize of them to a page.  The generation   *)
(* counters of a page are kept as what they are compared for: dirty        *)
(* (content # clean) and, in the snapshot of the write-back under way,     *)
(* fresh (content is still the generation that was copied); those of the   *)
(* pager as undurable (write # durable).  Sections under inode->lock, cache_lock or a page's lock are  *)
(* single steps.  Private copies never write to the file and are left out. *)
(***************************************************************************)
EXTENDS Integers, FiniteSets, FiniteSetsExt

CONSTANTS Threads,     \* guest threads, each with at most one mapping
          NumPagers,   \* pager structures that can exist at a time
          NumPages,    \* pages of the largest file
          PageSize,    \* cells of a page
          Values, Zero, Gone, None,
          InitSize,    \* cells of the file at the start
          MaxLen,      \* longest write, in cells
          MaxOps, MaxStores, MaxFailures,  \* bounds on what the environment does
          HoleWrites   \* whether programs write past the end and leave a hole

ASSUME SizesAssumption ==
    /\ NumPages \in Nat \ {0} /\ PageSize \in Nat \ {0} /\ NumPagers \in Nat \ {0}
    /\ MaxLen \in Nat \ {0} /\ InitSize \in 0 .. NumPages * PageSize
    /\ Zero \in Values /\ Gone \notin Values /\ None \notin Values
    /\ IsFiniteSet(Threads) /\ None \notin Threads /\ None \notin 1 .. NumPagers
    /\ MaxOps \in Nat /\ MaxStores \in Nat /\ MaxFailures \in Nat

Cells == 0 .. NumPages * PageSize - 1
Pages == 0 .. NumPages - 1
Pagers == 1 .. NumPagers
PageOf(c) == c \div PageSize
CellsOf(p) == {c \in Cells : PageOf(c) = p}

\* The copies of pages that a write-back works on.
Copies == [page : Pages, bytes : UNION {[CellsOf(p) -> Values] : p \in Pages}, fresh : BOOLEAN]

ASSUME CopyAssumption == None \notin Copies

VARIABLES disk,      \* the host file: cell -> value, Zero past its end
          size,      \* its size
          slot,      \* inode->file_pager: a pager or None
          pager,     \* pager -> life, refs, orphan, writer, undurable
          cache,     \* pager -> its READY pages: page -> [bytes, dirty]
          ioLock,    \* holder of inode->file_io_lock
          hostMaps,  \* inode->host_shared_mapping_count
          asleep,    \* threads waiting for file_pager_changed
          pc, op,    \* where a thread is, and its operation
          held,      \* the pager its operation holds, or is releasing
          map,       \* the pager its mapping holds
          mapWriter, \* whether that mapping may write
          cand,      \* the pager it has created and not installed
          todo,      \* pages a commit or a sync_range has still to visit
          snap,      \* the page copy a write-back works on
          after,     \* where to go on after the release under way
          out,       \* what the read under way returns
          unsynced,  \* cells written back by a pager since the last host sync
          owed,      \* cells an fsync has to make durable, and where they are
          budget     \* what the environment may still do

fileState == <<disk, size, unsynced>>
pagerState == <<slot, pager, cache>>
mapState == <<map, mapWriter, cand>>
vars == <<disk, size, slot, pager, cache, ioLock, hostMaps, asleep, pc, op, held,
          map, mapWriter, cand, todo, snap, after, out, unsynced, owed, budget>>

NoPager == [life |-> "none", refs |-> 0, orphan |-> FALSE,
            writer |-> FALSE, undurable |-> FALSE]
NoOp == [kind |-> "none"]
NoCache == [p \in {} |-> None]

Init ==
    /\ \E v \in Values \ {Zero} : disk = [c \in Cells |-> IF c < InitSize THEN v ELSE Zero]
    /\ size = InitSize
    /\ slot = None
    /\ pager = [g \in Pagers |-> NoPager]
    /\ cache = [g \in Pagers |-> NoCache]
    /\ ioLock = None /\ hostMaps = 0 /\ asleep = {}
    /\ pc = [t \in Threads |-> "idle"]
    /\ op = [t \in Threads |-> NoOp]
    /\ held = [t \in Threads |-> None]
    /\ map = [t \in Threads |-> None]
    /\ mapWriter = [t \in Threads |-> FALSE]
    /\ cand = [t \in Threads |-> None]
    /\ todo = [t \in Threads |-> {}]
    /\ snap = None
    /\ after = [t \in Threads |-> "idle"]
    /\ out = [t \in Threads |-> None]
    /\ unsynced = {}
    /\ owed = [t \in Threads |-> {}]
    /\ budget = [ops |-> MaxOps, stores |-> MaxStores, fails |-> MaxFailures]

At(t, l) == pc[t] = l /\ t \notin asleep
Goto(t, l) == pc' = [pc EXCEPT ![t] = l]
Spend(what) ==
    /\ budget[what] > 0
    /\ budget' = [budget EXCEPT ![what] = @ - 1]

Live(g) == pager[g].life = "live"


\* Wrong variant: takes the orphan off the list and forgets the list's reference.
RetainedTwice(g) == [pager EXCEPT ![g].refs = @ + 1, ![g].orphan = FALSE]

(***************************************************************************)
(* guest_file_pager_try_retain: only a live pager; whoever gets an orphan  *)
(* takes it off the list and gives the list's reference back.              *)
(***************************************************************************)
Retained(g) ==
    [pager EXCEPT ![g].refs = IF pager[g].orphan THEN @ ELSE @ + 1,
                  ![g].orphan = FALSE]

(***************************************************************************)
(* Coordinated file operations: begin_file_io, the host operation, the     *)
(* merge with resident pages, end_file_io.                                 *)
(***************************************************************************)
StartIo(t, kind) ==
    /\ At(t, "idle") /\ Spend("ops")
    /\ op' = [op EXCEPT ![t] = [kind |-> kind]]
    /\ Goto(t, "begin")
    /\ UNCHANGED <<fileState, pagerState, ioLock, hostMaps, asleep, held, mapState,
                   todo, snap, after, out, owed>>

BeginIo(t) ==
    /\ At(t, "begin")
    /\ \/ /\ slot # None /\ Live(slot)
          /\ pager' = Retained(slot)
          /\ held' = [held EXCEPT ![t] = slot]
          /\ Goto(t, "lock")
          /\ UNCHANGED asleep
       \/ /\ slot # None /\ ~Live(slot)
          /\ asleep' = asleep \union {t}
          /\ UNCHANGED <<pager, held, pc>>
       \/ /\ slot = None
          /\ Goto(t, "bare")
          /\ UNCHANGED <<pager, held, asleep>>
    /\ UNCHANGED <<fileState, slot, cache, ioLock, hostMaps, op, mapState, todo, snap,
                   after, out, owed, budget>>

LockIo(t) ==
    /\ At(t, "lock") /\ ioLock = None
    /\ ioLock' = t
    /\ Goto(t, "host")
    /\ UNCHANGED <<fileState, pagerState, hostMaps, asleep, op, held, mapState, todo,
                   snap, after, out, owed, budget>>

\* Without a pager at the first look: lock, then look again.
LockIoBare(t) ==
    /\ At(t, "bare") /\ ioLock = None
    /\ \/ /\ slot = None
          /\ ioLock' = t
          /\ Goto(t, "host")
          /\ UNCHANGED <<pager, held>>
       \/ /\ slot # None /\ Live(slot)
          /\ pager' = Retained(slot)
          /\ held' = [held EXCEPT ![t] = slot]
          /\ ioLock' = t
          /\ Goto(t, "host")
       \/ /\ slot # None /\ ~Live(slot)
          /\ Goto(t, "begin")
          /\ UNCHANGED <<pager, held, ioLock>>
    /\ UNCHANGED <<fileState, slot, cache, hostMaps, asleep, op, mapState, todo, snap,
                   after, out, owed, budget>>

Resident(t) == IF held[t] = None THEN {} ELSE DOMAIN cache[held[t]]

\* Data superseded by a write or cut off by a truncation need not become durable.
OwedWithout(S) == [t \in Threads |-> {w \in owed[t] : w[1] \notin S}]

HostRead(t) ==
    /\ At(t, "host") /\ op[t].kind = "read"
    /\ \/ \E c \in Cells :
             /\ c < size
             /\ IF PageOf(c) \in Resident(t)
                THEN /\ op' = [op EXCEPT ![t] = [kind |-> "read", cell |-> c]]
                     /\ Goto(t, "commit")
                     /\ UNCHANGED out
                ELSE /\ out' = [out EXCEPT ![t] = disk[c]]
                     /\ Goto(t, "end")
                     /\ UNCHANGED op
       \/ Goto(t, "end") /\ UNCHANGED <<op, out>>   \* at or past the end of the file
    /\ UNCHANGED <<fileState, pagerState, ioLock, hostMaps, asleep, held, mapState,
                   todo, snap, after, owed, budget>>

HostWrite(t) ==
    /\ At(t, "host") /\ op[t].kind = "write"
    /\ \E first \in Cells, n \in 1 .. MaxLen, v \in Values :
          LET last == first + n - 1 IN
          /\ last \in Cells
          /\ HoleWrites \/ first <= size
          /\ disk' = [c \in Cells |-> IF c \in first .. last THEN v ELSE disk[c]]
          /\ size' = IF last >= size THEN last + 1 ELSE size
          /\ op' = [op EXCEPT ![t] = [kind |-> "write", first |-> first, last |-> last,
                                      value |-> v, old |-> size]]
          /\ todo' = [todo EXCEPT ![t] = {PageOf(c) : c \in first .. last}]
          /\ owed' = OwedWithout(first .. last)
          /\ unsynced' = unsynced \ (first .. last)
    /\ Goto(t, "commit")
    /\ UNCHANGED <<pagerState, ioLock, hostMaps, asleep, held, mapState, snap, after,
                   out, budget>>

\* ftruncate, and file_grow_fd, which leaves a larger file alone.
HostResize(t) ==
    /\ At(t, "host") /\ op[t].kind \in {"resize", "grow"}
    /\ \E new \in 0 .. NumPages * PageSize :
          IF op[t].kind = "grow" /\ size >= new
          THEN /\ Goto(t, "end")
               /\ UNCHANGED <<disk, size, op, owed, unsynced>>
          ELSE /\ disk' = [c \in Cells |-> IF c < new THEN disk[c] ELSE Zero]
               /\ size' = new
               /\ op' = [op EXCEPT ![t] = [kind |-> "resize", new |-> new, old |-> size]]
               /\ owed' = OwedWithout({c \in Cells : c >= new})
               /\ unsynced' = {c \in unsynced : c < new}
               /\ Goto(t, "commit")
    /\ UNCHANGED <<pagerState, ioLock, hostMaps, asleep, held, mapState, todo, snap,
                   after, out, budget>>

\* The host call of a read, a write or a change of size fails: nothing is merged
\* into the pages.
HostFails(t) ==
    /\ At(t, "host") /\ op[t].kind \in {"read", "write", "resize", "grow"}
    /\ Spend("fails")
    /\ Goto(t, "end")
    /\ UNCHANGED <<fileState, pagerState, ioLock, hostMaps, asleep, op, held, mapState,
                   todo, snap, after, out, owed>>

\* guest_file_pager_read_resident: a resident page overrides what the host said.
CommitRead(t) ==
    /\ At(t, "commit") /\ op[t].kind = "read"
    /\ LET c == op[t].cell IN
       out' = [out EXCEPT ![t] = cache[held[t]][PageOf(c)].bytes[c]]
    /\ Goto(t, "end")
    /\ UNCHANGED <<fileState, pagerState, ioLock, hostMaps, asleep, op, held, mapState,
                   todo, snap, after, owed, budget>>

\* guest_page_backing_commit_file_write
Merged(page, p, first, last, v) ==
    [bytes |-> [c \in CellsOf(p) |-> IF c \in first .. last THEN v ELSE page.bytes[c]],
     dirty |-> page.dirty /\ ~(CellsOf(p) \subseteq first .. last)]

CommitWrite(t) ==
    /\ At(t, "commit") /\ op[t].kind = "write" /\ todo[t] # {}
    /\ LET p == Min(todo[t]) IN
       /\ todo' = [todo EXCEPT ![t] = @ \ {p}]
       /\ IF p \in Resident(t)
          THEN cache' = [cache EXCEPT ![held[t]][p] =
                            Merged(@, p, op[t].first, op[t].last, op[t].value)]
          ELSE UNCHANGED cache
       /\ IF todo[t] = {p} THEN Goto(t, "end") ELSE UNCHANGED pc
    /\ UNCHANGED <<fileState, slot, pager, ioLock, hostMaps, asleep, op, held, mapState,
                   snap, after, out, owed, budget>>

(***************************************************************************)
(* guest_file_page_domain_resize and the removal of cached pages past the  *)
(* new end.  A page past the end can never be written again, so cutting it *)
(* out of the cache is part of the same step; a page that keeps its place  *)
(* has its tail zeroed and stays as clean or dirty as it was.              *)
(***************************************************************************)
Resized(page, p, old, new) ==
    LET cut == {c \in CellsOf(p) :
                  \/ /\ new > old /\ old % PageSize # 0 /\ PageOf(old) = p
                     /\ c >= old /\ c < new
                  \/ new % PageSize # 0 /\ PageOf(new) = p /\ c >= new}
    IN  [bytes |-> [c \in CellsOf(p) |-> IF c \in cut THEN Zero ELSE page.bytes[c]],
         dirty |-> page.dirty]

CommitResize(t) ==
    /\ At(t, "commit") /\ op[t].kind = "resize"
    /\ IF held[t] = None THEN UNCHANGED cache
       ELSE cache' = [cache EXCEPT ![held[t]] =
                         [p \in {q \in Resident(t) : q * PageSize < op[t].new} |->
                             Resized(@[p], p, op[t].old, op[t].new)]]
    /\ Goto(t, "end")
    /\ UNCHANGED <<fileState, slot, pager, ioLock, hostMaps, asleep, op, held, mapState,
                   todo, snap, after, out, owed, budget>>

EndIo(t) ==
    /\ At(t, "end")
    /\ ioLock' = None
    /\ op' = [op EXCEPT ![t] = NoOp]
    /\ out' = [out EXCEPT ![t] = None]
    /\ Goto(t, IF held[t] = None THEN "idle" ELSE "release")
    /\ UNCHANGED <<fileState, pagerState, hostMaps, asleep, held, mapState, todo, snap,
                   after, owed, budget>>

\* Cells that an operation has changed in the host file and still has to change in their
\* resident pages.
PendingOf(t) ==
    IF pc[t] # "commit" \/ op[t].kind = "read" THEN {}
    ELSE {c \in Cells : /\ PageOf(c) \in Resident(t)
                        /\ IF op[t].kind = "write"
                           THEN c \in op[t].first .. op[t].last /\ PageOf(c) \in todo[t]
                           ELSE (c < op[t].old) # (c < op[t].new)}

(***************************************************************************)
(* guest_file_pager_release and the end of a pager.                        *)
(***************************************************************************)
Release(t) ==
    /\ At(t, "release")
    /\ LET g == held[t] IN
       IF pager[g].refs > 1
       THEN /\ pager' = [pager EXCEPT ![g].refs = @ - 1]
            /\ held' = [held EXCEPT ![t] = None]
            /\ Goto(t, after[t])
            /\ after' = [after EXCEPT ![t] = "idle"]
       ELSE /\ pager' = [pager EXCEPT ![g].refs = 0, ![g].life = "draining"]
            /\ Goto(t, "drain")
            /\ UNCHANGED <<held, after>>
    /\ UNCHANGED <<fileState, slot, cache, ioLock, hostMaps, asleep, op, mapState, todo,
                   snap, out, owed, budget>>

\* pager_requires_drain
RequiresDrain(g) ==
    pager[g].undurable \/ \E p \in DOMAIN cache[g] : cache[g][p].dirty

Drain(t) ==
    /\ At(t, "drain")
    /\ IF RequiresDrain(held[t])
       THEN /\ op' = [op EXCEPT ![t] = [kind |-> "sync", by |-> "drain", range |-> Pages, full |-> TRUE]]
            /\ Goto(t, "syncLock")
       ELSE Goto(t, "dead") /\ UNCHANGED op
    /\ UNCHANGED <<fileState, pagerState, ioLock, hostMaps, asleep, held, mapState,
                   todo, snap, after, out, owed, budget>>

\* release_file_pager: the weak slot is cleared and its waiters are told.
ClearSlot(t) ==
    IF slot = held[t] THEN slot' = None /\ asleep' = {} ELSE UNCHANGED <<slot, asleep>>

\* The pager is DEAD, which to others is the same as DRAINING, until release_file_pager has
\* cleared the weak slot and notified; destroy_cache frees the pages.
Destroy(t) ==
    /\ At(t, "dead")
    /\ ClearSlot(t)
    /\ pager' = [pager EXCEPT ![held[t]] = NoPager]
    /\ cache' = [cache EXCEPT ![held[t]] = NoCache]
    /\ held' = [held EXCEPT ![t] = None]
    /\ Goto(t, after[t])
    /\ after' = [after EXCEPT ![t] = "idle"]
    /\ UNCHANGED <<fileState, ioLock, hostMaps, op, mapState, todo, snap, out, owed,
                   budget>>

\* register_failed_drain: one reference for the list of orphans, one for the callback.
FailedDrain(t) ==
    /\ At(t, "failed")
    /\ pager' = [pager EXCEPT ![held[t]].life = "live", ![held[t]].refs = 2,
                              ![held[t]].orphan = TRUE]
    /\ Goto(t, "notify")
    /\ UNCHANGED <<fileState, slot, cache, ioLock, hostMaps, asleep, op, held, mapState,
                   todo, snap, after, out, owed, budget>>


\* Wrong variant: a failed drain tells nobody.
NotifyFailedDrainSilently(t) ==
    /\ At(t, "notify")
    /\ Goto(t, "release")
    /\ UNCHANGED <<fileState, pagerState, ioLock, hostMaps, asleep, op, held, mapState,
                   todo, snap, after, out, owed, budget>>

NotifyFailedDrain(t) ==
    /\ At(t, "notify")
    /\ asleep' = {}
    /\ Goto(t, "release")
    /\ UNCHANGED <<fileState, pagerState, ioLock, hostMaps, op, held, mapState, todo,
                   snap, after, out, owed, budget>>

\* guest_file_pager_retry_orphans; one file has at most one orphan.
RetryOrphans(t) ==
    /\ At(t, "idle") /\ Spend("ops")
    /\ \E g \in Pagers :
          /\ pager[g].orphan
          /\ pager' = [pager EXCEPT ![g].orphan = FALSE]
          /\ held' = [held EXCEPT ![t] = g]
    /\ Goto(t, "release")
    /\ UNCHANGED <<fileState, slot, cache, ioLock, hostMaps, asleep, op, mapState, todo,
                   snap, after, out, owed>>

(***************************************************************************)
(* guest_file_pager_sync_range: the write-back of the dirty pages of a     *)
(* range and the host sync, all under file_io_lock.                        *)
(***************************************************************************)
SyncLock(t) ==
    /\ At(t, "syncLock") /\ ioLock = None
    /\ ioLock' = t
    /\ todo' = [todo EXCEPT ![t] = DOMAIN cache[held[t]] \intersect op[t].range]
    /\ Goto(t, "syncPage")
    /\ UNCHANGED <<fileState, pagerState, hostMaps, asleep, op, held, mapState, snap,
                   after, out, owed, budget>>

\* guest_page_backing_copy_dirty
CopyDirty(t) ==
    /\ At(t, "syncPage")
    /\ IF todo[t] = {}
       THEN Goto(t, "syncHost") /\ UNCHANGED <<todo, snap, owed>>
       ELSE LET p == Min(todo[t])
                page == cache[held[t]][p]
            IN  /\ todo' = [todo EXCEPT ![t] = @ \ {p}]
                /\ IF page.dirty
                   THEN /\ snap' = [page |-> p, bytes |-> page.bytes, fresh |-> TRUE]
                        /\ owed' = [u \in Threads |->
                                       {IF w[2] = "page" /\ PageOf(w[1]) = p
                                        THEN <<w[1], "copied">> ELSE w : w \in owed[u]}]
                        /\ Goto(t, "syncWrite")
                   ELSE UNCHANGED <<snap, pc, owed>>
    /\ UNCHANGED <<fileState, pagerState, ioLock, hostMaps, asleep, op, held, mapState,
                   after, out, budget>>

SyncReturn(t, ok) ==
    Goto(t, IF op[t].by = "drain" THEN (IF ok THEN "dead" ELSE "failed")
            ELSE "release")

\* Where an fsync goes on once its pager is released.
AfterSync(t, ok) ==
    IF op[t].by = "drain" THEN after[t]
    ELSE IF ~ok \/ op[t].by = "msync" THEN "idle"
    ELSE IF op[t].by = "fdatasync" THEN "synced" ELSE "hostSync"

\* write_file_page: only what lies within the file, and only with a writable descriptor.
WritePage(t) ==
    /\ At(t, "syncWrite")
    /\ pager[held[t]].writer
    /\ LET S == {c \in CellsOf(snap.page) : c < size} IN
       /\ disk' = [c \in Cells |-> IF c \in S THEN snap.bytes[c] ELSE disk[c]]
       /\ unsynced' = unsynced \union S
       /\ owed' = [u \in Threads |->
                      {IF /\ w[1] \in S
                          /\ \/ w[2] = "copied"
                             \/ cache[held[t]][snap.page].bytes[w[1]] = snap.bytes[w[1]]
                       THEN <<w[1], "disk">> ELSE w : w \in owed[u]}]
    /\ Goto(t, "syncFinish")
    /\ UNCHANGED <<size, pagerState, ioLock, hostMaps, asleep, op, held, mapState, todo,
                   snap, after, out, budget>>

\* A failed page write may have written a part of the page.
WritePageFails(t) ==
    /\ At(t, "syncWrite")
    /\ IF pager[held[t]].writer THEN Spend("fails") ELSE UNCHANGED budget
    /\ \E n \in 0 .. IF pager[held[t]].writer THEN PageSize - 1 ELSE 0 :
          disk' = [c \in Cells |-> IF /\ PageOf(c) = snap.page /\ c < size
                                     /\ c < snap.page * PageSize + n
                                  THEN snap.bytes[c] ELSE disk[c]]
    /\ snap' = None
    /\ todo' = [todo EXCEPT ![t] = {}]
    /\ ioLock' = None
    /\ SyncReturn(t, FALSE)
    /\ after' = [after EXCEPT ![t] = AfterSync(t, FALSE)]
    /\ op' = [op EXCEPT ![t] = NoOp]
    /\ owed' = IF op[t].by = "drain" THEN owed ELSE [owed EXCEPT ![t] = {}]
    /\ UNCHANGED <<size, unsynced, pagerState, hostMaps, asleep, held, mapState, out>>


\* Wrong variant: clean after every write-back.
FinishedAlways(page) == [page EXCEPT !.dirty = FALSE]

\* guest_page_backing_finish_writeback: only if the page is as it was copied.
Finished(page) == [page EXCEPT !.dirty = @ /\ ~snap.fresh]


\* Wrong variant: does not count the written page as a write to be made durable.
FinishWritebackUncounted(t) ==
    /\ At(t, "syncFinish")
    /\ cache' = [cache EXCEPT ![held[t]][snap.page] = Finished(@)]
    /\ snap' = None
    /\ Goto(t, "syncPage")
    /\ UNCHANGED <<fileState, slot, pager, ioLock, hostMaps, asleep, op, held, mapState,
                   todo, after, out, owed, budget>>

FinishWriteback(t) ==
    /\ At(t, "syncFinish")
    /\ cache' = [cache EXCEPT ![held[t]][snap.page] = Finished(@)]
    /\ pager' = [pager EXCEPT ![held[t]].undurable = TRUE]
    /\ snap' = None
    /\ Goto(t, "syncPage")
    /\ UNCHANGED <<fileState, slot, ioLock, hostMaps, asleep, op, held, mapState, todo,
                   after, out, owed, budget>>

\* A host sync makes durable all that is in the host file.
HostSynced ==
    /\ unsynced' = {}
    /\ owed' = [t \in Threads |-> {w \in owed[t] : w[2] # "disk"}]

\* sync_file_range; only a sync of the whole file counts as durability of the pager.
HostSyncRange(t) ==
    /\ At(t, "syncHost")
    /\ HostSynced
    /\ pager' = [pager EXCEPT ![held[t]].undurable = @ /\ ~op[t].full]
    /\ ioLock' = None
    /\ SyncReturn(t, TRUE)
    /\ after' = [after EXCEPT ![t] = AfterSync(t, TRUE)]
    /\ op' = [op EXCEPT ![t] = NoOp]
    /\ UNCHANGED <<disk, size, slot, cache, hostMaps, asleep, held, mapState, todo,
                   snap, out, budget>>

HostSyncRangeFails(t) ==
    /\ At(t, "syncHost") /\ Spend("fails")
    /\ ioLock' = None
    /\ SyncReturn(t, FALSE)
    /\ after' = [after EXCEPT ![t] = AfterSync(t, FALSE)]
    /\ op' = [op EXCEPT ![t] = NoOp]
    /\ owed' = IF op[t].by = "drain" THEN owed ELSE [owed EXCEPT ![t] = {}]
    /\ UNCHANGED <<fileState, pagerState, hostMaps, asleep, held, mapState, todo, snap,
                   out>>

(***************************************************************************)
(* fsync and fdatasync (file_sync_fd), and msync of one mapped page.       *)
(***************************************************************************)
CurrentPages == IF slot = None THEN NoCache ELSE cache[slot]

\* Cells whose value is in a resident page alone, and not about to be replaced.
Modified == {c \in Cells : /\ c < size /\ PageOf(c) \in DOMAIN CurrentPages
                           /\ \A t \in Threads : c \notin PendingOf(t)
                           /\ CurrentPages[PageOf(c)].bytes[c] # disk[c]}

StartSync(t, kind) ==
    /\ At(t, "idle") /\ Spend("ops")
    /\ op' = [op EXCEPT ![t] = [kind |-> "sync", by |-> kind, range |-> Pages, full |-> TRUE]]
    /\ owed' = [owed EXCEPT ![t] = {<<c, "page">> : c \in Modified}
                                   \union {<<c, "disk">> : c \in unsynced}]
    /\ Goto(t, "retain")
    /\ UNCHANGED <<fileState, pagerState, ioLock, hostMaps, asleep, held, mapState,
                   todo, snap, after, out>>


\* Wrong variant: a draining pager counts as no pager.
RetainForSyncNoWait(t) ==
    /\ At(t, "retain")
    /\ IF slot # None /\ Live(slot)
       THEN /\ pager' = Retained(slot)
            /\ held' = [held EXCEPT ![t] = slot]
            /\ Goto(t, "syncLock")
            /\ UNCHANGED op
       ELSE /\ op' = [op EXCEPT ![t] = NoOp]
            /\ Goto(t, "hostSync")
            /\ UNCHANGED <<pager, held>>
    /\ UNCHANGED <<fileState, slot, cache, ioLock, hostMaps, asleep, mapState, todo,
                   snap, after, out, owed, budget>>

\* retain_file_pager
RetainForSync(t) ==
    /\ At(t, "retain")
    /\ \/ /\ slot # None /\ Live(slot)
          /\ pager' = Retained(slot)
          /\ held' = [held EXCEPT ![t] = slot]
          /\ Goto(t, "syncLock")
          /\ UNCHANGED <<asleep, op>>
       \/ /\ slot # None /\ ~Live(slot)
          /\ asleep' = asleep \union {t}
          /\ UNCHANGED <<pager, held, pc, op>>
       \/ /\ slot = None
          /\ op' = [op EXCEPT ![t] = NoOp]
          /\ Goto(t, "hostSync")
          /\ UNCHANGED <<pager, held, asleep>>
    /\ UNCHANGED <<fileState, slot, cache, ioLock, hostMaps, mapState, todo, snap,
                   after, out, owed, budget>>

HostSync(t) ==
    /\ At(t, "hostSync") /\ ioLock = None
    /\ HostSynced
    /\ Goto(t, "synced")
    /\ UNCHANGED <<disk, size, pagerState, ioLock, hostMaps, asleep, op, held, mapState,
                   todo, snap, after, out, budget>>

HostSyncFails(t) ==
    /\ At(t, "hostSync") /\ ioLock = None /\ Spend("fails")
    /\ owed' = [owed EXCEPT ![t] = {}]
    /\ Goto(t, "idle")
    /\ UNCHANGED <<fileState, pagerState, ioLock, hostMaps, asleep, op, held, mapState,
                   todo, snap, after, out>>

SyncReturns(t) ==
    /\ At(t, "synced")
    /\ owed' = [owed EXCEPT ![t] = {}]
    /\ Goto(t, "idle")
    /\ UNCHANGED <<fileState, pagerState, ioLock, hostMaps, asleep, op, held, mapState,
                   todo, snap, after, out, budget>>

Msync(t, p) ==
    /\ At(t, "idle") /\ map[t] # None /\ mapWriter[t] /\ Spend("ops")
    /\ pager' = Retained(map[t])
    /\ held' = [held EXCEPT ![t] = map[t]]
    /\ op' = [op EXCEPT ![t] = [kind |-> "sync", by |-> "msync", range |-> {p}, full |-> FALSE]]
    /\ Goto(t, "syncLock")
    /\ UNCHANGED <<fileState, slot, cache, ioLock, hostMaps, asleep, mapState, todo,
                   snap, after, out, owed>>

(***************************************************************************)
(* Mappings: acquire_inode_pager, page-in, stores, unmapping.              *)
(***************************************************************************)
StartMap(t, w) ==
    /\ At(t, "idle") /\ map[t] = None /\ Spend("ops")
    /\ op' = [op EXCEPT ![t] = [kind |-> "map", writer |-> w]]
    /\ Goto(t, "acquire")
    /\ UNCHANGED <<fileState, pagerState, ioLock, hostMaps, asleep, held, mapState,
                   todo, snap, after, out, owed>>

\* EBUSY while an i386 process maps the host file itself, ENOMEM when memory is short.
MapFails(t) ==
    /\ At(t, "acquire") /\ slot = None
    /\ IF hostMaps # 0 THEN UNCHANGED budget ELSE Spend("fails")
    /\ op' = [op EXCEPT ![t] = NoOp]
    /\ Goto(t, "idle")
    /\ UNCHANGED <<fileState, pagerState, ioLock, hostMaps, asleep, held, mapState,
                   todo, snap, after, out, owed>>

CreatePager(t) ==
    /\ At(t, "acquire") /\ slot = None /\ hostMaps = 0
    /\ \E h \in Pagers : pager[h].life = "none"   \* NumPagers is a bound
    /\ LET g == Min({h \in Pagers : pager[h].life = "none"}) IN
       /\ cand' = [cand EXCEPT ![t] = g]
       /\ pager' = [pager EXCEPT ![g] = [NoPager EXCEPT !.life = "live", !.refs = 1,
                                                        !.writer = op[t].writer]]
    /\ Goto(t, "install")
    /\ UNCHANGED <<fileState, slot, cache, ioLock, hostMaps, asleep, op, held, map,
                   mapWriter, todo, snap, after, out, owed, budget>>

\* The candidate is not needed: it is released like any pager.
DropCandidate(t) ==
    /\ held' = [held EXCEPT ![t] = cand[t]]
    /\ cand' = [cand EXCEPT ![t] = None]
    /\ Goto(t, "release")

\* Both looks at the slot that find a pager: join it, or wait for the end of its drain.
JoinPager(t) ==
    /\ At(t, "acquire") \/ At(t, "install")
    /\ slot # None
    /\ IF ~Live(slot)
       THEN /\ asleep' = asleep \union {t}
            /\ UNCHANGED <<pager, map, op, pc, held, cand>>
       ELSE /\ pager' = Retained(slot)
            /\ map' = [map EXCEPT ![t] = slot]
            /\ UNCHANGED asleep
            /\ IF op[t].writer
               THEN Goto(t, "upgrade") /\ UNCHANGED <<op, held, cand>>
               ELSE /\ op' = [op EXCEPT ![t] = NoOp]
                    /\ IF cand[t] = None
                       THEN Goto(t, "idle") /\ UNCHANGED <<held, cand>>
                       ELSE DropCandidate(t)
    /\ UNCHANGED <<fileState, slot, cache, ioLock, hostMaps, mapWriter, todo, snap,
                   after, out, owed, budget>>


\* Wrong variant: installs the candidate without a second look at the host mappings.
InstallPagerUnchecked(t) ==
    /\ At(t, "install") /\ slot = None
    /\ op' = [op EXCEPT ![t] = NoOp]
    /\ slot' = cand[t]
    /\ map' = [map EXCEPT ![t] = cand[t]]
    /\ mapWriter' = [mapWriter EXCEPT ![t] = op[t].writer]
    /\ cand' = [cand EXCEPT ![t] = None]
    /\ Goto(t, "idle")
    /\ UNCHANGED <<fileState, pager, cache, ioLock, hostMaps, asleep, held, todo, snap,
                   after, out, owed, budget>>

InstallPager(t) ==
    /\ At(t, "install") /\ slot = None
    /\ op' = [op EXCEPT ![t] = NoOp]
    /\ IF hostMaps # 0
       THEN DropCandidate(t) /\ UNCHANGED <<slot, map, mapWriter>>
       ELSE /\ slot' = cand[t]
            /\ map' = [map EXCEPT ![t] = cand[t]]
            /\ mapWriter' = [mapWriter EXCEPT ![t] = op[t].writer]
            /\ cand' = [cand EXCEPT ![t] = None]
            /\ Goto(t, "idle")
            /\ UNCHANGED held
    /\ UNCHANGED <<fileState, pager, cache, ioLock, hostMaps, asleep, todo, snap, after,
                   out, owed, budget>>

\* upgrade_inode_pager_writer
UpgradeWriter(t) ==
    /\ At(t, "upgrade") /\ ioLock = None
    /\ pager' = [pager EXCEPT ![map[t]].writer = TRUE]
    /\ mapWriter' = [mapWriter EXCEPT ![t] = TRUE]
    /\ op' = [op EXCEPT ![t] = NoOp]
    /\ IF cand[t] = None
       THEN Goto(t, "idle") /\ UNCHANGED <<held, cand>>
       ELSE DropCandidate(t)
    /\ UNCHANGED <<fileState, slot, cache, ioLock, hostMaps, asleep, map, todo, snap,
                   after, out, owed, budget>>

Unmap(t) ==
    /\ At(t, "idle") /\ map[t] # None
    /\ held' = [held EXCEPT ![t] = map[t]]
    /\ map' = [map EXCEPT ![t] = None]
    /\ mapWriter' = [mapWriter EXCEPT ![t] = FALSE]
    /\ Goto(t, "release")
    /\ UNCHANGED <<fileState, pagerState, ioLock, hostMaps, asleep, op, cand, todo,
                   snap, after, out, owed, budget>>

\* guest_file_pager_get_page: nobody but the holder of file_io_lock sees the page LOADING.
Loaded(p) ==
    [bytes |-> [c \in CellsOf(p) |-> IF c < size THEN disk[c] ELSE Zero], dirty |-> FALSE]

GetPage(t, p) ==
    /\ At(t, "idle") /\ map[t] # None /\ ioLock = None
    /\ p \notin DOMAIN cache[map[t]]
    /\ p * PageSize < size
    /\ cache' = [cache EXCEPT ![map[t]] =
                     [q \in DOMAIN @ \union {p} |-> IF q = p THEN Loaded(p) ELSE @[q]]]
    /\ UNCHANGED <<fileState, slot, pager, ioLock, hostMaps, asleep, pc, op, held,
                   mapState, todo, snap, after, out, owed, budget>>

\* page_sync_written, under the page's lock alone; cells past the end of the file exist.
Store(t, c, v) ==
    /\ At(t, "idle") /\ map[t] # None /\ mapWriter[t]
    /\ PageOf(c) \in DOMAIN cache[map[t]]
    /\ Spend("stores")
    /\ cache' = [cache EXCEPT ![map[t]][PageOf(c)] =
                     [bytes |-> [@.bytes EXCEPT ![c] = v], dirty |-> TRUE]]
    /\ snap' = IF snap # None /\ snap.page = PageOf(c) THEN [snap EXCEPT !.fresh = FALSE]
               ELSE snap
    /\ UNCHANGED <<fileState, slot, pager, ioLock, hostMaps, asleep, pc, op, held,
                   mapState, todo, after, out, owed>>

(***************************************************************************)
(* Shared mappings of i386 processes are mappings of the host file.        *)
(***************************************************************************)
\* Any number of them at a time, up to MaxOps.
BeginHostMap ==
    /\ slot = None /\ Spend("ops")
    /\ hostMaps' = hostMaps + 1
    /\ UNCHANGED <<fileState, pagerState, ioLock, asleep, pc, op, held, mapState, todo,
                   snap, after, out, owed>>

EndHostMap ==
    /\ hostMaps # 0
    /\ hostMaps' = hostMaps - 1
    /\ UNCHANGED <<fileState, pagerState, ioLock, asleep, pc, op, held, mapState, todo,
                   snap, after, out, owed, budget>>

HostStore(c, v) ==
    /\ hostMaps # 0 /\ c < size /\ Spend("stores")
    /\ disk' = [disk EXCEPT ![c] = v]
    /\ UNCHANGED <<size, unsynced, pagerState, ioLock, hostMaps, asleep, pc, op, held,
                   mapState, todo, snap, after, out, owed>>

(***************************************************************************)
(* The specification                                                       *)
(***************************************************************************)
\* What a thread does once it is inside an operation.
Step(t) ==
    \/ BeginIo(t) \/ LockIo(t) \/ LockIoBare(t)
    \/ HostRead(t) \/ HostWrite(t) \/ HostResize(t) \/ HostFails(t)
    \/ CommitRead(t) \/ CommitWrite(t) \/ CommitResize(t) \/ EndIo(t)
    \/ Release(t) \/ Drain(t) \/ Destroy(t)
    \/ FailedDrain(t) \/ NotifyFailedDrain(t)
    \/ SyncLock(t) \/ CopyDirty(t) \/ WritePage(t) \/ WritePageFails(t)
    \/ FinishWriteback(t) \/ HostSyncRange(t) \/ HostSyncRangeFails(t)
    \/ RetainForSync(t) \/ HostSync(t) \/ HostSyncFails(t) \/ SyncReturns(t)
    \/ MapFails(t) \/ CreatePager(t) \/ JoinPager(t) \/ InstallPager(t)
    \/ UpgradeWriter(t)

\* What it may choose to do between operations.
Choice(t) ==
    \/ \E kind \in {"read", "write", "resize", "grow"} : StartIo(t, kind)
    \/ \E kind \in {"fsync", "fdatasync"} : StartSync(t, kind)
    \/ \E w \in BOOLEAN : StartMap(t, w)
    \/ \E p \in Pages : GetPage(t, p) \/ Msync(t, p)
    \/ \E c \in Cells, v \in Values : Store(t, c, v)
    \/ Unmap(t) \/ RetryOrphans(t)

\* Programs may stop between operations; stopping anywhere else is a deadlock.
Quiet == (\A t \in Threads : pc[t] = "idle") /\ UNCHANGED vars

Next ==
    \/ \E t \in Threads : Step(t) \/ Choice(t)
    \/ BeginHostMap \/ EndHostMap
    \/ \E c \in Cells, v \in Values : HostStore(c, v)
    \/ Quiet

Spec == Init /\ [][Next]_vars

(***************************************************************************)
(* The refinement: the content of a cell is its byte in the resident page, *)
(* or else in the host file.  An operation that has changed the host file  *)
(* and not yet the resident pages still has these to change.               *)
(***************************************************************************)
ChangeOf(t) ==
    [c \in PendingOf(t) |-> IF op[t].kind = "write" THEN op[t].value
                            ELSE IF c < op[t].new THEN Zero ELSE Gone]

Exists(c) ==
    \/ \E t \in Threads : c \in PendingOf(t) /\ c < op[t].old
    \/ c < size /\ \A t \in Threads : c \notin PendingOf(t)

Content ==
    [c \in {d \in Cells : Exists(d)} |->
        IF PageOf(c) \in DOMAIN CurrentPages THEN CurrentPages[PageOf(c)].bytes[c]
        ELSE disk[c]]

Asked(t) ==
    IF \/ pc[t] \notin {"begin", "lock", "bare", "host", "commit"}
       \/ pc[t] = "commit" /\ op[t].kind # "read" THEN "none"
    ELSE IF op[t].kind = "grow" THEN "resize" ELSE op[t].kind

Calls == [t \in Threads |-> Asked(t)]
Changing == [t \in Threads |-> ChangeOf(t)]
Stored == MaxStores - budget.stores

File == INSTANCE CoherentFile
            WITH content <- Content, asked <- Calls, upd <- Changing,
                 stores <- Stored, out <- out

(***************************************************************************)
(* Properties                                                              *)
(***************************************************************************)
\* read, write, truncate, shared mappings and the host mapping see one file: page-in,
\* write-back, failed drains, the end of a pager and its revival change nothing.
ImplementsFile == File!FileSpec

\* There is never a second cache of a file: every mapping holds the pager in the slot, no
\* other pager has pages, and the host file is not mapped while there is a pager.
OneCache ==
    /\ hostMaps # 0 => slot = None
    /\ \A t \in Threads : map[t] # None => map[t] = slot /\ Live(slot)
    /\ \A g \in Pagers : DOMAIN cache[g] # {} => g = slot

\* The reference count of a live pager is the number of its holders (mappings, operations,
\* candidates, the list of orphans); a pager that ends has one thread working on it.
RefsExact ==
    \A g \in Pagers :
        LET holders == Cardinality({t \in Threads : map[t] = g})
                       + Cardinality({t \in Threads : held[t] = g})
                       + Cardinality({t \in Threads : cand[t] = g})
        IN  CASE pager[g].life = "none" -> holders = 0 /\ slot # g /\ ~pager[g].orphan
              [] pager[g].life = "live" ->
                    pager[g].refs = holders + (IF pager[g].orphan THEN 1 ELSE 0)
              [] OTHER -> holders = 1 /\ ~pager[g].orphan

\* Pages written back and not yet made durable keep the pager: it is still in the slot
\* and will not end without another sync.
UndurableKept == unsynced # {} => slot # None /\ RequiresDrain(slot)

\* When fsync or fdatasync reports success, every store and every write-back that came
\* before the call is in the host file and the host was told to make it durable.
FsyncDurable == \A t \in Threads : pc[t] = "synced" => owed[t] = {}

\* Nobody sleeps through the end of a drain: while a thread waits for file_pager_changed,
\* another one is still working on the pager in the slot and has its notification ahead.
SleeperHasWaker ==
    asleep # {} =>
        \E t \in Threads \ asleep :
            /\ slot # None /\ held[t] = slot
            /\ pager[slot].life = "draining" \/ pc[t] = "notify"

\* A resident page that counts as clean is what the host file holds.
CleanPageIsFile ==
    ioLock = None =>
        \A p \in DOMAIN CurrentPages :
            ~CurrentPages[p].dirty =>
                \A c \in CellsOf(p) : c < size => CurrentPages[p].bytes[c] = disk[c]

====
