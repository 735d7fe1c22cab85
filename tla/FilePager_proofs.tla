------------------------- MODULE FilePager_proofs -------------------------
(***************************************************************************)
(* Proofs about FilePager, for every number of threads, pagers, pages and  *)
(* cells and every bound on the environment: there is one cache of the     *)
(* file, reference counts are exact, nobody sleeps through the end of a    *)
(* drain, and what was written back keeps its pager until it is durable.   *)
(* As long as no write leaves a hole (with holes TLC shows the contrary):  *)
(* clean pages are what the host file holds, an fsync that succeeds has    *)
(* made everything before it durable, and the cache implements             *)
(* CoherentFile.                                                           *)
(***************************************************************************)
EXTENDS FilePager, FiniteSetTheorems, TLAPS

----------------------------------------------------------------------------
(* The inductive invariant *)

\* Labels of a thread that has file_io_lock.
Syncing == {"syncPage", "syncWrite", "syncFinish", "syncHost"}
Locked == {"host", "commit", "end"} \union Syncing

\* Labels of a thread whose operation certainly has a pager, or has none.
Ends == {"drain", "dead", "failed"}
Holding == Ends \union Syncing \union {"lock", "release", "notify", "syncLock"}
Mapping == {"acquire", "install", "upgrade"}
Free == Mapping \union {"idle", "begin", "bare", "retain", "hostSync", "synced"}
Labels == Holding \union Locked \union Free

Lives == {"none", "live", "draining"}
PagerStates == [life : Lives, refs : Nat, orphan : BOOLEAN,
                writer : BOOLEAN, undurable : BOOLEAN]

TypeInv ==
    /\ slot \in Pagers \union {None}
    /\ pager \in [Pagers -> PagerStates]
    /\ DOMAIN cache = Pagers
    /\ \A g \in Pagers : DOMAIN cache[g] \subseteq Pages
    /\ hostMaps \in Nat
    /\ asleep \subseteq Threads
    /\ pc \in [Threads -> Labels]
    /\ DOMAIN op = Threads
    /\ held \in [Threads -> Pagers \union {None}]
    /\ map \in [Threads -> Pagers \union {None}]
    /\ cand \in [Threads -> Pagers \union {None}]
    /\ after \in [Threads -> {"idle", "synced", "hostSync"}]
    /\ DOMAIN todo = Threads

\* What a thread holds at each of its labels.
SeatOf(t) ==
    /\ pc[t] \in Holding => held[t] # None
    /\ pc[t] \in Free => held[t] = None
    /\ pc[t] = "install" => cand[t] # None
    /\ cand[t] # None => pc[t] \in {"install", "upgrade"}
    /\ pc[t] \in {"acquire", "install"} => map[t] = None
    /\ pc[t] = "upgrade" => map[t] # None
    /\ t \in asleep => pc[t] \in {"begin", "retain", "acquire", "install"}

\* The operation it is in, as far as its next steps depend on it.
OpOf(t) ==
    /\ pc[t] \in Mapping => op[t].writer \in BOOLEAN
    /\ pc[t] \in Syncing \union {"syncLock"} =>
          op[t].by \in {"drain", "msync", "fsync", "fdatasync"}
    /\ pc[t] = "retain" => op[t].by \in {"fsync", "fdatasync"}
    /\ pc[t] \in Syncing \union {"syncLock"} /\ op[t].by = "drain" => op[t].full

\* The thread works on the end of the pager it holds.
Ending(t) ==
    \/ pc[t] \in Ends
    \/ pc[t] \in Syncing \union {"syncLock"} /\ op[t].by = "drain"

\* What a pager is to those who hold it.
LifeOf(t) ==
    /\ held[t] # None =>
          pager[held[t]].life = IF Ending(t) THEN "draining" ELSE "live"
    /\ cand[t] # None =>
          /\ cand[t] # slot /\ Live(cand[t])
          /\ pager[cand[t]].refs = 1 /\ ~pager[cand[t]].orphan

\* file_io_lock excludes.
LockOf(t) == ioLock = t <=> pc[t] \in Locked

\* A page stays resident and dirty from its copy to the end of its write-back.
SnapOf(t) ==
    /\ pc[t] \in {"syncPage", "syncWrite", "syncFinish"} =>
          todo[t] \subseteq DOMAIN cache[held[t]]
    /\ pc[t] \in {"syncWrite", "syncFinish"} =>
          /\ snap = [page |-> snap.page, bytes |-> snap.bytes, fresh |-> snap.fresh]
          /\ snap.page \in DOMAIN cache[held[t]]
          /\ cache[held[t]][snap.page].dirty

\* UndurableKept between write-backs, and at the end of a pager.
UnsyncedInv ==
    /\ unsynced # {} =>
          /\ slot # None
          /\ pager[slot].undurable \/ \E t \in Threads : pc[t] = "syncFinish" /\ held[t] = slot
    /\ \A t \in Threads : pc[t] = "dead" /\ held[t] = slot => unsynced = {}

Count(f, g) == Cardinality({t \in Threads : f[t] = g})
Holders(g) == Count(map, g) + Count(held, g) + Count(cand, g)

\* RefsExact, pager by pager.
RefsOf(g) ==
    /\ pager[g].life = "none" => Holders(g) = 0 /\ slot # g /\ ~pager[g].orphan
    /\ pager[g].life = "live" => pager[g].refs = Holders(g) + (IF pager[g].orphan THEN 1 ELSE 0)
    /\ pager[g].life = "draining" => Holders(g) = 1 /\ ~pager[g].orphan

SeatInv == \A t \in Threads : SeatOf(t) /\ OpOf(t)
LifeInv == \A t \in Threads : LifeOf(t)
RefsInv == \A g \in Pagers : RefsOf(g)
LockInv == \A t \in Threads : LockOf(t)
SnapInv == \A t \in Threads : SnapOf(t)

\* The pagers and who holds them.
HoldInv == TypeInv /\ SeatInv /\ LifeInv /\ OneCache /\ RefsInv

PagerInv == HoldInv /\ SleeperHasWaker /\ LockInv /\ SnapInv /\ UnsyncedInv

----------------------------------------------------------------------------
(* Minima and counts *)

\* A nonempty set of naturals has its minimum as a member.
LEMMA MinMember == ASSUME NEW S \in SUBSET Nat, S # {} PROVE Min(S) \in S
<1> DEFINE R == OpToRel(<, Nat)
<1>1. \A x, y \in Nat : <<y, x>> \in R <=> y < x
  BY DEF OpToRel
<1>2. IsWellFoundedOn(R, Nat)
  BY NatLessThanWellFounded
<1> HIDE DEF R
<1>3. PICK x \in S : \A y \in S : ~(<<y, x>> \in R)
  BY <1>2, WFMin
<1>4. ASSUME NEW y \in S PROVE x =< y
  <2>1. x \in Nat /\ y \in Nat
    OBVIOUS
  <2>2. ~(<<y, x>> \in R)
    BY <1>3
  <2>3. ~(y < x)
    BY <1>1, <2>1, <2>2
  <2>4. QED
    BY <2>1, <2>3
<1>5. QED
  BY <1>4 DEF Min

\* The sizes of two sets that differ in one element at most.
LEMMA SizeMove ==
    ASSUME NEW A, NEW B, NEW t, IsFiniteSet(A), IsFiniteSet(B), A \ {t} = B \ {t}
    PROVE  /\ Cardinality(A) \in Nat /\ Cardinality(B) \in Nat
           /\ (t \in A <=> t \in B) => Cardinality(B) = Cardinality(A)
           /\ t \in A /\ t \notin B => Cardinality(B) = Cardinality(A) - 1
           /\ t \notin A /\ t \in B => Cardinality(B) = Cardinality(A) + 1
<1>1. Cardinality(A) \in Nat /\ Cardinality(B) \in Nat
  BY FS_CardinalityType
<1>2. /\ Cardinality(A \ {t}) = IF t \in A THEN Cardinality(A) - 1 ELSE Cardinality(A)
      /\ Cardinality(B \ {t}) = IF t \in B THEN Cardinality(B) - 1 ELSE Cardinality(B)
  BY FS_RemoveElement
<1>3. Cardinality(A \ {t}) = Cardinality(B \ {t})
  OBVIOUS
<1>4. QED
  BY <1>1, <1>2, <1>3

\* What a count says about the threads.
LEMMA CountFacts ==
    ASSUME NEW f, NEW g
    PROVE  /\ Count(f, g) \in Nat
           /\ Count(f, g) = 0 <=> \A t \in Threads : f[t] # g
           /\ Count(f, g) = 1 => \A t, u \in Threads : f[t] = g /\ f[u] = g => t = u
<1> DEFINE A == {u \in Threads : f[u] = g}
<1>1. IsFiniteSet(A) /\ Cardinality(A) \in Nat
  BY SizesAssumption, FS_Subset, FS_CardinalityType, A \in SUBSET Threads
<1>2. Cardinality(A) = 0 <=> A = {}
  BY <1>1, FS_EmptySet
<1>3. Cardinality(A) = 1 => \E x : A = {x}
  BY <1>1, FS_Singleton
<1>4. QED
  BY <1>1, <1>2, <1>3 DEF Count

\* A pager with one holder left: nobody else knows it.
LEMMA OnlyHolder ==
    ASSUME TypeInv, RefsInv, NEW t \in Threads, NEW g \in Pagers,
           held[t] = g \/ cand[t] = g,
           \/ pager[g].life = "draining"
           \/ pager[g].life = "live" /\ ~(pager[g].refs > 1)
    PROVE  /\ ~pager[g].orphan
           /\ \A u \in Threads : map[u] # g
           /\ \A u \in Threads : held[t] = g => cand[u] # g /\ (held[u] = g => u = t)
           /\ \A u \in Threads : cand[t] = g => held[u] # g /\ (cand[u] = g => u = t)
<1>1. /\ Count(map, g) \in Nat /\ Count(held, g) \in Nat /\ Count(cand, g) \in Nat
      /\ held[t] = g => Count(held, g) # 0
      /\ cand[t] = g => Count(cand, g) # 0
  BY CountFacts
<1>2. pager[g].refs \in Nat /\ pager[g].orphan \in BOOLEAN
  BY DEF TypeInv, PagerStates
<1>3. Holders(g) = 1 /\ ~pager[g].orphan
  <2>1. CASE pager[g].life = "draining"
    BY <2>1 DEF RefsInv, RefsOf
  <2>2. CASE pager[g].life = "live" /\ ~(pager[g].refs > 1)
    <3>1. pager[g].refs = Holders(g) + (IF pager[g].orphan THEN 1 ELSE 0)
      BY <2>2 DEF RefsInv, RefsOf
    <3>2. Holders(g) >= 1
      BY <1>1 DEF Holders
    <3>3. Holders(g) \in Nat
      BY <1>1 DEF Holders
    <3>4. ~pager[g].orphan
      BY <1>2, <2>2, <3>1, <3>2, <3>3
    <3>5. QED
      BY <1>2, <2>2, <3>1, <3>2, <3>3, <3>4
  <2>3. QED
    BY <2>1, <2>2
<1>4. Count(map, g) = 0
  BY <1>1, <1>3 DEF Holders
<1>5. held[t] = g => Count(held, g) = 1 /\ Count(cand, g) = 0
  BY <1>1, <1>3 DEF Holders
<1>6. cand[t] = g => Count(cand, g) = 1 /\ Count(held, g) = 0
  BY <1>1, <1>3 DEF Holders
<1>7. QED
  BY <1>3, <1>4, <1>5, <1>6, CountFacts

----------------------------------------------------------------------------
(* What the actions do to a pager *)

\* r has these fields.
Fields(r, life, refs, orphan, writer, undurable) ==
    /\ r \in PagerStates
    /\ r.life = life /\ r.refs = refs /\ (r.orphan <=> orphan)
    /\ (r.writer <=> writer) /\ (r.undurable <=> undurable)

\* Pager g gets these fields, the others stay.
Becomes(g, life, refs, orphan, writer, undurable) ==
    /\ pager' \in [Pagers -> PagerStates]
    /\ Fields(pager'[g], life, refs, orphan, writer, undurable)
    /\ \A h \in Pagers : h # g => pager'[h] = pager[h]

\* An EXCEPT of the field life.
LEMMA SetLife ==
    ASSUME NEW q \in PagerStates, NEW x \in Lives
    PROVE  Fields([q EXCEPT !.life = x], x, q.refs, q.orphan, q.writer, q.undurable)
BY DEF PagerStates, Fields

\* An EXCEPT of the field refs.
LEMMA SetRefs ==
    ASSUME NEW q \in PagerStates, NEW x \in Nat
    PROVE  Fields([q EXCEPT !.refs = x], q.life, x, q.orphan, q.writer, q.undurable)
BY DEF PagerStates, Fields

\* An EXCEPT of the field orphan.
LEMMA SetOrphan ==
    ASSUME NEW q \in PagerStates, NEW x \in BOOLEAN
    PROVE  Fields([q EXCEPT !.orphan = x], q.life, q.refs, x, q.writer, q.undurable)
BY DEF PagerStates, Fields

\* An EXCEPT of the field writer.
LEMMA SetWriter ==
    ASSUME NEW q \in PagerStates, NEW x \in BOOLEAN
    PROVE  Fields([q EXCEPT !.writer = x], q.life, q.refs, q.orphan, x, q.undurable)
BY DEF PagerStates, Fields

\* An EXCEPT of the field undurable.
LEMMA SetUndurable ==
    ASSUME NEW q \in PagerStates, NEW x \in BOOLEAN
    PROVE  Fields([q EXCEPT !.undurable = x], q.life, q.refs, q.orphan, q.writer, x)
BY DEF PagerStates, Fields

\* A change of one pager record.
LEMMA PagerEdit ==
    ASSUME TypeInv, NEW g \in Pagers, NEW r, pager' = [pager EXCEPT ![g] = r],
           NEW l, NEW n, NEW a, NEW w, NEW b, Fields(r, l, n, a, w, b)
    PROVE  Becomes(g, l, n, a, w, b)
BY DEF TypeInv, Becomes, Fields

\* Every update of a pager the actions make, as the fields it leaves.
LEMMA PagerUpdates ==
    ASSUME TypeInv, NEW g \in Pagers
    PROVE  LET q == pager[g] IN
           /\ pager' = Retained(g) =>
                Becomes(g, q.life, IF q.orphan THEN q.refs ELSE q.refs + 1, FALSE, q.writer, q.undurable)
           /\ q.refs > 1 /\ pager' = [pager EXCEPT ![g].refs = @ - 1] =>
                Becomes(g, q.life, q.refs - 1, q.orphan, q.writer, q.undurable)
           /\ pager' = [pager EXCEPT ![g].refs = 0, ![g].life = "draining"] =>
                Becomes(g, "draining", 0, q.orphan, q.writer, q.undurable)
           /\ pager' = [pager EXCEPT ![g].life = "live", ![g].refs = 2, ![g].orphan = TRUE] =>
                Becomes(g, "live", 2, TRUE, q.writer, q.undurable)
           /\ pager' = [pager EXCEPT ![g].orphan = FALSE] =>
                Becomes(g, q.life, q.refs, FALSE, q.writer, q.undurable)
           /\ pager' = [pager EXCEPT ![g].writer = TRUE] =>
                Becomes(g, q.life, q.refs, q.orphan, TRUE, q.undurable)
           /\ \A b \in BOOLEAN : pager' = [pager EXCEPT ![g].undurable = b] =>
                Becomes(g, q.life, q.refs, q.orphan, q.writer, b)
<1> DEFINE q == pager[g]
<1>1. q \in PagerStates
  BY DEF TypeInv
<1>2. /\ q.life \in Lives /\ q.refs \in Nat /\ q.orphan \in BOOLEAN
      /\ q.writer \in BOOLEAN /\ q.undurable \in BOOLEAN
  BY <1>1 DEF PagerStates
<1>3. ASSUME pager' = Retained(g)
      PROVE  Becomes(g, q.life, IF q.orphan THEN q.refs ELSE q.refs + 1, FALSE, q.writer, q.undurable)
  <2> DEFINE r1 == [q EXCEPT !.refs = IF q.orphan THEN q.refs ELSE q.refs + 1]
             r2 == [r1 EXCEPT !.orphan = FALSE]
  <2>1. pager' = [pager EXCEPT ![g] = r2]
    BY <1>3 DEF Retained
  <2>2. (IF q.orphan THEN q.refs ELSE q.refs + 1) \in Nat
    BY <1>2 DEF Lives
  <2>3. Fields(r1, q.life, IF q.orphan THEN q.refs ELSE q.refs + 1, q.orphan, q.writer, q.undurable)
    BY <1>1, <2>2, SetRefs
  <2>4. (FALSE) \in BOOLEAN
    BY <1>2 DEF Lives
  <2>5. Fields(r2, r1.life, r1.refs, FALSE, r1.writer, r1.undurable)
    BY <1>1, <2>4, <2>3, SetOrphan DEF Fields
  <2> HIDE DEF r1, r2
  <2>6. Fields(r2, q.life, IF q.orphan THEN q.refs ELSE q.refs + 1, FALSE, q.writer, q.undurable)
    BY <1>2, <2>3, <2>5 DEF Fields
  <2>7. QED
    BY <2>1, <2>6, PagerEdit
<1>4. ASSUME q.refs > 1, pager' = [pager EXCEPT ![g].refs = @ - 1]
      PROVE  Becomes(g, q.life, q.refs - 1, q.orphan, q.writer, q.undurable)
  <2> DEFINE r1 == [q EXCEPT !.refs = q.refs - 1]
  <2>1. pager' = [pager EXCEPT ![g] = r1]
    BY <1>4
  <2>2. (q.refs - 1) \in Nat
    BY <1>2, <1>4 DEF Lives
  <2>3. Fields(r1, q.life, q.refs - 1, q.orphan, q.writer, q.undurable)
    BY <1>1, <2>2, SetRefs
  <2>4. QED
    BY <2>1, <2>3, PagerEdit
<1>5. ASSUME pager' = [pager EXCEPT ![g].refs = 0, ![g].life = "draining"]
      PROVE  Becomes(g, "draining", 0, q.orphan, q.writer, q.undurable)
  <2> DEFINE r1 == [q EXCEPT !.refs = 0]
             r2 == [r1 EXCEPT !.life = "draining"]
  <2>1. pager' = [pager EXCEPT ![g] = r2]
    BY <1>5
  <2>2. (0) \in Nat
    BY <1>2 DEF Lives
  <2>3. Fields(r1, q.life, 0, q.orphan, q.writer, q.undurable)
    BY <1>1, <2>2, SetRefs
  <2>4. ("draining") \in Lives
    BY <1>2 DEF Lives
  <2>5. Fields(r2, "draining", r1.refs, r1.orphan, r1.writer, r1.undurable)
    BY <1>1, <2>4, <2>3, SetLife DEF Fields
  <2> HIDE DEF r1, r2
  <2>6. Fields(r2, "draining", 0, q.orphan, q.writer, q.undurable)
    BY <1>2, <2>3, <2>5 DEF Fields
  <2>7. QED
    BY <2>1, <2>6, PagerEdit
<1>6. ASSUME pager' = [pager EXCEPT ![g].life = "live", ![g].refs = 2, ![g].orphan = TRUE]
      PROVE  Becomes(g, "live", 2, TRUE, q.writer, q.undurable)
  <2> DEFINE r1 == [q EXCEPT !.life = "live"]
             r2 == [r1 EXCEPT !.refs = 2]
             r3 == [r2 EXCEPT !.orphan = TRUE]
  <2>1. pager' = [pager EXCEPT ![g] = r3]
    BY <1>6
  <2>2. ("live") \in Lives
    BY <1>2 DEF Lives
  <2>3. Fields(r1, "live", q.refs, q.orphan, q.writer, q.undurable)
    BY <1>1, <2>2, SetLife
  <2>4. (2) \in Nat
    BY <1>2 DEF Lives
  <2>5. Fields(r2, r1.life, 2, r1.orphan, r1.writer, r1.undurable)
    BY <1>1, <2>4, <2>3, SetRefs DEF Fields
  <2>6. (TRUE) \in BOOLEAN
    BY <1>2 DEF Lives
  <2>7. Fields(r3, r2.life, r2.refs, TRUE, r2.writer, r2.undurable)
    BY <1>1, <2>6, <2>5, SetOrphan DEF Fields
  <2> HIDE DEF r1, r2, r3
  <2>8. Fields(r3, "live", 2, TRUE, q.writer, q.undurable)
    BY <1>2, <2>3, <2>5, <2>7 DEF Fields
  <2>9. QED
    BY <2>1, <2>8, PagerEdit
<1>7. ASSUME pager' = [pager EXCEPT ![g].orphan = FALSE]
      PROVE  Becomes(g, q.life, q.refs, FALSE, q.writer, q.undurable)
  <2> DEFINE r1 == [q EXCEPT !.orphan = FALSE]
  <2>1. pager' = [pager EXCEPT ![g] = r1]
    BY <1>7
  <2>2. (FALSE) \in BOOLEAN
    BY <1>2 DEF Lives
  <2>3. Fields(r1, q.life, q.refs, FALSE, q.writer, q.undurable)
    BY <1>1, <2>2, SetOrphan
  <2>4. QED
    BY <2>1, <2>3, PagerEdit
<1>8. ASSUME pager' = [pager EXCEPT ![g].writer = TRUE]
      PROVE  Becomes(g, q.life, q.refs, q.orphan, TRUE, q.undurable)
  <2> DEFINE r1 == [q EXCEPT !.writer = TRUE]
  <2>1. pager' = [pager EXCEPT ![g] = r1]
    BY <1>8
  <2>2. (TRUE) \in BOOLEAN
    BY <1>2 DEF Lives
  <2>3. Fields(r1, q.life, q.refs, q.orphan, TRUE, q.undurable)
    BY <1>1, <2>2, SetWriter
  <2>4. QED
    BY <2>1, <2>3, PagerEdit
<1>9. ASSUME NEW b \in BOOLEAN, pager' = [pager EXCEPT ![g].undurable = b]
      PROVE  Becomes(g, q.life, q.refs, q.orphan, q.writer, b)
  <2> DEFINE r1 == [q EXCEPT !.undurable = b]
  <2>1. pager' = [pager EXCEPT ![g] = r1]
    BY <1>9
  <2>2. (b) \in BOOLEAN
    BY <1>2, <1>9 DEF Lives
  <2>3. Fields(r1, q.life, q.refs, q.orphan, q.writer, b)
    BY <1>1, <2>2, SetUndurable
  <2>4. QED
    BY <2>1, <2>3, PagerEdit
<1>10. QED
  BY <1>3, <1>4, <1>5, <1>6, <1>7, <1>8, <1>9

----------------------------------------------------------------------------
(* The kinds of step a thread can take, seen from the pagers *)

USE DEF fileState, pagerState, mapState, At, Goto

\* Pager g gets this life, count and place among the orphans; the others stay.
Moves(g, life, refs, orphan) ==
    /\ g \in Pagers /\ pager' \in [Pagers -> PagerStates]
    /\ pager'[g].life = life /\ pager'[g].refs = refs /\ (pager'[g].orphan <=> orphan)
    /\ \A h \in Pagers : h # g => pager'[h] = pager[h]

\* Nobody gets or gives up a pager.
Rests(t) ==
    /\ pager' \in [Pagers -> PagerStates]
    /\ \A g \in Pagers : /\ pager'[g].life = pager[g].life
                         /\ pager'[g].refs = pager[g].refs
                         /\ pager'[g].orphan <=> pager[g].orphan
    /\ UNCHANGED <<slot, held, map, cand>>
    /\ held[t] # None => (Ending(t)' <=> Ending(t))

\* An operation retains the pager in the slot.
Grabs(t) ==
    /\ held[t] = None /\ slot # None /\ pager[slot].life = "live"
    /\ Moves(slot, "live", IF pager[slot].orphan THEN pager[slot].refs
                           ELSE pager[slot].refs + 1, FALSE)
    /\ held' = [held EXCEPT ![t] = slot]
    /\ UNCHANGED <<slot, map, cand>>
    /\ ~Ending(t)'

\* An operation releases its pager, and it is not the last reference.
Returns(t) ==
    /\ held[t] # None /\ ~Ending(t) /\ pager[held[t]].refs > 1
    /\ Moves(held[t], "live", pager[held[t]].refs - 1, pager[held[t]].orphan)
    /\ held' = [held EXCEPT ![t] = None]
    /\ UNCHANGED <<slot, map, cand>>

\* It is the last one.
Drains(t) ==
    /\ held[t] # None /\ ~Ending(t) /\ ~(pager[held[t]].refs > 1)
    /\ Moves(held[t], "draining", 0, pager[held[t]].orphan)
    /\ UNCHANGED <<slot, held, map, cand>>
    /\ Ending(t)'

\* The pager is gone.
Destroys(t) ==
    /\ held[t] # None /\ Ending(t)
    /\ Moves(held[t], "none", 0, FALSE)
    /\ held' = [held EXCEPT ![t] = None]
    /\ slot' = IF slot = held[t] THEN None ELSE slot
    /\ UNCHANGED <<map, cand>>

\* A failed drain brings the pager back, with two references.
Revives(t) ==
    /\ held[t] # None /\ Ending(t)
    /\ Moves(held[t], "live", 2, TRUE)
    /\ UNCHANGED <<slot, held, map, cand>>
    /\ ~Ending(t)'

\* The reference of the list of orphans becomes the thread's.
Adopts(t) ==
    /\ held[t] = None
    /\ \E g \in Pagers :
          /\ pager[g].orphan
          /\ Moves(g, pager[g].life, pager[g].refs, FALSE)
          /\ held' = [held EXCEPT ![t] = g]
    /\ UNCHANGED <<slot, map, cand>>
    /\ ~Ending(t)'

\* A new pager, known to its creator alone.
Creates(t) ==
    /\ cand[t] = None /\ held[t] = None
    /\ \E g \in Pagers :
          /\ pager[g].life = "none"
          /\ Moves(g, "live", 1, FALSE)
          /\ cand' = [cand EXCEPT ![t] = g]
    /\ UNCHANGED <<slot, held, map>>

\* A mapping takes a reference of the pager in the slot; a candidate that is
\* not needed is about to be released.
Joins(t, drop) ==
    /\ map[t] = None /\ held[t] = None /\ slot # None /\ pager[slot].life = "live"
    /\ drop => cand[t] # None
    /\ Moves(slot, "live", IF pager[slot].orphan THEN pager[slot].refs
                           ELSE pager[slot].refs + 1, FALSE)
    /\ map' = [map EXCEPT ![t] = slot]
    /\ held' = IF drop THEN [held EXCEPT ![t] = cand[t]] ELSE held
    /\ cand' = IF drop THEN [cand EXCEPT ![t] = None] ELSE cand
    /\ UNCHANGED slot
    /\ ~Ending(t)'

\* The candidate is installed, its reference is the mapping's.
Installs(t) ==
    /\ map[t] = None /\ held[t] = None /\ cand[t] # None
    /\ slot = None /\ slot' = cand[t] /\ hostMaps = 0
    /\ map' = [map EXCEPT ![t] = cand[t]]
    /\ cand' = [cand EXCEPT ![t] = None]
    /\ UNCHANGED <<pager, held>>

\* The candidate is not installed.
Discards(t) ==
    /\ held[t] = None /\ cand[t] # None
    /\ pager' \in [Pagers -> PagerStates]
    /\ \A g \in Pagers : /\ pager'[g].life = pager[g].life
                         /\ pager'[g].refs = pager[g].refs
                         /\ pager'[g].orphan <=> pager[g].orphan
    /\ held' = [held EXCEPT ![t] = cand[t]]
    /\ cand' = [cand EXCEPT ![t] = None]
    /\ UNCHANGED <<slot, map>>
    /\ ~Ending(t)'

\* The reference of a mapping is about to be released.
Unmaps(t) ==
    /\ held[t] = None /\ map[t] # None
    /\ held' = [held EXCEPT ![t] = map[t]]
    /\ map' = [map EXCEPT ![t] = None]
    /\ UNCHANGED <<slot, pager, cand>>
    /\ ~Ending(t)'

\* Steps that leave the pagers' counts and holders alone.
LEMMA RestingSteps ==
    ASSUME TypeInv, SeatInv, LifeInv, OneCache, NEW t \in Threads
    PROVE  (LockIo(t) \/ HostRead(t) \/ HostWrite(t) \/ HostResize(t)
              \/ HostFails(t) \/ CommitRead(t) \/ CommitWrite(t)
              \/ CommitResize(t) \/ EndIo(t) \/ Drain(t)
              \/ NotifyFailedDrain(t) \/ SyncLock(t) \/ CopyDirty(t)
              \/ WritePage(t) \/ WritePageFails(t) \/ HostSyncRangeFails(t)
              \/ HostSync(t) \/ HostSyncFails(t) \/ SyncReturns(t)
              \/ MapFails(t) \/ (\E kind : StartIo(t, kind))
              \/ (\E kind : StartSync(t, kind)) \/ (\E w : StartMap(t, w))
              \/ (\E p : GetPage(t, p)) \/ (\E c, v : Store(t, c, v)))
             => Rests(t)
<1> USE DEF TypeInv, SeatInv, SeatOf, OpOf, Holding, Free, Locked, Syncing, Ends, Mapping, Labels
<1>0. ASSUME pager' = pager, UNCHANGED <<slot, held, map, cand>>,
             held[t] # None => (Ending(t)' <=> Ending(t))
      PROVE  Rests(t)
  BY <1>0 DEF Rests
<1>1. ASSUME LockIo(t) PROVE Rests(t)
  BY <1>0, <1>1 DEF LockIo, Ending
<1>2. ASSUME HostRead(t) PROVE Rests(t)
  BY <1>0, <1>2 DEF HostRead, Ending
<1>3. ASSUME HostWrite(t) PROVE Rests(t)
  BY <1>0, <1>3 DEF HostWrite, Ending
<1>4. ASSUME HostResize(t) PROVE Rests(t)
  BY <1>0, <1>4 DEF HostResize, Ending
<1>5. ASSUME HostFails(t) PROVE Rests(t)
  BY <1>0, <1>5 DEF HostFails, Ending
<1>6. ASSUME CommitRead(t) PROVE Rests(t)
  BY <1>0, <1>6 DEF CommitRead, Ending
<1>7. ASSUME CommitWrite(t) PROVE Rests(t)
  BY <1>0, <1>7 DEF CommitWrite, Ending
<1>8. ASSUME CommitResize(t) PROVE Rests(t)
  BY <1>0, <1>8 DEF CommitResize, Ending
<1>9. ASSUME EndIo(t) PROVE Rests(t)
  BY <1>0, <1>9 DEF EndIo, Ending
<1>10. ASSUME Drain(t) PROVE Rests(t)
  BY <1>0, <1>10 DEF Drain, Ending
<1>11. ASSUME NotifyFailedDrain(t) PROVE Rests(t)
  BY <1>0, <1>11 DEF NotifyFailedDrain, Ending
<1>12. ASSUME SyncLock(t) PROVE Rests(t)
  BY <1>0, <1>12 DEF SyncLock, Ending
<1>13. ASSUME CopyDirty(t) PROVE Rests(t)
  BY <1>0, <1>13 DEF CopyDirty, Ending
<1>14. ASSUME WritePage(t) PROVE Rests(t)
  BY <1>0, <1>14 DEF WritePage, Ending
<1>15. ASSUME WritePageFails(t) PROVE Rests(t)
  BY <1>0, <1>15 DEF WritePageFails, SyncReturn, AfterSync, Ending
<1>16. ASSUME HostSyncRangeFails(t) PROVE Rests(t)
  BY <1>0, <1>16 DEF HostSyncRangeFails, SyncReturn, AfterSync, Ending
<1>17. ASSUME HostSync(t) PROVE Rests(t)
  BY <1>0, <1>17 DEF HostSync, Ending
<1>18. ASSUME HostSyncFails(t) PROVE Rests(t)
  BY <1>0, <1>18 DEF HostSyncFails, Ending
<1>19. ASSUME SyncReturns(t) PROVE Rests(t)
  BY <1>0, <1>19 DEF SyncReturns, Ending
<1>20. ASSUME MapFails(t) PROVE Rests(t)
  BY <1>0, <1>20 DEF MapFails, Ending
<1>21. ASSUME NEW kind, StartIo(t, kind) PROVE Rests(t)
  BY <1>0, <1>21 DEF StartIo, Ending
<1>22. ASSUME NEW kind, StartSync(t, kind) PROVE Rests(t)
  BY <1>0, <1>22 DEF StartSync, Ending
<1>23. ASSUME NEW w, StartMap(t, w) PROVE Rests(t)
  BY <1>0, <1>23 DEF StartMap, Ending
<1>24. ASSUME NEW p, GetPage(t, p) PROVE Rests(t)
  BY <1>0, <1>24 DEF GetPage, Ending
<1>25. ASSUME NEW c, NEW v, Store(t, c, v) PROVE Rests(t)
  BY <1>0, <1>25 DEF Store, Ending
<1>26. QED
  BY <1>1, <1>2, <1>3, <1>4, <1>5, <1>6, <1>7, <1>8, <1>9, <1>10, <1>11, <1>12, <1>13, <1>14, <1>15, <1>16, <1>17, <1>18, <1>19, <1>20, <1>21, <1>22, <1>23, <1>24, <1>25

\* The pager that is created was free.
LEMMA FreshPager ==
    ASSUME NEW t, CreatePager(t)
    PROVE  Min({h \in Pagers : pager[h].life = "none"})
              \in {h \in Pagers : pager[h].life = "none"}
<1> DEFINE S == {h \in Pagers : pager[h].life = "none"}
<1>1. S \in SUBSET Nat /\ S # {}
  BY SizesAssumption DEF CreatePager, Pagers
<1>2. QED
  BY <1>1, MinMember

\* Every kind of step.
Kinds(t) ==
    \/ Rests(t) \/ Grabs(t) \/ Returns(t) \/ Drains(t) \/ Destroys(t) \/ Revives(t)
    \/ Adopts(t) \/ Creates(t) \/ Joins(t, TRUE) \/ Joins(t, FALSE) \/ Installs(t)
    \/ Discards(t) \/ Unmaps(t)

\* Every step of a thread is of one of the kinds.
LEMMA StepKinds ==
    ASSUME TypeInv, SeatInv, LifeInv, OneCache, NEW t \in Threads, Step(t) \/ Choice(t)
    PROVE  Kinds(t)
<1> USE DEF TypeInv, SeatInv, SeatOf, OpOf, Holding, Free, Locked, Syncing, Ends, Mapping, Labels
<1>0. None \notin Pagers
  BY SizesAssumption DEF Pagers
<1>1. ASSUME slot # None, Live(slot), pager' = Retained(slot), held[t] = None,
             held' = [held EXCEPT ![t] = slot], UNCHANGED <<slot, map, cand>>, ~Ending(t)'
      PROVE  Grabs(t)
  <2>1. slot \in Pagers
    BY <1>1
  <2>2. Moves(slot, "live", IF pager[slot].orphan THEN pager[slot].refs
                            ELSE pager[slot].refs + 1, FALSE)
    BY <1>1, <2>1, PagerUpdates DEF Becomes, Fields, Moves, Live
  <2>3. QED
    BY <1>1, <2>2 DEF Grabs, Live
<1>2. ASSUME pager' = pager, UNCHANGED <<slot, held, map, cand>>, held[t] = None
      PROVE  Rests(t)
  BY <1>2 DEF Rests
<1>3. ASSUME BeginIo(t) PROVE Rests(t) \/ Grabs(t)
  <2>1. CASE slot # None /\ Live(slot)
    BY <1>1, <1>3, <2>1 DEF BeginIo, Ending
  <2>2. CASE ~(slot # None /\ Live(slot))
    BY <1>2, <1>3, <2>2 DEF BeginIo
  <2>3. QED
    BY <2>1, <2>2
<1>4. ASSUME LockIoBare(t) PROVE Rests(t) \/ Grabs(t)
  <2>1. CASE slot # None /\ Live(slot)
    BY <1>1, <1>4, <2>1 DEF LockIoBare, Ending
  <2>2. CASE ~(slot # None /\ Live(slot))
    BY <1>2, <1>4, <2>2 DEF LockIoBare
  <2>3. QED
    BY <2>1, <2>2
<1>5. ASSUME RetainForSync(t) PROVE Rests(t) \/ Grabs(t)
  <2>1. CASE slot # None /\ Live(slot)
    <3>1. ~Ending(t)'
      BY <1>5, <2>1 DEF RetainForSync, Ending
    <3>2. QED
      BY <1>1, <1>5, <2>1, <3>1 DEF RetainForSync
  <2>2. CASE ~(slot # None /\ Live(slot))
    BY <1>2, <1>5, <2>2 DEF RetainForSync
  <2>3. QED
    BY <2>1, <2>2
<1>6. ASSUME NEW p, Msync(t, p) PROVE Grabs(t)
  <2>1. map[t] = slot /\ slot # None /\ Live(slot)
    BY <1>6 DEF Msync, OneCache
  <2>2. ~Ending(t)'
    BY <1>6 DEF Msync, Ending
  <2>3. QED
    BY <1>1, <1>6, <2>1, <2>2 DEF Msync
<1>7. ASSUME Release(t) PROVE Returns(t) \/ Drains(t)
  <2>1. held[t] \in Pagers /\ ~Ending(t) /\ pager[held[t]].life = "live"
    BY <1>7 DEF Release, Ending, LifeInv, LifeOf
  <2>2. CASE pager[held[t]].refs > 1
    <3>1. Moves(held[t], "live", pager[held[t]].refs - 1, pager[held[t]].orphan)
      BY <1>7, <2>1, <2>2, PagerUpdates DEF Release, Becomes, Fields, Moves
    <3>2. QED
      BY <1>0, <1>7, <2>1, <2>2, <3>1 DEF Release, Returns
  <2>3. CASE ~(pager[held[t]].refs > 1)
    <3>1. Moves(held[t], "draining", 0, pager[held[t]].orphan)
      BY <1>7, <2>1, <2>3, PagerUpdates DEF Release, Becomes, Fields, Moves
    <3>2. QED
      BY <1>0, <1>7, <2>1, <2>3, <3>1 DEF Release, Drains, Ending
  <2>4. QED
    BY <2>2, <2>3
<1>8. ASSUME Destroy(t) PROVE Destroys(t)
  <2>1. held[t] \in Pagers /\ Ending(t)
    BY <1>8 DEF Destroy, Ending
  <2>2. NoPager \in PagerStates /\ NoPager.life = "none" /\ NoPager.refs = 0 /\ ~NoPager.orphan
    BY DEF NoPager, PagerStates, Lives
  <2>3. Moves(held[t], "none", 0, FALSE)
    BY <1>8, <2>1, <2>2 DEF Destroy, Moves
  <2>4. QED
    BY <1>0, <1>8, <2>1, <2>3 DEF Destroy, Destroys, ClearSlot
<1>9. ASSUME FailedDrain(t) PROVE Revives(t)
  <2>1. held[t] \in Pagers /\ Ending(t) /\ ~Ending(t)'
    BY <1>9 DEF FailedDrain, Ending
  <2>2. Moves(held[t], "live", 2, TRUE)
    BY <1>9, <2>1, PagerUpdates DEF FailedDrain, Becomes, Fields, Moves
  <2>3. QED
    BY <1>0, <1>9, <2>1, <2>2 DEF FailedDrain, Revives
<1>10. ASSUME RetryOrphans(t) PROVE Adopts(t)
  <2>1. PICK g \in Pagers : /\ pager[g].orphan
                            /\ pager' = [pager EXCEPT ![g].orphan = FALSE]
                            /\ held' = [held EXCEPT ![t] = g]
    BY <1>10 DEF RetryOrphans
  <2>2. Moves(g, pager[g].life, pager[g].refs, FALSE)
    BY <2>1, PagerUpdates DEF Becomes, Fields, Moves
  <2>3. QED
    BY <1>10, <2>1, <2>2 DEF RetryOrphans, Adopts, Ending
<1>11. ASSUME CreatePager(t) PROVE Creates(t)
  <2> DEFINE S == {h \in Pagers : pager[h].life = "none"}
             g == Min(S)
             r == [NoPager EXCEPT !.life = "live", !.refs = 1, !.writer = op[t].writer]
  <2>1. g \in S
    BY <1>11, FreshPager
  <2>2. r \in PagerStates /\ r.life = "live" /\ r.refs = 1 /\ ~r.orphan
    BY <1>11 DEF CreatePager, NoPager, PagerStates, Lives
  <2>3. pager' = [pager EXCEPT ![g] = r] /\ cand' = [cand EXCEPT ![t] = g]
    BY <1>11 DEF CreatePager
  <2> HIDE DEF r, g
  <2>4. Moves(g, "live", 1, FALSE)
    BY <2>1, <2>2, <2>3 DEF Moves
  <2>5. QED
    BY <1>11, <2>1, <2>3, <2>4 DEF CreatePager, Creates
<1>12. ASSUME JoinPager(t) PROVE Rests(t) \/ Joins(t, TRUE) \/ Joins(t, FALSE)
  <2>1. CASE ~Live(slot)
    BY <1>2, <1>12, <2>1 DEF JoinPager
  <2>2. CASE Live(slot)
    <3>1. /\ slot \in Pagers /\ pager' = Retained(slot) /\ pager[slot].life = "live"
          /\ map' = [map EXCEPT ![t] = slot] /\ map[t] = None /\ held[t] = None
          /\ slot' = slot
      BY <1>12, <2>2 DEF JoinPager, Live
    <3>2. Moves(slot, "live", IF pager[slot].orphan THEN pager[slot].refs
                              ELSE pager[slot].refs + 1, FALSE)
      BY <3>1, PagerUpdates DEF Becomes, Fields, Moves
    <3>3. CASE ~op[t].writer /\ cand[t] # None
      <4>1. /\ held' = [held EXCEPT ![t] = cand[t]] /\ cand' = [cand EXCEPT ![t] = None]
            /\ pc'[t] = "release"
        BY <1>12, <2>2, <3>3 DEF JoinPager, DropCandidate
      <4>2. ~Ending(t)'
        BY <4>1 DEF Ending
      <4>3. Joins(t, TRUE)
        BY <1>0, <3>1, <3>2, <3>3, <4>1, <4>2 DEF Joins
      <4>4. QED
        BY <4>3
    <3>4. CASE op[t].writer \/ cand[t] = None
      <4>1. held' = held /\ cand' = cand /\ pc'[t] \in {"upgrade", "idle"}
        BY <1>12, <2>2, <3>4 DEF JoinPager
      <4>2. ~Ending(t)'
        BY <4>1 DEF Ending
      <4>3. QED
        BY <1>0, <3>1, <3>2, <4>1, <4>2 DEF Joins
    <3>5. QED
      BY <3>3, <3>4
  <2>3. QED
    BY <2>1, <2>2
<1>13. ASSUME InstallPager(t) PROVE Installs(t) \/ Discards(t)
  <2>1. CASE hostMaps # 0
    BY <1>13, <2>1 DEF InstallPager, DropCandidate, Discards, Ending
  <2>2. CASE hostMaps = 0
    BY <1>13, <2>2 DEF InstallPager, Installs
  <2>3. QED
    BY <2>1, <2>2
<1>14. ASSUME UpgradeWriter(t) PROVE Rests(t) \/ Discards(t)
  <2>1. map[t] \in Pagers /\ held[t] = None
    BY <1>14 DEF UpgradeWriter
  <2>2. /\ pager' \in [Pagers -> PagerStates]
        /\ \A g \in Pagers : /\ pager'[g].life = pager[g].life
                             /\ pager'[g].refs = pager[g].refs
                             /\ pager'[g].orphan <=> pager[g].orphan
    BY <1>14, <2>1, PagerUpdates DEF UpgradeWriter, Becomes, Fields
  <2>3. CASE cand[t] = None
    BY <1>14, <2>1, <2>2, <2>3 DEF UpgradeWriter, Rests
  <2>4. CASE cand[t] # None
    BY <1>14, <2>1, <2>2, <2>4 DEF UpgradeWriter, DropCandidate, Discards, Ending
  <2>5. QED
    BY <2>3, <2>4
<1>15. ASSUME NEW b \in BOOLEAN, pager' = [pager EXCEPT ![held[t]].undurable = b],
              held[t] \in Pagers,
              UNCHANGED <<slot, held, map, cand>>, Ending(t)' <=> Ending(t)
       PROVE  Rests(t)
  <2>1. Becomes(held[t], pager[held[t]].life, pager[held[t]].refs, pager[held[t]].orphan,
                pager[held[t]].writer, b)
    BY <1>15, PagerUpdates
  <2>2. QED
    BY <1>15, <2>1 DEF Becomes, Fields, Rests
<1>16. ASSUME FinishWriteback(t) PROVE Rests(t)
  <2>1. /\ held[t] \in Pagers /\ pager' = [pager EXCEPT ![held[t]].undurable = TRUE]
        /\ UNCHANGED <<slot, held, map, cand>> /\ (Ending(t)' <=> Ending(t))
    BY <1>16 DEF FinishWriteback, Ending
  <2>2. QED
    BY <1>15, <2>1
<1>17. ASSUME HostSyncRange(t) PROVE Rests(t)
  <2> DEFINE b == pager[held[t]].undurable /\ ~op[t].full
  <2>1. /\ held[t] \in Pagers /\ pager' = [pager EXCEPT ![held[t]].undurable = b]
        /\ UNCHANGED <<slot, held, map, cand>> /\ (Ending(t)' <=> Ending(t))
    BY <1>17 DEF HostSyncRange, SyncReturn, Ending
  <2>2. b \in BOOLEAN
    OBVIOUS
  <2> HIDE DEF b
  <2>3. QED
    BY <1>15, <2>1, <2>2
<1>18. ASSUME Unmap(t) PROVE Unmaps(t)
  BY <1>18 DEF Unmap, Unmaps, Ending
<1>19. QED
  BY <1>3, <1>4, <1>5, <1>6, <1>7, <1>8, <1>9, <1>10, <1>11, <1>12, <1>13, <1>14,
     <1>16, <1>17, <1>18, RestingSteps DEF Step, Choice, Kinds

----------------------------------------------------------------------------
(* Who holds what *)

\* What a step leaves alone of the other threads.
LEMMA OtherThreads ==
    ASSUME TypeInv, NEW t \in Threads, Step(t) \/ Choice(t), NEW u \in Threads, u # t
    PROVE  /\ pc'[u] = pc[u] /\ op'[u] = op[u] /\ held'[u] = held[u] /\ map'[u] = map[u]
           /\ cand'[u] = cand[u] /\ todo'[u] = todo[u]
           /\ u \in asleep' => u \in asleep
<1> USE DEF TypeInv
<1> DEFINE Same == /\ pc'[u] = pc[u] /\ op'[u] = op[u] /\ held'[u] = held[u] /\ map'[u] = map[u]
                   /\ cand'[u] = cand[u] /\ todo'[u] = todo[u]
                   /\ u \in asleep' => u \in asleep
<1>1. ASSUME BeginIo(t) \/ LockIo(t) \/ LockIoBare(t) \/ HostRead(t)
             \/ HostWrite(t) \/ HostResize(t) \/ HostFails(t) \/ CommitRead(t)
      PROVE  Same
  BY <1>1 DEF BeginIo, LockIo, LockIoBare, HostRead, HostWrite, HostResize, HostFails, CommitRead
<1>2. ASSUME CommitWrite(t) \/ CommitResize(t) \/ EndIo(t) \/ Release(t)
             \/ Drain(t) \/ Destroy(t) \/ FailedDrain(t) \/ NotifyFailedDrain(t)
      PROVE  Same
  BY <1>2 DEF CommitWrite, CommitResize, EndIo, Release, Drain, Destroy, FailedDrain, NotifyFailedDrain, ClearSlot
<1>3. ASSUME SyncLock(t) \/ CopyDirty(t) \/ WritePage(t) \/ WritePageFails(t)
             \/ FinishWriteback(t) \/ HostSyncRange(t) \/ HostSyncRangeFails(t) \/ RetainForSync(t)
      PROVE  Same
  BY <1>3 DEF SyncLock, CopyDirty, WritePage, WritePageFails, FinishWriteback, HostSyncRange, HostSyncRangeFails, RetainForSync, SyncReturn
<1>4. ASSUME HostSync(t) \/ HostSyncFails(t) \/ SyncReturns(t) \/ MapFails(t)
             \/ CreatePager(t) \/ JoinPager(t) \/ InstallPager(t) \/ UpgradeWriter(t)
      PROVE  Same
  BY <1>4 DEF HostSync, HostSyncFails, SyncReturns, MapFails, CreatePager, JoinPager, InstallPager, UpgradeWriter, DropCandidate
<1>5. ASSUME Choice(t) PROVE Same
  <2>1. ASSUME \/ \E kind \in {"read", "write", "resize", "grow"} : StartIo(t, kind)
               \/ \E kind \in {"fsync", "fdatasync"} : StartSync(t, kind)
               \/ \E w \in BOOLEAN : StartMap(t, w)
        PROVE  Same
    BY <2>1 DEF StartIo, StartSync, StartMap
  <2>2. ASSUME NEW p \in Pages, GetPage(t, p) \/ Msync(t, p) PROVE Same
    BY <2>2 DEF GetPage, Msync
  <2>3. ASSUME NEW c \in Cells, NEW v \in Values, Store(t, c, v) PROVE Same
    BY <2>3 DEF Store
  <2>4. ASSUME Unmap(t) \/ RetryOrphans(t) PROVE Same
    BY <2>4 DEF Unmap, RetryOrphans
  <2>5. QED
    BY <1>5, <2>1, <2>2, <2>3, <2>4, Zenon DEF Choice
<1>6. QED
  BY <1>1, <1>2, <1>3, <1>4, <1>5 DEF Step

\* Every mapping holds the pager in the slot.
MapInv == \A t \in Threads : map[t] # None => map[t] = slot /\ Live(slot)

\* The part of the invariant that the kinds of step are about.
GripInv == TypeInv /\ LifeInv /\ MapInv /\ RefsInv
GripNext == LifeInv' /\ MapInv' /\ RefsInv'

\* The holders of a pager after a step.
LEMMA HoldersNext ==
    ASSUME NEW g
    PROVE  /\ Holders(g)' = Count(map', g) + Count(held', g) + Count(cand', g)
           /\ Count(map, g) \in Nat /\ Count(held, g) \in Nat /\ Count(cand, g) \in Nat
           /\ Holders(g) \in Nat
<1>1. Holders(g)' = Count(map', g) + Count(held', g) + Count(cand', g)
  BY DEF Holders, Count
<1>2. Count(map, g) \in Nat /\ Count(held, g) \in Nat /\ Count(cand, g) \in Nat
  BY CountFacts
<1>3. QED
  BY <1>1, <1>2 DEF Holders

\* The count of held when one thread moves.
LEMMA CountHeld ==
    ASSUME NEW t \in Threads, NEW g,
           \A u \in Threads : u # t => held'[u] = held[u]
    PROVE  /\ Count(held, g) \in Nat /\ Count(held', g) \in Nat
           /\ (held[t] = g <=> held'[t] = g) => Count(held', g) = Count(held, g)
           /\ held[t] = g /\ held'[t] # g => Count(held', g) = Count(held, g) - 1
           /\ held[t] # g /\ held'[t] = g => Count(held', g) = Count(held, g) + 1
<1> DEFINE A == {u \in Threads : held[u] = g}
           B == {u \in Threads : held'[u] = g}
<1>1. A \ {t} = B \ {t} /\ (t \in A <=> held[t] = g) /\ (t \in B <=> held'[t] = g)
  OBVIOUS
<1>2. IsFiniteSet(A) /\ IsFiniteSet(B)
  BY SizesAssumption, FS_Subset, A \in SUBSET Threads, B \in SUBSET Threads
<1>3. Count(held, g) = Cardinality(A) /\ Count(held', g) = Cardinality(B)
  BY DEF Count
<1> HIDE DEF A, B
<1>4. A \ {t} = B \ {t}
  BY <1>1
<1>5. /\ Cardinality(A) \in Nat /\ Cardinality(B) \in Nat
      /\ (t \in A <=> t \in B) => Cardinality(B) = Cardinality(A)
      /\ t \in A /\ t \notin B => Cardinality(B) = Cardinality(A) - 1
      /\ t \notin A /\ t \in B => Cardinality(B) = Cardinality(A) + 1
  BY <1>2, <1>4, SizeMove
<1>6. QED
  BY <1>1, <1>3, <1>5

\* The count of map when one thread moves.
LEMMA CountMap ==
    ASSUME NEW t \in Threads, NEW g,
           \A u \in Threads : u # t => map'[u] = map[u]
    PROVE  /\ Count(map, g) \in Nat /\ Count(map', g) \in Nat
           /\ (map[t] = g <=> map'[t] = g) => Count(map', g) = Count(map, g)
           /\ map[t] = g /\ map'[t] # g => Count(map', g) = Count(map, g) - 1
           /\ map[t] # g /\ map'[t] = g => Count(map', g) = Count(map, g) + 1
<1> DEFINE A == {u \in Threads : map[u] = g}
           B == {u \in Threads : map'[u] = g}
<1>1. A \ {t} = B \ {t} /\ (t \in A <=> map[t] = g) /\ (t \in B <=> map'[t] = g)
  OBVIOUS
<1>2. IsFiniteSet(A) /\ IsFiniteSet(B)
  BY SizesAssumption, FS_Subset, A \in SUBSET Threads, B \in SUBSET Threads
<1>3. Count(map, g) = Cardinality(A) /\ Count(map', g) = Cardinality(B)
  BY DEF Count
<1> HIDE DEF A, B
<1>4. A \ {t} = B \ {t}
  BY <1>1
<1>5. /\ Cardinality(A) \in Nat /\ Cardinality(B) \in Nat
      /\ (t \in A <=> t \in B) => Cardinality(B) = Cardinality(A)
      /\ t \in A /\ t \notin B => Cardinality(B) = Cardinality(A) - 1
      /\ t \notin A /\ t \in B => Cardinality(B) = Cardinality(A) + 1
  BY <1>2, <1>4, SizeMove
<1>6. QED
  BY <1>1, <1>3, <1>5

\* The count of cand when one thread moves.
LEMMA CountCand ==
    ASSUME NEW t \in Threads, NEW g,
           \A u \in Threads : u # t => cand'[u] = cand[u]
    PROVE  /\ Count(cand, g) \in Nat /\ Count(cand', g) \in Nat
           /\ (cand[t] = g <=> cand'[t] = g) => Count(cand', g) = Count(cand, g)
           /\ cand[t] = g /\ cand'[t] # g => Count(cand', g) = Count(cand, g) - 1
           /\ cand[t] # g /\ cand'[t] = g => Count(cand', g) = Count(cand, g) + 1
<1> DEFINE A == {u \in Threads : cand[u] = g}
           B == {u \in Threads : cand'[u] = g}
<1>1. A \ {t} = B \ {t} /\ (t \in A <=> cand[t] = g) /\ (t \in B <=> cand'[t] = g)
  OBVIOUS
<1>2. IsFiniteSet(A) /\ IsFiniteSet(B)
  BY SizesAssumption, FS_Subset, A \in SUBSET Threads, B \in SUBSET Threads
<1>3. Count(cand, g) = Cardinality(A) /\ Count(cand', g) = Cardinality(B)
  BY DEF Count
<1> HIDE DEF A, B
<1>4. A \ {t} = B \ {t}
  BY <1>1
<1>5. /\ Cardinality(A) \in Nat /\ Cardinality(B) \in Nat
      /\ (t \in A <=> t \in B) => Cardinality(B) = Cardinality(A)
      /\ t \in A /\ t \notin B => Cardinality(B) = Cardinality(A) - 1
      /\ t \notin A /\ t \in B => Cardinality(B) = Cardinality(A) + 1
  BY <1>2, <1>4, SizeMove
<1>6. QED
  BY <1>1, <1>3, <1>5

\* The holders when one operation gets or gives up a pager.
LEMMA HeldMoves ==
    ASSUME NEW t \in Threads, NEW g, UNCHANGED <<map, cand>>,
           \A u \in Threads : u # t => held'[u] = held[u]
    PROVE  /\ Holders(g) \in Nat
           /\ (held[t] = g <=> held'[t] = g) => Holders(g)' = Holders(g)
           /\ held[t] = g /\ held'[t] # g => Holders(g)' = Holders(g) - 1
           /\ held[t] # g /\ held'[t] = g => Holders(g)' = Holders(g) + 1
<1>1. /\ (held[t] = g <=> held'[t] = g) => Count(held', g) = Count(held, g)
      /\ held[t] = g /\ held'[t] # g => Count(held', g) = Count(held, g) - 1
      /\ held[t] # g /\ held'[t] = g => Count(held', g) = Count(held, g) + 1
  BY CountHeld
<1>2. QED
  BY <1>1, HoldersNext DEF Holders

\* A step that keeps lives, counts and holders.
LEMMA RestsGrip ==
    ASSUME GripInv, NEW t \in Threads, Rests(t),
           \A u \in Threads : u # t => (Ending(u)' <=> Ending(u))
    PROVE  GripNext
<1> USE DEF GripInv, Rests
<1>0. None \notin Pagers
  BY SizesAssumption DEF Pagers
<1>1. LifeInv'
  <2> SUFFICES ASSUME NEW u \in Threads PROVE LifeOf(u)'
    BY DEF LifeInv
  <2>1. held[u] # None => held[u] \in Pagers /\ (Ending(u)' <=> Ending(u))
    BY DEF TypeInv
  <2>2. cand[u] # None => cand[u] \in Pagers
    BY DEF TypeInv
  <2>3. LifeOf(u)
    BY DEF LifeInv
  <2>4. QED
    BY <2>1, <2>2, <2>3 DEF LifeOf, Live
<1>2. MapInv'
  BY DEF MapInv, TypeInv, Live
<1>3. RefsInv'
  <2> SUFFICES ASSUME NEW g \in Pagers PROVE RefsOf(g)'
    BY DEF RefsInv
  <2>1. Holders(g)' = Holders(g)
    BY DEF Holders, Count
  <2>2. RefsOf(g)
    BY DEF RefsInv
  <2>3. QED
    BY <2>1, <2>2 DEF RefsOf
<1>4. QED
  BY <1>1, <1>2, <1>3 DEF GripNext

\* An operation retains the pager in the slot.
LEMMA GrabsGrip ==
    ASSUME GripInv, NEW t \in Threads, Grabs(t),
           \A u \in Threads : u # t => (Ending(u)' <=> Ending(u))
    PROVE  GripNext
<1> USE DEF GripInv, Grabs, Moves
<1>0. None \notin Pagers
  BY SizesAssumption DEF Pagers
<1>1. LifeInv'
  <2> SUFFICES ASSUME NEW u \in Threads PROVE LifeOf(u)'
    BY DEF LifeInv
  <2>1. LifeOf(u) /\ (held[u] # None => held[u] \in Pagers) /\ (cand[u] # None => cand[u] \in Pagers)
    BY DEF LifeInv, TypeInv
  <2>2. CASE u = t
    BY <2>1, <2>2 DEF LifeOf, Live, TypeInv
  <2>3. CASE u # t
    BY <2>1, <2>3 DEF LifeOf, Live, TypeInv
  <2>4. QED
    BY <2>2, <2>3
<1>2. MapInv'
  BY DEF MapInv, TypeInv, Live
<1>3. RefsInv'
  <2> SUFFICES ASSUME NEW g \in Pagers PROVE RefsOf(g)'
    BY DEF RefsInv
  <2>1. held'[t] = slot /\ \A u \in Threads : u # t => held'[u] = held[u]
    BY DEF TypeInv
  <2>2. RefsOf(g) /\ Holders(g) \in Nat /\ pager[g].refs \in Nat
    BY HoldersNext DEF RefsInv, TypeInv, PagerStates
  <2>3. CASE g = slot
    <3>1. held[t] # g /\ held'[t] = g
      BY <1>0, <2>1, <2>3
    <3>2. Holders(g)' = Holders(g) + 1
      BY <2>1, <3>1, HeldMoves
    <3>3. QED
      BY <2>2, <2>3, <3>2 DEF RefsOf
  <2>4. CASE g # slot
    <3>1. held[t] # g /\ held'[t] # g
      BY <1>0, <2>1, <2>4
    <3>2. Holders(g)' = Holders(g)
      BY <2>1, <3>1, HeldMoves
    <3>3. QED
      BY <2>2, <2>4, <3>2 DEF RefsOf
  <2>5. QED
    BY <2>3, <2>4
<1>4. QED
  BY <1>1, <1>2, <1>3 DEF GripNext

\* An operation gives a reference back that is not the last.
LEMMA ReturnsGrip ==
    ASSUME GripInv, NEW t \in Threads, Returns(t),
           \A u \in Threads : u # t => (Ending(u)' <=> Ending(u))
    PROVE  GripNext
<1> USE DEF GripInv, Returns, Moves
<1>0. None \notin Pagers /\ pager[held[t]].life = "live"
  BY SizesAssumption DEF Pagers, LifeInv, LifeOf
<1>1. LifeInv'
  <2> SUFFICES ASSUME NEW u \in Threads PROVE LifeOf(u)'
    BY DEF LifeInv
  <2>1. LifeOf(u) /\ (held[u] # None => held[u] \in Pagers) /\ (cand[u] # None => cand[u] \in Pagers)
    BY DEF LifeInv, TypeInv
  <2>2. cand[u] # held[t]
    BY <2>1 DEF LifeOf
  <2>3. CASE u = t
    BY <2>1, <2>2, <2>3 DEF LifeOf, Live, TypeInv
  <2>4. CASE u # t
    BY <1>0, <2>1, <2>2, <2>4 DEF LifeOf, Live, TypeInv
  <2>5. QED
    BY <2>3, <2>4
<1>2. MapInv'
  BY <1>0 DEF MapInv, TypeInv, Live
<1>3. RefsInv'
  <2> SUFFICES ASSUME NEW g \in Pagers PROVE RefsOf(g)'
    BY DEF RefsInv
  <2>1. held'[t] = None /\ \A u \in Threads : u # t => held'[u] = held[u]
    BY DEF TypeInv
  <2>2. RefsOf(g) /\ Holders(g) \in Nat /\ pager[g].refs \in Nat
    BY HoldersNext DEF RefsInv, TypeInv, PagerStates
  <2>3. CASE g = held[t]
    <3>1. held[t] = g /\ held'[t] # g
      BY <1>0, <2>1, <2>3
    <3>2. Holders(g)' = Holders(g) - 1
      BY <2>1, <3>1, HeldMoves
    <3>3. QED
      BY <1>0, <2>2, <2>3, <3>2 DEF RefsOf
  <2>4. CASE g # held[t]
    <3>1. held[t] # g /\ held'[t] # g
      BY <1>0, <2>1, <2>4
    <3>2. Holders(g)' = Holders(g)
      BY <2>1, <3>1, HeldMoves
    <3>3. QED
      BY <2>2, <2>4, <3>2 DEF RefsOf
  <2>5. QED
    BY <2>3, <2>4
<1>4. QED
  BY <1>1, <1>2, <1>3 DEF GripNext

\* The last reference goes: nobody else knows the pager.
LEMMA DrainsGrip ==
    ASSUME GripInv, NEW t \in Threads, Drains(t),
           \A u \in Threads : u # t => (Ending(u)' <=> Ending(u))
    PROVE  GripNext
<1> USE DEF GripInv, Drains, Moves
<1>0. None \notin Pagers /\ pager[held[t]].life = "live"
  BY SizesAssumption DEF Pagers, LifeInv, LifeOf
<1>1. /\ ~pager[held[t]].orphan
      /\ \A u \in Threads : map[u] # held[t] /\ cand[u] # held[t]
      /\ \A u \in Threads : held[u] = held[t] => u = t
  BY <1>0, OnlyHolder
<1>2. LifeInv'
  <2> SUFFICES ASSUME NEW u \in Threads PROVE LifeOf(u)'
    BY DEF LifeInv
  <2>1. LifeOf(u) /\ (held[u] # None => held[u] \in Pagers) /\ (cand[u] # None => cand[u] \in Pagers)
    BY DEF LifeInv, TypeInv
  <2>2. CASE u = t
    BY <1>1, <2>1, <2>2 DEF LifeOf, Live
  <2>3. CASE u # t
    BY <1>1, <2>1, <2>3 DEF LifeOf, Live
  <2>4. QED
    BY <2>2, <2>3
<1>3. MapInv'
  BY <1>1 DEF MapInv, TypeInv, Live
<1>4. RefsInv'
  <2> SUFFICES ASSUME NEW g \in Pagers PROVE RefsOf(g)'
    BY DEF RefsInv
  <2>1. Holders(g)' = Holders(g) /\ RefsOf(g)
    BY DEF Holders, Count, RefsInv
  <2>2. CASE g = held[t]
    <3>1. Holders(g) = 1
      <4>1. Count(map, g) = 0 /\ Count(cand, g) = 0
        BY <1>1, <2>2, CountFacts
      <4>2. Count(held, g) = 1
        <5>1. pager[g].refs = Holders(g) /\ pager[g].refs \in Nat
          BY <1>0, <1>1, <2>1, <2>2, HoldersNext DEF RefsOf, TypeInv, PagerStates
        <5>2. Count(held, g) # 0
          BY <2>2, CountFacts
        <5>3. QED
          BY <2>2, <4>1, <5>1, <5>2, HoldersNext DEF Holders
      <4>3. QED
        BY <4>1, <4>2 DEF Holders
    <3>2. QED
      BY <1>1, <2>1, <2>2, <3>1 DEF RefsOf
  <2>3. CASE g # held[t]
    BY <2>1, <2>3 DEF RefsOf
  <2>4. QED
    BY <2>2, <2>3
<1>5. QED
  BY <1>2, <1>3, <1>4 DEF GripNext

\* A drained pager goes.
LEMMA DestroysGrip ==
    ASSUME GripInv, NEW t \in Threads, Destroys(t),
           \A u \in Threads : u # t => (Ending(u)' <=> Ending(u))
    PROVE  GripNext
<1> USE DEF GripInv, Destroys, Moves
<1>0. None \notin Pagers /\ pager[held[t]].life = "draining"
  BY SizesAssumption DEF Pagers, LifeInv, LifeOf
<1>1. /\ \A u \in Threads : map[u] # held[t] /\ cand[u] # held[t]
      /\ \A u \in Threads : held[u] = held[t] => u = t
  BY <1>0, OnlyHolder
<1>2. held'[t] = None /\ \A u \in Threads : u # t => held'[u] = held[u]
  BY DEF TypeInv
<1>3. LifeInv'
  <2> SUFFICES ASSUME NEW u \in Threads PROVE LifeOf(u)'
    BY DEF LifeInv
  <2>1. LifeOf(u) /\ (held[u] # None => held[u] \in Pagers) /\ (cand[u] # None => cand[u] \in Pagers)
    BY DEF LifeInv, TypeInv
  <2>2. CASE u = t
    BY <1>1, <1>2, <2>1, <2>2 DEF LifeOf, Live
  <2>3. CASE u # t
    BY <1>1, <1>2, <2>1, <2>3 DEF LifeOf, Live
  <2>4. QED
    BY <2>2, <2>3
<1>4. MapInv'
  BY <1>1 DEF MapInv, TypeInv, Live
<1>5. RefsInv'
  <2> SUFFICES ASSUME NEW g \in Pagers PROVE RefsOf(g)'
    BY DEF RefsInv
  <2>1. RefsOf(g)
    BY DEF RefsInv
  <2>2. CASE g = held[t]
    <3>1. Holders(g)' = Holders(g) - 1 /\ Holders(g) = 1
      BY <1>0, <1>2, <2>1, <2>2, HeldMoves DEF RefsOf
    <3>2. slot' # g
      BY <1>0, <2>2
    <3>3. QED
      BY <2>2, <3>1, <3>2 DEF RefsOf
  <2>3. CASE g # held[t]
    <3>1. Holders(g)' = Holders(g)
      BY <1>0, <1>2, <2>3, HeldMoves
    <3>2. slot' = g => slot = g
      BY <1>0
    <3>3. QED
      BY <2>1, <2>3, <3>1, <3>2 DEF RefsOf
  <2>4. QED
    BY <2>2, <2>3
<1>6. QED
  BY <1>3, <1>4, <1>5 DEF GripNext

\* A failed drain: one reference for the thread, one for the list of orphans.
LEMMA RevivesGrip ==
    ASSUME GripInv, NEW t \in Threads, Revives(t),
           \A u \in Threads : u # t => (Ending(u)' <=> Ending(u))
    PROVE  GripNext
<1> USE DEF GripInv, Revives, Moves
<1>0. None \notin Pagers /\ pager[held[t]].life = "draining"
  BY SizesAssumption DEF Pagers, LifeInv, LifeOf
<1>1. /\ \A u \in Threads : map[u] # held[t] /\ cand[u] # held[t]
      /\ \A u \in Threads : held[u] = held[t] => u = t
  BY <1>0, OnlyHolder
<1>2. LifeInv'
  <2> SUFFICES ASSUME NEW u \in Threads PROVE LifeOf(u)'
    BY DEF LifeInv
  <2>1. LifeOf(u) /\ (held[u] # None => held[u] \in Pagers) /\ (cand[u] # None => cand[u] \in Pagers)
    BY DEF LifeInv, TypeInv
  <2>2. CASE u = t
    BY <1>1, <2>1, <2>2 DEF LifeOf, Live
  <2>3. CASE u # t
    BY <1>1, <2>1, <2>3 DEF LifeOf, Live
  <2>4. QED
    BY <2>2, <2>3
<1>3. MapInv'
  BY <1>1 DEF MapInv, TypeInv, Live
<1>4. RefsInv'
  <2> SUFFICES ASSUME NEW g \in Pagers PROVE RefsOf(g)'
    BY DEF RefsInv
  <2>1. Holders(g)' = Holders(g) /\ RefsOf(g)
    BY DEF Holders, Count, RefsInv
  <2>2. CASE g = held[t]
    BY <1>0, <2>1, <2>2 DEF RefsOf
  <2>3. CASE g # held[t]
    BY <2>1, <2>3 DEF RefsOf
  <2>4. QED
    BY <2>2, <2>3
<1>5. QED
  BY <1>2, <1>3, <1>4 DEF GripNext

\* The reference of the list of orphans changes hands.
LEMMA AdoptsGrip ==
    ASSUME GripInv, NEW t \in Threads, Adopts(t),
           \A u \in Threads : u # t => (Ending(u)' <=> Ending(u))
    PROVE  GripNext
<1> USE DEF GripInv, Moves
<1>0. None \notin Pagers
  BY SizesAssumption DEF Pagers
<1>1. PICK x \in Pagers :
        /\ pager[x].orphan
        /\ Moves(x, pager[x].life, pager[x].refs, FALSE)
        /\ held' = [held EXCEPT ![t] = x]
  BY DEF Adopts
<1>2. held[t] = None /\ UNCHANGED <<slot, map, cand>> /\ ~Ending(t)'
  BY DEF Adopts
<1>3. pager[x].life = "live" /\ pager[x].refs = Holders(x) + 1
  BY <1>1 DEF RefsInv, RefsOf, TypeInv, PagerStates, Lives
<1>4. held'[t] = x /\ \A u \in Threads : u # t => held'[u] = held[u]
  BY <1>1 DEF TypeInv
<1>5. LifeInv'
  <2> SUFFICES ASSUME NEW u \in Threads PROVE LifeOf(u)'
    BY DEF LifeInv
  <2>1. LifeOf(u) /\ (held[u] # None => held[u] \in Pagers) /\ (cand[u] # None => cand[u] \in Pagers)
    BY DEF LifeInv, TypeInv
  <2>2. cand[u] # x
    BY <1>0, <1>1, <2>1 DEF LifeOf
  <2>3. CASE u = t
    BY <1>1, <1>2, <1>3, <1>4, <2>1, <2>2, <2>3 DEF LifeOf, Live
  <2>4. CASE u # t
    BY <1>1, <1>2, <1>3, <1>4, <2>1, <2>2, <2>4 DEF LifeOf, Live
  <2>5. QED
    BY <2>3, <2>4
<1>6. MapInv'
  BY <1>1, <1>2, <1>3 DEF MapInv, TypeInv, Live
<1>7. RefsInv'
  <2> SUFFICES ASSUME NEW g \in Pagers PROVE RefsOf(g)'
    BY DEF RefsInv
  <2>1. RefsOf(g)
    BY DEF RefsInv
  <2>2. CASE g = x
    <3>1. Holders(g)' = Holders(g) + 1
      BY <1>0, <1>2, <1>4, <2>2, HeldMoves
    <3>2. Holders(g) \in Nat /\ ~pager'[g].orphan /\ pager'[g].refs = pager[x].refs
      BY <1>1, <2>2, HoldersNext
    <3>3. QED
      BY <1>1, <1>3, <2>2, <3>1, <3>2 DEF RefsOf
  <2>3. CASE g # x
    <3>1. Holders(g)' = Holders(g)
      BY <1>0, <1>2, <1>4, <2>3, HeldMoves
    <3>2. QED
      BY <1>1, <1>2, <2>1, <2>3, <3>1 DEF RefsOf
  <2>4. QED
    BY <2>2, <2>3
<1>8. QED
  BY <1>5, <1>6, <1>7 DEF GripNext

\* A new pager is known to its creator alone.
LEMMA CreatesGrip ==
    ASSUME GripInv, NEW t \in Threads, Creates(t),
           \A u \in Threads : u # t => (Ending(u)' <=> Ending(u))
    PROVE  GripNext
<1> USE DEF GripInv, Moves
<1>0. None \notin Pagers
  BY SizesAssumption DEF Pagers
<1>1. PICK x \in Pagers :
        /\ pager[x].life = "none"
        /\ Moves(x, "live", 1, FALSE)
        /\ cand' = [cand EXCEPT ![t] = x]
  BY DEF Creates
<1>2. cand[t] = None /\ held[t] = None /\ UNCHANGED <<slot, held, map>>
  BY DEF Creates
<1>3. Holders(x) = 0 /\ slot # x
  BY <1>1 DEF RefsInv, RefsOf
<1>4. \A u \in Threads : map[u] # x /\ held[u] # x /\ cand[u] # x
  <2>1. Count(map, x) = 0 /\ Count(held, x) = 0 /\ Count(cand, x) = 0
    BY <1>3, HoldersNext DEF Holders
  <2>2. QED
    BY <2>1, CountFacts
<1>5. cand'[t] = x /\ \A u \in Threads : u # t => cand'[u] = cand[u]
  BY <1>1 DEF TypeInv
<1>6. LifeInv'
  <2> SUFFICES ASSUME NEW u \in Threads PROVE LifeOf(u)'
    BY DEF LifeInv
  <2>1. LifeOf(u) /\ (held[u] # None => held[u] \in Pagers) /\ (cand[u] # None => cand[u] \in Pagers)
    BY DEF LifeInv, TypeInv
  <2>2. CASE u = t
    BY <1>0, <1>1, <1>2, <1>3, <1>5, <2>1, <2>2 DEF LifeOf, Live
  <2>3. CASE u # t
    BY <1>1, <1>2, <1>4, <1>5, <2>1, <2>3 DEF LifeOf, Live
  <2>4. QED
    BY <2>2, <2>3
<1>7. MapInv'
  BY <1>1, <1>2, <1>3 DEF MapInv, TypeInv, Live
<1>8. RefsInv'
  <2> SUFFICES ASSUME NEW g \in Pagers PROVE RefsOf(g)'
    BY DEF RefsInv
  <2>1. RefsOf(g)
    BY DEF RefsInv
  <2>2. Count(map', g) = Count(map, g) /\ Count(held', g) = Count(held, g)
    BY <1>2
  <2>3. CASE g = x
    <3>1. Count(cand', g) = Count(cand, g) + 1
      BY <1>4, <1>5, <2>3, CountCand
    <3>2. Holders(g)' = 1
      BY <1>3, <2>2, <2>3, <3>1, HoldersNext DEF Holders
    <3>3. QED
      BY <1>1, <2>3, <3>2 DEF RefsOf
  <2>4. CASE g # x
    <3>1. Count(cand', g) = Count(cand, g)
      BY <1>0, <1>2, <1>5, <2>4, CountCand
    <3>2. Holders(g)' = Holders(g)
      BY <2>2, <3>1, HoldersNext DEF Holders
    <3>3. QED
      BY <1>1, <1>2, <2>1, <2>4, <3>2 DEF RefsOf
  <2>5. QED
    BY <2>3, <2>4
<1>9. QED
  BY <1>6, <1>7, <1>8 DEF GripNext

\* A mapping takes a reference of the pager in the slot.
LEMMA JoinsGrip ==
    ASSUME GripInv, NEW t \in Threads, NEW drop \in BOOLEAN, Joins(t, drop),
           \A u \in Threads : u # t => (Ending(u)' <=> Ending(u))
    PROVE  GripNext
<1> USE DEF GripInv, Joins, Moves
<1>0. None \notin Pagers
  BY SizesAssumption DEF Pagers
<1>1. map'[t] = slot /\ \A u \in Threads : u # t => map'[u] = map[u]
  BY DEF TypeInv
<1>2. /\ \A u \in Threads : u # t => held'[u] = held[u] /\ cand'[u] = cand[u]
      /\ drop => held'[t] = cand[t] /\ cand'[t] = None
      /\ ~drop => held' = held /\ cand' = cand
  BY DEF TypeInv
<1>3. LifeInv'
  <2> SUFFICES ASSUME NEW u \in Threads PROVE LifeOf(u)'
    BY DEF LifeInv
  <2>1. LifeOf(u) /\ (held[u] # None => held[u] \in Pagers) /\ (cand[u] # None => cand[u] \in Pagers)
    BY DEF LifeInv, TypeInv
  <2>2. CASE u = t /\ drop
    BY <1>2, <2>1, <2>2 DEF LifeOf, Live
  <2>3. CASE u = t /\ ~drop
    BY <1>2, <2>1, <2>3 DEF LifeOf, Live
  <2>4. CASE u # t
    BY <1>2, <2>1, <2>4 DEF LifeOf, Live
  <2>5. QED
    BY <2>2, <2>3, <2>4
<1>4. MapInv'
  BY <1>1 DEF MapInv, TypeInv, Live
<1>5. RefsInv'
  <2> SUFFICES ASSUME NEW g \in Pagers PROVE RefsOf(g)'
    BY DEF RefsInv
  <2>1. RefsOf(g) /\ Holders(g) \in Nat /\ pager[g].refs \in Nat
    BY HoldersNext DEF RefsInv, TypeInv, PagerStates
  <2>2. Count(held', g) + Count(cand', g) = Count(held, g) + Count(cand, g)
    <3>1. CASE ~drop
      BY <1>2, <3>1
    <3>2. CASE drop /\ cand[t] = g
      <4>1. Count(held', g) = Count(held, g) + 1
        BY <1>0, <1>2, <3>2, CountHeld
      <4>2. Count(cand', g) = Count(cand, g) - 1
        BY <1>0, <1>2, <3>2, CountCand
      <4>3. QED
        BY <4>1, <4>2, HoldersNext
    <3>3. CASE drop /\ cand[t] # g
      <4>1. Count(held', g) = Count(held, g)
        BY <1>0, <1>2, <3>3, CountHeld
      <4>2. Count(cand', g) = Count(cand, g)
        BY <1>0, <1>2, <3>3, CountCand
      <4>3. QED
        BY <4>1, <4>2
    <3>4. QED
      BY <3>1, <3>2, <3>3
  <2>3. /\ Count(held', g) \in Nat /\ Count(cand', g) \in Nat
    BY CountFacts
  <2>4. CASE g = slot
    <3>1. Count(map', g) = Count(map, g) + 1
      BY <1>0, <1>1, <2>4, CountMap
    <3>2. Holders(g)' = Holders(g) + 1
      BY <2>2, <2>3, <3>1, HoldersNext DEF Holders
    <3>3. QED
      BY <2>1, <2>4, <3>2 DEF RefsOf
  <2>5. CASE g # slot
    <3>1. Count(map', g) = Count(map, g)
      BY <1>0, <1>1, <2>5, CountMap
    <3>2. Holders(g)' = Holders(g)
      BY <2>2, <2>3, <3>1, HoldersNext DEF Holders
    <3>3. QED
      BY <2>1, <2>5, <3>2 DEF RefsOf
  <2>6. QED
    BY <2>4, <2>5
<1>6. QED
  BY <1>3, <1>4, <1>5 DEF GripNext

\* The candidate is installed.
LEMMA InstallsGrip ==
    ASSUME GripInv, NEW t \in Threads, Installs(t),
           \A u \in Threads : u # t => (Ending(u)' <=> Ending(u))
    PROVE  GripNext
<1> USE DEF GripInv, Installs
<1>0. None \notin Pagers
  BY SizesAssumption DEF Pagers
<1>1. cand[t] \in Pagers /\ pager[cand[t]].life = "live" /\ pager[cand[t]].refs = 1
  BY DEF TypeInv, LifeInv, LifeOf, Live
<1>2. \A u \in Threads : cand[u] = cand[t] => u = t
  BY <1>1, OnlyHolder
<1>3. map'[t] = cand[t] /\ \A u \in Threads : u # t => map'[u] = map[u]
  BY DEF TypeInv
<1>4. cand'[t] = None /\ \A u \in Threads : u # t => cand'[u] = cand[u]
  BY DEF TypeInv
<1>5. LifeInv'
  <2> SUFFICES ASSUME NEW u \in Threads PROVE LifeOf(u)'
    BY DEF LifeInv
  <2>1. LifeOf(u)
    BY DEF LifeInv
  <2>2. CASE u = t
    BY <1>4, <2>1, <2>2 DEF LifeOf, Live
  <2>3. CASE u # t
    BY <1>2, <1>4, <2>1, <2>3 DEF LifeOf, Live
  <2>4. QED
    BY <2>2, <2>3
<1>6. MapInv'
  BY <1>1, <1>3 DEF MapInv, Live
<1>7. RefsInv'
  <2> SUFFICES ASSUME NEW g \in Pagers PROVE RefsOf(g)'
    BY DEF RefsInv
  <2>1. RefsOf(g)
    BY DEF RefsInv
  <2>2. Holders(g)' = Holders(g)
    <3>1. CASE g = cand[t]
      <4>1. Count(map', g) = Count(map, g) + 1
        BY <1>0, <1>3, <3>1, CountMap
      <4>2. Count(cand', g) = Count(cand, g) - 1
        BY <1>0, <1>4, <3>1, CountCand
      <4>3. QED
        BY <4>1, <4>2, HoldersNext DEF Holders
    <3>2. CASE g # cand[t]
      <4>1. Count(map', g) = Count(map, g)
        BY <1>0, <1>3, <3>2, CountMap
      <4>2. Count(cand', g) = Count(cand, g)
        BY <1>0, <1>4, <3>2, CountCand
      <4>3. QED
        BY <4>1, <4>2, HoldersNext DEF Holders
    <3>3. QED
      BY <3>1, <3>2
  <2>3. pager[g].life = "none" => g # cand[t]
    BY <1>1
  <2>4. QED
    BY <2>1, <2>2, <2>3 DEF RefsOf
<1>8. QED
  BY <1>5, <1>6, <1>7 DEF GripNext

\* The candidate is about to be released.
LEMMA DiscardsGrip ==
    ASSUME GripInv, NEW t \in Threads, Discards(t),
           \A u \in Threads : u # t => (Ending(u)' <=> Ending(u))
    PROVE  GripNext
<1> USE DEF GripInv, Discards
<1>0. None \notin Pagers
  BY SizesAssumption DEF Pagers
<1>1. held'[t] = cand[t] /\ \A u \in Threads : u # t => held'[u] = held[u]
  BY DEF TypeInv
<1>2. cand'[t] = None /\ \A u \in Threads : u # t => cand'[u] = cand[u]
  BY DEF TypeInv
<1>3. LifeInv'
  <2> SUFFICES ASSUME NEW u \in Threads PROVE LifeOf(u)'
    BY DEF LifeInv
  <2>1. LifeOf(u) /\ (held[u] # None => held[u] \in Pagers) /\ (cand[u] # None => cand[u] \in Pagers)
    BY DEF LifeInv, TypeInv
  <2>2. CASE u = t
    BY <1>1, <1>2, <2>1, <2>2 DEF LifeOf, Live
  <2>3. CASE u # t
    BY <1>1, <1>2, <2>1, <2>3 DEF LifeOf, Live
  <2>4. QED
    BY <2>2, <2>3
<1>4. MapInv'
  BY DEF MapInv, TypeInv, Live
<1>5. RefsInv'
  <2> SUFFICES ASSUME NEW g \in Pagers PROVE RefsOf(g)'
    BY DEF RefsInv
  <2>1. RefsOf(g)
    BY DEF RefsInv
  <2>2. Holders(g)' = Holders(g)
    <3>1. CASE g = cand[t]
      <4>1. Count(held', g) = Count(held, g) + 1
        BY <1>0, <1>1, <3>1, CountHeld
      <4>2. Count(cand', g) = Count(cand, g) - 1
        BY <1>0, <1>2, <3>1, CountCand
      <4>3. QED
        BY <4>1, <4>2, HoldersNext DEF Holders
    <3>2. CASE g # cand[t]
      <4>1. Count(held', g) = Count(held, g)
        BY <1>0, <1>1, <3>2, CountHeld
      <4>2. Count(cand', g) = Count(cand, g)
        BY <1>0, <1>2, <3>2, CountCand
      <4>3. QED
        BY <4>1, <4>2, HoldersNext DEF Holders
    <3>3. QED
      BY <3>1, <3>2
  <2>3. QED
    BY <2>1, <2>2 DEF RefsOf
<1>6. QED
  BY <1>3, <1>4, <1>5 DEF GripNext

\* The reference of a mapping is about to be released.
LEMMA UnmapsGrip ==
    ASSUME GripInv, NEW t \in Threads, Unmaps(t),
           \A u \in Threads : u # t => (Ending(u)' <=> Ending(u))
    PROVE  GripNext
<1> USE DEF GripInv, Unmaps
<1>0. None \notin Pagers
  BY SizesAssumption DEF Pagers
<1>1. held'[t] = map[t] /\ \A u \in Threads : u # t => held'[u] = held[u]
  BY DEF TypeInv
<1>2. map'[t] = None /\ \A u \in Threads : u # t => map'[u] = map[u]
  BY DEF TypeInv
<1>3. LifeInv'
  <2> SUFFICES ASSUME NEW u \in Threads PROVE LifeOf(u)'
    BY DEF LifeInv
  <2>1. LifeOf(u) /\ pager[map[t]].life = "live"
    BY DEF LifeInv, MapInv, Live
  <2>2. CASE u = t
    BY <1>1, <2>1, <2>2 DEF LifeOf, Live
  <2>3. CASE u # t
    BY <1>1, <2>1, <2>3 DEF LifeOf, Live
  <2>4. QED
    BY <2>2, <2>3
<1>4. MapInv'
  BY <1>2 DEF MapInv, Live
<1>5. RefsInv'
  <2> SUFFICES ASSUME NEW g \in Pagers PROVE RefsOf(g)'
    BY DEF RefsInv
  <2>1. RefsOf(g)
    BY DEF RefsInv
  <2>2. Holders(g)' = Holders(g)
    <3>1. CASE g = map[t]
      <4>1. Count(held', g) = Count(held, g) + 1
        BY <1>0, <1>1, <3>1, CountHeld
      <4>2. Count(map', g) = Count(map, g) - 1
        BY <1>0, <1>2, <3>1, CountMap
      <4>3. QED
        BY <4>1, <4>2, HoldersNext DEF Holders
    <3>2. CASE g # map[t]
      <4>1. Count(held', g) = Count(held, g)
        BY <1>0, <1>1, <3>2, CountHeld
      <4>2. Count(map', g) = Count(map, g)
        BY <1>0, <1>2, <3>2, CountMap
      <4>3. QED
        BY <4>1, <4>2, HoldersNext DEF Holders
    <3>3. QED
      BY <3>1, <3>2
  <2>3. QED
    BY <2>1, <2>2 DEF RefsOf
<1>6. QED
  BY <1>3, <1>4, <1>5 DEF GripNext

\* Each kind of step keeps the holders right.
LEMMA GripThread ==
    ASSUME GripInv, SeatInv, OneCache, NEW t \in Threads, Step(t) \/ Choice(t)
    PROVE  GripNext
<1>1. \A u \in Threads : u # t => (Ending(u)' <=> Ending(u))
  <2>1. \A u \in Threads : u # t => pc'[u] = pc[u] /\ op'[u] = op[u]
    BY OtherThreads DEF GripInv
  <2>2. QED
    BY <2>1 DEF Ending
<1>2. Kinds(t)
  BY StepKinds DEF GripInv
<1>3. QED
  BY <1>1, <1>2, RestsGrip, GrabsGrip, ReturnsGrip, DrainsGrip, DestroysGrip, RevivesGrip,
     AdoptsGrip, CreatesGrip, JoinsGrip, InstallsGrip, DiscardsGrip, UnmapsGrip DEF Kinds

\* The types of what the kinds of step are about.
LEMMA KindsTyped ==
    ASSUME TypeInv, NEW t \in Threads, Kinds(t)
    PROVE  pager' \in [Pagers -> PagerStates]
BY DEF Kinds, Rests, Grabs, Returns, Drains, Destroys, Revives, Adopts, Creates, Joins,
       Installs, Discards, Unmaps, Moves, TypeInv

\* A step of a thread keeps the types.
LEMMA TypeThread ==
    ASSUME TypeInv, SeatInv, LifeInv, OneCache, NEW t \in Threads, Step(t) \/ Choice(t)
    PROVE  TypeInv'
<1>0. pager' \in [Pagers -> PagerStates]
  BY StepKinds, KindsTyped
<1> USE DEF TypeInv, Labels, Holding, Free, Locked, Syncing, Ends, Mapping
<1>1. ASSUME BeginIo(t) PROVE TypeInv'
  BY <1>0, <1>1 DEF BeginIo
<1>2. ASSUME LockIo(t) PROVE TypeInv'
  BY <1>0, <1>2 DEF LockIo
<1>3. ASSUME LockIoBare(t) PROVE TypeInv'
  BY <1>0, <1>3 DEF LockIoBare
<1>4. ASSUME HostRead(t) PROVE TypeInv'
  BY <1>0, <1>4 DEF HostRead
<1>5. ASSUME HostWrite(t) PROVE TypeInv'
  BY <1>0, <1>5 DEF HostWrite
<1>6. ASSUME HostResize(t) PROVE TypeInv'
  BY <1>0, <1>6 DEF HostResize
<1>7. ASSUME HostFails(t) PROVE TypeInv'
  BY <1>0, <1>7 DEF HostFails
<1>8. ASSUME CommitRead(t) PROVE TypeInv'
  BY <1>0, <1>8 DEF CommitRead
<1>9. ASSUME CommitWrite(t) PROVE TypeInv'
  BY <1>0, <1>9 DEF CommitWrite, Resident
<1>10. ASSUME CommitResize(t) PROVE TypeInv'
  BY <1>0, <1>10 DEF CommitResize, Resident
<1>11. ASSUME EndIo(t) PROVE TypeInv'
  BY <1>0, <1>11 DEF EndIo
<1>12. ASSUME Release(t) PROVE TypeInv'
  BY <1>0, <1>12 DEF Release
<1>13. ASSUME Drain(t) PROVE TypeInv'
  BY <1>0, <1>13 DEF Drain
<1>14. ASSUME Destroy(t) PROVE TypeInv'
  BY <1>0, <1>14 DEF Destroy, ClearSlot, NoCache
<1>15. ASSUME FailedDrain(t) PROVE TypeInv'
  BY <1>0, <1>15 DEF FailedDrain
<1>16. ASSUME NotifyFailedDrain(t) PROVE TypeInv'
  BY <1>0, <1>16 DEF NotifyFailedDrain
<1>17. ASSUME SyncLock(t) PROVE TypeInv'
  BY <1>0, <1>17 DEF SyncLock
<1>18. ASSUME CopyDirty(t) PROVE TypeInv'
  BY <1>0, <1>18 DEF CopyDirty
<1>19. ASSUME WritePage(t) PROVE TypeInv'
  BY <1>0, <1>19 DEF WritePage
<1>20. ASSUME WritePageFails(t) PROVE TypeInv'
  BY <1>0, <1>20 DEF WritePageFails, SyncReturn, AfterSync
<1>21. ASSUME FinishWriteback(t) PROVE TypeInv'
  BY <1>0, <1>21 DEF FinishWriteback
<1>22. ASSUME HostSyncRange(t) PROVE TypeInv'
  BY <1>0, <1>22 DEF HostSyncRange, SyncReturn, AfterSync
<1>23. ASSUME HostSyncRangeFails(t) PROVE TypeInv'
  BY <1>0, <1>23 DEF HostSyncRangeFails, SyncReturn, AfterSync
<1>24. ASSUME RetainForSync(t) PROVE TypeInv'
  BY <1>0, <1>24 DEF RetainForSync
<1>25. ASSUME HostSync(t) PROVE TypeInv'
  BY <1>0, <1>25 DEF HostSync
<1>26. ASSUME HostSyncFails(t) PROVE TypeInv'
  BY <1>0, <1>26 DEF HostSyncFails
<1>27. ASSUME SyncReturns(t) PROVE TypeInv'
  BY <1>0, <1>27 DEF SyncReturns
<1>28. ASSUME MapFails(t) PROVE TypeInv'
  BY <1>0, <1>28 DEF MapFails
<1>29. ASSUME CreatePager(t) PROVE TypeInv'
  BY <1>0, <1>29 DEF CreatePager
<1>30. ASSUME JoinPager(t) PROVE TypeInv'
  BY <1>0, <1>30 DEF JoinPager, DropCandidate
<1>31. ASSUME InstallPager(t) PROVE TypeInv'
  BY <1>0, <1>31 DEF InstallPager, DropCandidate
<1>32. ASSUME UpgradeWriter(t) PROVE TypeInv'
  BY <1>0, <1>32 DEF UpgradeWriter, DropCandidate
<1>33. ASSUME Unmap(t) PROVE TypeInv'
  BY <1>0, <1>33 DEF Unmap
<1>34. ASSUME RetryOrphans(t) PROVE TypeInv'
  BY <1>0, <1>34 DEF RetryOrphans
<1>35. ASSUME NEW kind \in {"read", "write", "resize", "grow"}, StartIo(t, kind) PROVE TypeInv'
  BY <1>0, <1>35 DEF StartIo
<1>36. ASSUME NEW kind \in {"fsync", "fdatasync"}, StartSync(t, kind) PROVE TypeInv'
  BY <1>0, <1>36 DEF StartSync
<1>37. ASSUME NEW w \in BOOLEAN, StartMap(t, w) PROVE TypeInv'
  BY <1>0, <1>37 DEF StartMap
<1>38. ASSUME NEW p \in Pages, GetPage(t, p) PROVE TypeInv'
  BY <1>0, <1>38 DEF GetPage
<1>39. ASSUME NEW p \in Pages, Msync(t, p) PROVE TypeInv'
  BY <1>0, <1>39 DEF Msync
<1>40. ASSUME NEW c \in Cells, NEW v \in Values, Store(t, c, v) PROVE TypeInv'
  BY <1>0, <1>40 DEF Store
<1>41. QED
  BY <1>1, <1>2, <1>3, <1>4, <1>5, <1>6, <1>7, <1>8, <1>9, <1>10, <1>11,
     <1>12, <1>13, <1>14, <1>15, <1>16, <1>17, <1>18, <1>19, <1>20, <1>21,
     <1>22, <1>23, <1>24, <1>25, <1>26, <1>27, <1>28, <1>29, <1>30, <1>31,
     <1>32, <1>33, <1>34, <1>35, <1>36, <1>37, <1>38, <1>39, <1>40 DEF Step, Choice

\* What a thread holds after a step of its own.
LEMMA SeatThread ==
    ASSUME TypeInv, SeatInv, LifeInv, OneCache, NEW t \in Threads, Step(t) \/ Choice(t)
    PROVE  SeatInv'
<1>0. None \notin Pagers
  BY SizesAssumption DEF Pagers
<1>00. ASSUME NEW u \in Threads, u # t PROVE SeatOf(u)' /\ OpOf(u)'
  <2>1. /\ pc'[u] = pc[u] /\ op'[u] = op[u] /\ held'[u] = held[u] /\ map'[u] = map[u]
        /\ cand'[u] = cand[u] /\ (u \in asleep' => u \in asleep)
    BY <1>00, OtherThreads
  <2>2. SeatOf(u) /\ OpOf(u)
    BY DEF SeatInv
  <2>3. QED
    BY <2>1, <2>2 DEF SeatOf, OpOf
<1> SUFFICES SeatOf(t)' /\ OpOf(t)'
  BY <1>00 DEF SeatInv
<1>000. SeatOf(t) /\ OpOf(t)
  BY DEF SeatInv
<1> USE DEF TypeInv, SeatOf, OpOf, Labels, Holding, Free, Locked, Syncing, Ends, Mapping
<1>1. ASSUME BeginIo(t) PROVE SeatOf(t)' /\ OpOf(t)'
  BY <1>0, <1>000, <1>1 DEF BeginIo
<1>2. ASSUME LockIo(t) PROVE SeatOf(t)' /\ OpOf(t)'
  BY <1>0, <1>000, <1>2 DEF LockIo
<1>3. ASSUME LockIoBare(t) PROVE SeatOf(t)' /\ OpOf(t)'
  BY <1>0, <1>000, <1>3 DEF LockIoBare
<1>4. ASSUME HostRead(t) PROVE SeatOf(t)' /\ OpOf(t)'
  BY <1>0, <1>000, <1>4 DEF HostRead
<1>5. ASSUME HostWrite(t) PROVE SeatOf(t)' /\ OpOf(t)'
  BY <1>0, <1>000, <1>5 DEF HostWrite
<1>6. ASSUME HostResize(t) PROVE SeatOf(t)' /\ OpOf(t)'
  BY <1>0, <1>000, <1>6 DEF HostResize
<1>7. ASSUME HostFails(t) PROVE SeatOf(t)' /\ OpOf(t)'
  BY <1>0, <1>000, <1>7 DEF HostFails
<1>8. ASSUME CommitRead(t) PROVE SeatOf(t)' /\ OpOf(t)'
  BY <1>0, <1>000, <1>8 DEF CommitRead
<1>9. ASSUME CommitWrite(t) PROVE SeatOf(t)' /\ OpOf(t)'
  BY <1>0, <1>000, <1>9 DEF CommitWrite, Resident
<1>10. ASSUME CommitResize(t) PROVE SeatOf(t)' /\ OpOf(t)'
  BY <1>0, <1>000, <1>10 DEF CommitResize, Resident
<1>11. ASSUME EndIo(t) PROVE SeatOf(t)' /\ OpOf(t)'
  BY <1>0, <1>000, <1>11 DEF EndIo
<1>12. ASSUME Release(t) PROVE SeatOf(t)' /\ OpOf(t)'
  BY <1>0, <1>000, <1>12 DEF Release
<1>13. ASSUME Drain(t) PROVE SeatOf(t)' /\ OpOf(t)'
  BY <1>0, <1>000, <1>13 DEF Drain
<1>14. ASSUME Destroy(t) PROVE SeatOf(t)' /\ OpOf(t)'
  BY <1>0, <1>000, <1>14 DEF Destroy, ClearSlot, NoCache
<1>15. ASSUME FailedDrain(t) PROVE SeatOf(t)' /\ OpOf(t)'
  BY <1>0, <1>000, <1>15 DEF FailedDrain
<1>16. ASSUME NotifyFailedDrain(t) PROVE SeatOf(t)' /\ OpOf(t)'
  BY <1>0, <1>000, <1>16 DEF NotifyFailedDrain
<1>17. ASSUME SyncLock(t) PROVE SeatOf(t)' /\ OpOf(t)'
  BY <1>0, <1>000, <1>17 DEF SyncLock
<1>18. ASSUME CopyDirty(t) PROVE SeatOf(t)' /\ OpOf(t)'
  BY <1>0, <1>000, <1>18 DEF CopyDirty
<1>19. ASSUME WritePage(t) PROVE SeatOf(t)' /\ OpOf(t)'
  BY <1>0, <1>000, <1>19 DEF WritePage
<1>20. ASSUME WritePageFails(t) PROVE SeatOf(t)' /\ OpOf(t)'
  BY <1>0, <1>000, <1>20 DEF WritePageFails, SyncReturn, AfterSync
<1>21. ASSUME FinishWriteback(t) PROVE SeatOf(t)' /\ OpOf(t)'
  BY <1>0, <1>000, <1>21 DEF FinishWriteback
<1>22. ASSUME HostSyncRange(t) PROVE SeatOf(t)' /\ OpOf(t)'
  BY <1>0, <1>000, <1>22 DEF HostSyncRange, SyncReturn, AfterSync
<1>23. ASSUME HostSyncRangeFails(t) PROVE SeatOf(t)' /\ OpOf(t)'
  BY <1>0, <1>000, <1>23 DEF HostSyncRangeFails, SyncReturn, AfterSync
<1>24. ASSUME RetainForSync(t) PROVE SeatOf(t)' /\ OpOf(t)'
  BY <1>0, <1>000, <1>24 DEF RetainForSync
<1>25. ASSUME HostSync(t) PROVE SeatOf(t)' /\ OpOf(t)'
  BY <1>0, <1>000, <1>25 DEF HostSync
<1>26. ASSUME HostSyncFails(t) PROVE SeatOf(t)' /\ OpOf(t)'
  BY <1>0, <1>000, <1>26 DEF HostSyncFails
<1>27. ASSUME SyncReturns(t) PROVE SeatOf(t)' /\ OpOf(t)'
  BY <1>0, <1>000, <1>27 DEF SyncReturns
<1>28. ASSUME MapFails(t) PROVE SeatOf(t)' /\ OpOf(t)'
  BY <1>0, <1>000, <1>28 DEF MapFails
<1>29. ASSUME CreatePager(t) PROVE SeatOf(t)' /\ OpOf(t)'
  <2>1. cand'[t] \in Pagers
    BY <1>29, FreshPager DEF CreatePager
  <2>2. QED
    BY <1>0, <1>000, <1>29, <2>1 DEF CreatePager
<1>30. ASSUME JoinPager(t) PROVE SeatOf(t)' /\ OpOf(t)'
  BY <1>0, <1>000, <1>30 DEF JoinPager, DropCandidate
<1>31. ASSUME InstallPager(t) PROVE SeatOf(t)' /\ OpOf(t)'
  BY <1>0, <1>000, <1>31 DEF InstallPager, DropCandidate
<1>32. ASSUME UpgradeWriter(t) PROVE SeatOf(t)' /\ OpOf(t)'
  BY <1>0, <1>000, <1>32 DEF UpgradeWriter, DropCandidate
<1>33. ASSUME Unmap(t) PROVE SeatOf(t)' /\ OpOf(t)'
  BY <1>0, <1>000, <1>33 DEF Unmap
<1>34. ASSUME RetryOrphans(t) PROVE SeatOf(t)' /\ OpOf(t)'
  BY <1>0, <1>000, <1>34 DEF RetryOrphans
<1>35. ASSUME NEW kind \in {"read", "write", "resize", "grow"}, StartIo(t, kind) PROVE SeatOf(t)' /\ OpOf(t)'
  BY <1>0, <1>000, <1>35 DEF StartIo
<1>36. ASSUME NEW kind \in {"fsync", "fdatasync"}, StartSync(t, kind) PROVE SeatOf(t)' /\ OpOf(t)'
  BY <1>0, <1>000, <1>36 DEF StartSync
<1>37. ASSUME NEW w \in BOOLEAN, StartMap(t, w) PROVE SeatOf(t)' /\ OpOf(t)'
  BY <1>0, <1>000, <1>37 DEF StartMap
<1>38. ASSUME NEW p \in Pages, GetPage(t, p) PROVE SeatOf(t)' /\ OpOf(t)'
  BY <1>0, <1>000, <1>38 DEF GetPage
<1>39. ASSUME NEW p \in Pages, Msync(t, p) PROVE SeatOf(t)' /\ OpOf(t)'
  BY <1>0, <1>000, <1>39 DEF Msync
<1>40. ASSUME NEW c \in Cells, NEW v \in Values, Store(t, c, v) PROVE SeatOf(t)' /\ OpOf(t)'
  BY <1>0, <1>000, <1>40 DEF Store
<1>41. QED
  BY <1>1, <1>2, <1>3, <1>4, <1>5, <1>6, <1>7, <1>8, <1>9, <1>10, <1>11,
     <1>12, <1>13, <1>14, <1>15, <1>16, <1>17, <1>18, <1>19, <1>20, <1>21,
     <1>22, <1>23, <1>24, <1>25, <1>26, <1>27, <1>28, <1>29, <1>30, <1>31,
     <1>32, <1>33, <1>34, <1>35, <1>36, <1>37, <1>38, <1>39, <1>40 DEF Step, Choice

\* Only the pager in the slot has pages.
CacheInv == \A g \in Pagers : DOMAIN cache[g] # {} => g = slot

\* What a step of a thread does to the sets of resident pages.
LEMMA ResidentNext ==
    ASSUME TypeInv, SeatInv, LifeInv, OneCache, NEW t \in Threads, Step(t) \/ Choice(t)
    PROVE  CacheInv'
<1>0. None \notin Pagers /\ CacheInv
  BY SizesAssumption DEF Pagers, OneCache, CacheInv
<1> USE DEF TypeInv
<1>1. ASSUME slot' = slot, DOMAIN cache' = Pagers,
             \A g \in Pagers : DOMAIN cache'[g] \subseteq DOMAIN cache[g]
      PROVE  CacheInv'
  BY <1>0, <1>1 DEF CacheInv
<1>2. ASSUME slot' = slot, cache' = cache PROVE CacheInv'
  BY <1>0, <1>2 DEF CacheInv
<1>3. ASSUME \/ CommitWrite(t) \/ CommitResize(t) \/ FinishWriteback(t)
             \/ \E c, v : Store(t, c, v)
      PROVE  CacheInv'
  <2>1. slot' = slot /\ DOMAIN cache' = Pagers
    BY <1>3 DEF CommitWrite, CommitResize, FinishWriteback, Store
  <2>2. ASSUME NEW g \in Pagers PROVE DOMAIN cache'[g] \subseteq DOMAIN cache[g]
    <3>1. ASSUME CommitWrite(t) \/ FinishWriteback(t) \/ \E c, v : Store(t, c, v)
          PROVE  DOMAIN cache'[g] = DOMAIN cache[g]
      BY <3>1 DEF CommitWrite, FinishWriteback, Store
    <3>2. ASSUME CommitResize(t) PROVE DOMAIN cache'[g] \subseteq DOMAIN cache[g]
      BY <3>2 DEF CommitResize, Resident
    <3>3. QED
      BY <1>3, <3>1, <3>2
  <2>3. QED
    BY <1>1, <2>1, <2>2
<1>4. ASSUME NEW p, GetPage(t, p) PROVE CacheInv'
  <2>1. map[t] = slot /\ slot \in Pagers /\ slot' = slot
    BY <1>4 DEF GetPage, OneCache
  <2>2. \A g \in Pagers : g # slot => cache'[g] = cache[g]
    BY <1>4, <2>1 DEF GetPage
  <2>3. QED
    BY <1>0, <2>1, <2>2 DEF CacheInv
<1>5. ASSUME Destroy(t) PROVE CacheInv'
  <2>1. held[t] \in Pagers
    BY <1>5 DEF Destroy, SeatInv, SeatOf, Holding, Ends
  <2>2. /\ DOMAIN cache'[held[t]] = {}
        /\ \A g \in Pagers : g # held[t] => cache'[g] = cache[g]
    BY <1>5, <2>1 DEF Destroy, NoCache
  <2>3. \A g \in Pagers : g # held[t] /\ g = slot => slot' = slot
    BY <1>5 DEF Destroy, ClearSlot
  <2>4. QED
    BY <1>0, <2>1, <2>2, <2>3 DEF CacheInv
<1>6. ASSUME InstallPager(t) PROVE CacheInv'
  <2>1. cache' = cache /\ slot = None
    BY <1>6 DEF InstallPager
  <2>2. \A g \in Pagers : DOMAIN cache[g] = {}
    BY <1>0, <2>1 DEF CacheInv
  <2>3. QED
    BY <2>1, <2>2 DEF CacheInv
<1>7. CASE \/ BeginIo(t) \/ LockIo(t) \/ LockIoBare(t) \/ HostRead(t) \/ HostWrite(t)
           \/ HostResize(t) \/ HostFails(t) \/ CommitRead(t) \/ EndIo(t) \/ Release(t)
           \/ Drain(t) \/ FailedDrain(t) \/ NotifyFailedDrain(t) \/ SyncLock(t)
  BY <1>2, <1>7 DEF BeginIo, LockIo, LockIoBare, HostRead, HostWrite, HostResize, HostFails,
       CommitRead, EndIo, Release, Drain, FailedDrain, NotifyFailedDrain, SyncLock
<1>8. CASE \/ CopyDirty(t) \/ WritePage(t) \/ WritePageFails(t) \/ HostSyncRange(t)
           \/ HostSyncRangeFails(t) \/ RetainForSync(t) \/ HostSync(t) \/ HostSyncFails(t)
           \/ SyncReturns(t) \/ MapFails(t) \/ CreatePager(t) \/ JoinPager(t)
           \/ UpgradeWriter(t) \/ Unmap(t) \/ RetryOrphans(t)
  BY <1>2, <1>8 DEF CopyDirty, WritePage, WritePageFails, HostSyncRange, HostSyncRangeFails,
       RetainForSync, HostSync, HostSyncFails, SyncReturns, MapFails, CreatePager,
       JoinPager, UpgradeWriter, Unmap, RetryOrphans
<1>9. CASE \/ \E kind : StartIo(t, kind) \/ StartSync(t, kind)
           \/ \E w : StartMap(t, w)
           \/ \E p : Msync(t, p)
  BY <1>2, <1>9 DEF StartIo, StartSync, StartMap, Msync
<1>10. QED
  BY <1>3, <1>4, <1>5, <1>6, <1>7, <1>8, <1>9 DEF Step, Choice

\* The parts of OneCache.
LEMMA OneCacheParts ==
    OneCache <=> (hostMaps # 0 => slot = None) /\ MapInv /\ CacheInv
BY DEF OneCache, MapInv, CacheInv

\* Every step keeps the pagers and their holders right.
LEMMA HoldStep ==
    ASSUME HoldInv, [Next]_vars
    PROVE  HoldInv'
<1> USE DEF HoldInv
<1>0. None \notin Pagers
  BY SizesAssumption DEF Pagers
<1>1. ASSUME NEW t \in Threads, Step(t) \/ Choice(t) PROVE HoldInv'
  <2>1. TypeInv' /\ SeatInv'
    BY <1>1, TypeThread, SeatThread
  <2>2. LifeInv' /\ MapInv' /\ RefsInv'
    BY <1>1, GripThread, OneCacheParts DEF GripInv, GripNext
  <2>3. CacheInv'
    BY <1>1, ResidentNext
  <2>4. hostMaps' # 0 => slot' = None
    <3>1. Kinds(t) /\ hostMaps' = hostMaps
      <4>1. hostMaps' = hostMaps
        <5>1. ASSUME Choice(t) PROVE hostMaps' = hostMaps
          BY <5>1 DEF Choice, StartIo, StartSync, StartMap, GetPage, Msync, Store, Unmap,
               RetryOrphans
        <5>2. ASSUME Step(t) PROVE hostMaps' = hostMaps
          BY <5>2 DEF Step, BeginIo, LockIo, LockIoBare, HostRead, HostWrite, HostResize,
               HostFails, CommitRead, CommitWrite, CommitResize, EndIo, Release, Drain,
               Destroy, FailedDrain, NotifyFailedDrain, SyncLock, CopyDirty, WritePage,
               WritePageFails, FinishWriteback, HostSyncRange, HostSyncRangeFails,
               RetainForSync, HostSync, HostSyncFails, SyncReturns, MapFails, CreatePager,
               JoinPager, InstallPager, UpgradeWriter
        <5>3. QED
          BY <1>1, <5>1, <5>2
      <4>2. QED
        BY <1>1, <4>1, StepKinds
    <3>2. slot' = slot \/ slot' = None \/ hostMaps = 0
      BY <3>1 DEF Kinds, Rests, Grabs, Returns, Drains, Destroys, Revives, Adopts, Creates,
           Joins, Installs, Discards, Unmaps
    <3>3. QED
      BY <3>1, <3>2 DEF OneCache
  <2>5. OneCache'
    BY <2>2, <2>3, <2>4 DEF OneCache, MapInv, CacheInv
  <2>6. QED
    BY <2>1, <2>2, <2>5
<1>2. ASSUME UNCHANGED <<slot, pager, cache, asleep, pc, op, held, map, cand, after, todo>>,
             hostMaps' \in Nat, hostMaps' # 0 => slot = None
      PROVE  HoldInv'
  <2>1. TypeInv'
    BY <1>2 DEF TypeInv
  <2>2. SeatInv' /\ LifeInv'
    BY <1>2 DEF SeatInv, SeatOf, OpOf, LifeInv, LifeOf, Ending, Live
  <2>3. RefsInv'
    BY <1>2 DEF RefsInv, RefsOf, Holders, Count
  <2>4. OneCache'
    BY <1>2 DEF OneCache, Live
  <2>5. QED
    BY <2>1, <2>2, <2>3, <2>4
<1>3. ASSUME BeginHostMap \/ EndHostMap PROVE HoldInv'
  <2>1. hostMaps' \in Nat /\ (hostMaps' # 0 => slot = None)
    BY <1>3 DEF BeginHostMap, EndHostMap, TypeInv, OneCache
  <2>2. QED
    BY <1>2, <1>3, <2>1 DEF BeginHostMap, EndHostMap
<1>4. ASSUME NEW c, NEW v, HostStore(c, v) PROVE HoldInv'
  <2>1. hostMaps' = hostMaps
    BY <1>4 DEF HostStore
  <2>2. QED
    BY <1>2, <1>4, <2>1 DEF HostStore, TypeInv, OneCache
<1>5. ASSUME UNCHANGED vars PROVE HoldInv'
  BY <1>2, <1>5 DEF vars, TypeInv, OneCache
<1>6. QED
  BY <1>1, <1>3, <1>4, <1>5 DEF Next, Quiet

\* The initial state: no pager, no holders.
LEMMA HoldInit == Init => HoldInv
<1> SUFFICES ASSUME Init PROVE HoldInv
  OBVIOUS
<1>0. None \notin Pagers
  BY SizesAssumption DEF Pagers
<1>1. TypeInv
  BY DEF Init, TypeInv, NoPager, PagerStates, Lives, NoCache, Labels, Free
<1>2. SeatInv /\ LifeInv
  BY DEF Init, SeatInv, SeatOf, OpOf, LifeInv, LifeOf, Holding, Free, Locked, Syncing, Ends,
     Mapping
<1>3. OneCache
  BY DEF Init, OneCache, NoCache
<1>4. ASSUME NEW g \in Pagers PROVE RefsOf(g)
  <2>1. Count(map, g) = 0 /\ Count(held, g) = 0 /\ Count(cand, g) = 0
    BY <1>0, CountFacts DEF Init
  <2>2. pager[g].life = "none" /\ ~pager[g].orphan /\ slot # g
    BY <1>0 DEF Init, NoPager
  <2>3. QED
    BY <2>1, <2>2 DEF RefsOf, Holders
<1>5. QED
  BY <1>1, <1>2, <1>3, <1>4 DEF HoldInv, RefsInv

\* The pagers and their holders are right in every reachable state.
THEOREM HoldInvariant == Spec => []HoldInv
<1>1. Init => HoldInv
  BY HoldInit
<1>2. HoldInv /\ [Next]_vars => HoldInv'
  BY HoldStep
<1>3. QED
  BY <1>1, <1>2, PTL DEF Spec

\* For every number of threads, pagers, pages and cells: there is never a second cache of
\* the file, nor a host mapping beside a pager.
THEOREM OneCacheHolds == Spec => []OneCache
<1>1. HoldInv => OneCache
  BY DEF HoldInv
<1>2. QED
  BY <1>1, HoldInvariant, PTL

\* For every number of threads: retain, release, the failed drain and the list of orphans
\* count every holder of a pager exactly once.
THEOREM RefsExactHolds == Spec => []RefsExact
<1>1. HoldInv => RefsExact
  <2> SUFFICES ASSUME HoldInv, NEW g \in Pagers
               PROVE  CASE pager[g].life = "none" -> Holders(g) = 0 /\ slot # g /\ ~pager[g].orphan
                        [] pager[g].life = "live" ->
                             pager[g].refs = Holders(g) + (IF pager[g].orphan THEN 1 ELSE 0)
                        [] OTHER -> Holders(g) = 1 /\ ~pager[g].orphan
    BY DEF RefsExact, Holders, Count
  <2>1. pager[g].life \in Lives
    BY DEF HoldInv, TypeInv, PagerStates
  <2>2. RefsOf(g)
    BY DEF HoldInv, RefsInv
  <2>3. CASE pager[g].life = "none"
    BY <2>2, <2>3 DEF RefsOf
  <2>4. CASE pager[g].life = "live"
    BY <2>2, <2>4 DEF RefsOf
  <2>5. CASE pager[g].life = "draining"
    BY <2>2, <2>5 DEF RefsOf
  <2>6. QED
    BY <2>1, <2>3, <2>4, <2>5 DEF Lives
<1>2. QED
  BY <1>1, HoldInvariant, PTL

----------------------------------------------------------------------------
(* Sleepers and their waker *)

\* What a step does to the sleepers: it wakes all of them, it adds the thread, which has
\* met a pager that ends, or it leaves them, and then whoever ends the pager in the slot
\* goes on with that.
Sleeps(t) ==
    \/ asleep' = {}
    \/ /\ asleep' = asleep \union {t} /\ slot # None /\ ~Live(slot) /\ held[t] = None
       /\ UNCHANGED <<slot, pager, held, pc, op>>
    \/ /\ asleep' = asleep /\ pc[t] # "notify" /\ (slot # None => slot' = slot)
       /\ Ending(t) /\ held[t] = slot =>
             held'[t] = held[t] /\ (Ending(t)' \/ pc'[t] = "notify")

\* Every step of a thread is one of these.
LEMMA SleepKinds ==
    ASSUME TypeInv, SeatInv, NEW t \in Threads, Step(t) \/ Choice(t)
    PROVE  Sleeps(t)
<1>0. SeatOf(t) /\ OpOf(t)
  BY DEF SeatInv
<1> USE DEF TypeInv, SeatOf, OpOf, Labels, Holding, Free, Locked, Syncing, Ends, Mapping, Sleeps, Ending
<1>1. ASSUME BeginIo(t) PROVE Sleeps(t)
  BY <1>0, <1>1 DEF BeginIo
<1>2. ASSUME LockIo(t) PROVE Sleeps(t)
  BY <1>0, <1>2 DEF LockIo
<1>3. ASSUME LockIoBare(t) PROVE Sleeps(t)
  BY <1>0, <1>3 DEF LockIoBare
<1>4. ASSUME HostRead(t) PROVE Sleeps(t)
  BY <1>0, <1>4 DEF HostRead
<1>5. ASSUME HostWrite(t) PROVE Sleeps(t)
  BY <1>0, <1>5 DEF HostWrite
<1>6. ASSUME HostResize(t) PROVE Sleeps(t)
  BY <1>0, <1>6 DEF HostResize
<1>7. ASSUME HostFails(t) PROVE Sleeps(t)
  BY <1>0, <1>7 DEF HostFails
<1>8. ASSUME CommitRead(t) PROVE Sleeps(t)
  BY <1>0, <1>8 DEF CommitRead
<1>9. ASSUME CommitWrite(t) PROVE Sleeps(t)
  BY <1>0, <1>9 DEF CommitWrite, Resident
<1>10. ASSUME CommitResize(t) PROVE Sleeps(t)
  BY <1>0, <1>10 DEF CommitResize, Resident
<1>11. ASSUME EndIo(t) PROVE Sleeps(t)
  BY <1>0, <1>11 DEF EndIo
<1>12. ASSUME Release(t) PROVE Sleeps(t)
  BY <1>0, <1>12 DEF Release
<1>13. ASSUME Drain(t) PROVE Sleeps(t)
  BY <1>0, <1>13 DEF Drain
<1>14. ASSUME Destroy(t) PROVE Sleeps(t)
  BY <1>0, <1>14 DEF Destroy, ClearSlot, NoCache
<1>15. ASSUME FailedDrain(t) PROVE Sleeps(t)
  BY <1>0, <1>15 DEF FailedDrain
<1>16. ASSUME NotifyFailedDrain(t) PROVE Sleeps(t)
  BY <1>0, <1>16 DEF NotifyFailedDrain
<1>17. ASSUME SyncLock(t) PROVE Sleeps(t)
  BY <1>0, <1>17 DEF SyncLock
<1>18. ASSUME CopyDirty(t) PROVE Sleeps(t)
  BY <1>0, <1>18 DEF CopyDirty
<1>19. ASSUME WritePage(t) PROVE Sleeps(t)
  BY <1>0, <1>19 DEF WritePage
<1>20. ASSUME WritePageFails(t) PROVE Sleeps(t)
  BY <1>0, <1>20 DEF WritePageFails, SyncReturn, AfterSync
<1>21. ASSUME FinishWriteback(t) PROVE Sleeps(t)
  BY <1>0, <1>21 DEF FinishWriteback
<1>22. ASSUME HostSyncRange(t) PROVE Sleeps(t)
  BY <1>0, <1>22 DEF HostSyncRange, SyncReturn, AfterSync
<1>23. ASSUME HostSyncRangeFails(t) PROVE Sleeps(t)
  BY <1>0, <1>23 DEF HostSyncRangeFails, SyncReturn, AfterSync
<1>24. ASSUME RetainForSync(t) PROVE Sleeps(t)
  BY <1>0, <1>24 DEF RetainForSync
<1>25. ASSUME HostSync(t) PROVE Sleeps(t)
  BY <1>0, <1>25 DEF HostSync
<1>26. ASSUME HostSyncFails(t) PROVE Sleeps(t)
  BY <1>0, <1>26 DEF HostSyncFails
<1>27. ASSUME SyncReturns(t) PROVE Sleeps(t)
  BY <1>0, <1>27 DEF SyncReturns
<1>28. ASSUME MapFails(t) PROVE Sleeps(t)
  BY <1>0, <1>28 DEF MapFails
<1>29. ASSUME CreatePager(t) PROVE Sleeps(t)
  BY <1>0, <1>29 DEF CreatePager
<1>30. ASSUME JoinPager(t) PROVE Sleeps(t)
  BY <1>0, <1>30 DEF JoinPager, DropCandidate
<1>31. ASSUME InstallPager(t) PROVE Sleeps(t)
  BY <1>0, <1>31 DEF InstallPager, DropCandidate
<1>32. ASSUME UpgradeWriter(t) PROVE Sleeps(t)
  BY <1>0, <1>32 DEF UpgradeWriter, DropCandidate
<1>33. ASSUME Unmap(t) PROVE Sleeps(t)
  BY <1>0, <1>33 DEF Unmap
<1>34. ASSUME RetryOrphans(t) PROVE Sleeps(t)
  BY <1>0, <1>34 DEF RetryOrphans
<1>35. ASSUME NEW kind \in {"read", "write", "resize", "grow"}, StartIo(t, kind) PROVE Sleeps(t)
  BY <1>0, <1>35 DEF StartIo
<1>36. ASSUME NEW kind \in {"fsync", "fdatasync"}, StartSync(t, kind) PROVE Sleeps(t)
  BY <1>0, <1>36 DEF StartSync
<1>37. ASSUME NEW w \in BOOLEAN, StartMap(t, w) PROVE Sleeps(t)
  BY <1>0, <1>37 DEF StartMap
<1>38. ASSUME NEW p \in Pages, GetPage(t, p) PROVE Sleeps(t)
  BY <1>0, <1>38 DEF GetPage
<1>39. ASSUME NEW p \in Pages, Msync(t, p) PROVE Sleeps(t)
  BY <1>0, <1>39 DEF Msync
<1>40. ASSUME NEW c \in Cells, NEW v \in Values, Store(t, c, v) PROVE Sleeps(t)
  BY <1>0, <1>40 DEF Store
<1>41. QED
  BY <1>1, <1>2, <1>3, <1>4, <1>5, <1>6, <1>7, <1>8, <1>9, <1>10, <1>11,
     <1>12, <1>13, <1>14, <1>15, <1>16, <1>17, <1>18, <1>19, <1>20, <1>21,
     <1>22, <1>23, <1>24, <1>25, <1>26, <1>27, <1>28, <1>29, <1>30, <1>31,
     <1>32, <1>33, <1>34, <1>35, <1>36, <1>37, <1>38, <1>39, <1>40 DEF Step, Choice

\* A pager in the slot that is not live is being ended by a thread that does not sleep.
LEMMA EnderAwake ==
    ASSUME HoldInv, slot # None, ~Live(slot)
    PROVE  \E u \in Threads \ asleep : held[u] = slot /\ pager[slot].life = "draining"
<1> USE DEF HoldInv
<1>1. slot \in Pagers /\ pager[slot].life \in Lives /\ None \notin Pagers
  BY SizesAssumption DEF TypeInv, PagerStates, Pagers
<1>2. RefsOf(slot)
  BY <1>1 DEF RefsInv
<1>3. pager[slot].life = "draining" /\ Holders(slot) = 1
  BY <1>1, <1>2 DEF RefsOf, Lives, Live
<1>4. \A u \in Threads : map[u] # slot /\ cand[u] # slot
  BY <1>1 DEF OneCache, LifeInv, LifeOf, Live
<1>5. Count(map, slot) = 0 /\ Count(cand, slot) = 0 /\ Count(held, slot) \in Nat
  BY <1>4, CountFacts
<1>6. Count(held, slot) # 0
  BY <1>3, <1>5 DEF Holders
<1>7. PICK u \in Threads : held[u] = slot
  BY <1>6, CountFacts
<1>8. u \notin asleep
  BY <1>1, <1>7 DEF SeatInv, SeatOf, Free, Mapping
<1>9. QED
  BY <1>3, <1>7, <1>8

\* Every step leaves the sleepers somebody who will wake them.
LEMMA SleepStep ==
    ASSUME HoldInv, HoldInv', SleeperHasWaker, [Next]_vars
    PROVE  SleeperHasWaker'
<1> USE DEF HoldInv
<1>0. None \notin Pagers
  BY SizesAssumption DEF Pagers
<1>1. ASSUME NEW t \in Threads, Step(t) \/ Choice(t) PROVE SleeperHasWaker'
  <2>1. Sleeps(t)
    BY <1>1, SleepKinds
  <2>2. ASSUME asleep' = asleep \union {t}, slot # None, ~Live(slot), held[t] = None,
               UNCHANGED <<slot, pager, held, pc, op>>
        PROVE  SleeperHasWaker'
    <3>1. PICK u \in Threads \ asleep : held[u] = slot /\ pager[slot].life = "draining"
      BY <2>2, EnderAwake
    <3>2. u \in Threads \ asleep'
      BY <2>2, <3>1
    <3>3. held'[u] = slot' /\ slot' # None /\ pager'[slot'].life = "draining"
      BY <2>2, <3>1
    <3>4. QED
      BY <3>2, <3>3 DEF SleeperHasWaker
  <2>3. ASSUME asleep' = asleep, asleep # {}, pc[t] # "notify", slot # None => slot' = slot,
               Ending(t) /\ held[t] = slot =>
                  held'[t] = held[t] /\ (Ending(t)' \/ pc'[t] = "notify")
        PROVE  SleeperHasWaker'
    <3>1. PICK w \in Threads \ asleep : /\ slot # None /\ held[w] = slot
                                        /\ pager[slot].life = "draining" \/ pc[w] = "notify"
      BY <2>3 DEF SleeperHasWaker
    <3>2. slot' = slot /\ slot \in Pagers
      BY <2>3, <3>1 DEF TypeInv
    <3>3. pc[w] # "notify" => Ending(w)
      BY <3>1 DEF LifeInv, LifeOf
    <3>4. held'[w] = slot' /\ (Ending(w)' \/ pc'[w] = "notify")
      <4>1. CASE w = t
        BY <2>3, <3>1, <3>2, <3>3, <4>1
      <4>2. CASE w # t
        <5>1. pc'[w] = pc[w] /\ op'[w] = op[w] /\ held'[w] = held[w]
          BY <1>1, <4>2, OtherThreads
        <5>2. Ending(w)' <=> Ending(w)
          BY <5>1 DEF Ending
        <5>3. QED
          BY <3>1, <3>2, <3>3, <5>1, <5>2
      <4>3. QED
        BY <4>1, <4>2
    <3>5. Ending(w)' => pager'[slot'].life = "draining"
      BY <1>0, <3>2, <3>4 DEF LifeInv, LifeOf
    <3>6. QED
      BY <2>3, <3>1, <3>2, <3>4, <3>5 DEF SleeperHasWaker
  <2>4. CASE asleep' = {}
    BY <2>4 DEF SleeperHasWaker
  <2>5. QED
    BY <2>1, <2>2, <2>3, <2>4 DEF Sleeps
<1>2. ASSUME UNCHANGED <<slot, pager, asleep, pc, held>> PROVE SleeperHasWaker'
  BY <1>2 DEF SleeperHasWaker
<1>3. QED
  BY <1>1, <1>2 DEF Next, Quiet, vars, BeginHostMap, EndHostMap, HostStore

----------------------------------------------------------------------------
(* file_io_lock *)

\* A step keeps the lock, takes it when it is free, or gives it back.
Locks(t) ==
    \/ ioLock' = ioLock /\ (pc'[t] \in Locked <=> pc[t] \in Locked)
    \/ ioLock = None /\ ioLock' = t /\ pc'[t] \in Locked
    \/ pc[t] \in Locked /\ ioLock' = None /\ pc'[t] \notin Locked

\* Every step of a thread is one of these.
LEMMA LockKinds ==
    ASSUME TypeInv, NEW t \in Threads, Step(t) \/ Choice(t)
    PROVE  Locks(t)
<1> USE DEF TypeInv, Labels, Holding, Free, Locked, Syncing, Ends, Mapping, Locks
<1>1. ASSUME BeginIo(t) PROVE Locks(t)
  BY <1>1 DEF BeginIo
<1>2. ASSUME LockIo(t) PROVE Locks(t)
  BY <1>2 DEF LockIo
<1>3. ASSUME LockIoBare(t) PROVE Locks(t)
  BY <1>3 DEF LockIoBare
<1>4. ASSUME HostRead(t) PROVE Locks(t)
  BY <1>4 DEF HostRead
<1>5. ASSUME HostWrite(t) PROVE Locks(t)
  BY <1>5 DEF HostWrite
<1>6. ASSUME HostResize(t) PROVE Locks(t)
  BY <1>6 DEF HostResize
<1>7. ASSUME HostFails(t) PROVE Locks(t)
  BY <1>7 DEF HostFails
<1>8. ASSUME CommitRead(t) PROVE Locks(t)
  BY <1>8 DEF CommitRead
<1>9. ASSUME CommitWrite(t) PROVE Locks(t)
  BY <1>9 DEF CommitWrite, Resident
<1>10. ASSUME CommitResize(t) PROVE Locks(t)
  BY <1>10 DEF CommitResize, Resident
<1>11. ASSUME EndIo(t) PROVE Locks(t)
  BY <1>11 DEF EndIo
<1>12. ASSUME Release(t) PROVE Locks(t)
  BY <1>12 DEF Release
<1>13. ASSUME Drain(t) PROVE Locks(t)
  BY <1>13 DEF Drain
<1>14. ASSUME Destroy(t) PROVE Locks(t)
  BY <1>14 DEF Destroy, ClearSlot, NoCache
<1>15. ASSUME FailedDrain(t) PROVE Locks(t)
  BY <1>15 DEF FailedDrain
<1>16. ASSUME NotifyFailedDrain(t) PROVE Locks(t)
  BY <1>16 DEF NotifyFailedDrain
<1>17. ASSUME SyncLock(t) PROVE Locks(t)
  BY <1>17 DEF SyncLock
<1>18. ASSUME CopyDirty(t) PROVE Locks(t)
  BY <1>18 DEF CopyDirty
<1>19. ASSUME WritePage(t) PROVE Locks(t)
  BY <1>19 DEF WritePage
<1>20. ASSUME WritePageFails(t) PROVE Locks(t)
  BY <1>20 DEF WritePageFails, SyncReturn, AfterSync
<1>21. ASSUME FinishWriteback(t) PROVE Locks(t)
  BY <1>21 DEF FinishWriteback
<1>22. ASSUME HostSyncRange(t) PROVE Locks(t)
  BY <1>22 DEF HostSyncRange, SyncReturn, AfterSync
<1>23. ASSUME HostSyncRangeFails(t) PROVE Locks(t)
  BY <1>23 DEF HostSyncRangeFails, SyncReturn, AfterSync
<1>24. ASSUME RetainForSync(t) PROVE Locks(t)
  BY <1>24 DEF RetainForSync
<1>25. ASSUME HostSync(t) PROVE Locks(t)
  BY <1>25 DEF HostSync
<1>26. ASSUME HostSyncFails(t) PROVE Locks(t)
  BY <1>26 DEF HostSyncFails
<1>27. ASSUME SyncReturns(t) PROVE Locks(t)
  BY <1>27 DEF SyncReturns
<1>28. ASSUME MapFails(t) PROVE Locks(t)
  BY <1>28 DEF MapFails
<1>29. ASSUME CreatePager(t) PROVE Locks(t)
  BY <1>29 DEF CreatePager
<1>30. ASSUME JoinPager(t) PROVE Locks(t)
  BY <1>30 DEF JoinPager, DropCandidate
<1>31. ASSUME InstallPager(t) PROVE Locks(t)
  BY <1>31 DEF InstallPager, DropCandidate
<1>32. ASSUME UpgradeWriter(t) PROVE Locks(t)
  BY <1>32 DEF UpgradeWriter, DropCandidate
<1>33. ASSUME Unmap(t) PROVE Locks(t)
  BY <1>33 DEF Unmap
<1>34. ASSUME RetryOrphans(t) PROVE Locks(t)
  BY <1>34 DEF RetryOrphans
<1>35. ASSUME NEW kind \in {"read", "write", "resize", "grow"}, StartIo(t, kind) PROVE Locks(t)
  BY <1>35 DEF StartIo
<1>36. ASSUME NEW kind \in {"fsync", "fdatasync"}, StartSync(t, kind) PROVE Locks(t)
  BY <1>36 DEF StartSync
<1>37. ASSUME NEW w \in BOOLEAN, StartMap(t, w) PROVE Locks(t)
  BY <1>37 DEF StartMap
<1>38. ASSUME NEW p \in Pages, GetPage(t, p) PROVE Locks(t)
  BY <1>38 DEF GetPage
<1>39. ASSUME NEW p \in Pages, Msync(t, p) PROVE Locks(t)
  BY <1>39 DEF Msync
<1>40. ASSUME NEW c \in Cells, NEW v \in Values, Store(t, c, v) PROVE Locks(t)
  BY <1>40 DEF Store
<1>41. QED
  BY <1>1, <1>2, <1>3, <1>4, <1>5, <1>6, <1>7, <1>8, <1>9, <1>10, <1>11,
     <1>12, <1>13, <1>14, <1>15, <1>16, <1>17, <1>18, <1>19, <1>20, <1>21,
     <1>22, <1>23, <1>24, <1>25, <1>26, <1>27, <1>28, <1>29, <1>30, <1>31,
     <1>32, <1>33, <1>34, <1>35, <1>36, <1>37, <1>38, <1>39, <1>40 DEF Step, Choice

\* Every step keeps the lock exclusive.
LEMMA LockStep ==
    ASSUME HoldInv, LockInv, [Next]_vars
    PROVE  LockInv'
<1> USE DEF HoldInv
<1>0. None \notin Threads
  BY SizesAssumption
<1>1. ASSUME NEW t \in Threads, Step(t) \/ Choice(t) PROVE LockInv'
  <2>1. Locks(t)
    BY <1>1, LockKinds
  <2>2. \A u \in Threads : u # t => pc'[u] = pc[u]
    BY <1>1, OtherThreads
  <2>3. QED
    BY <1>0, <2>1, <2>2 DEF LockInv, LockOf, Locks
<1>2. ASSUME UNCHANGED <<ioLock, pc>> PROVE LockInv'
  BY <1>2 DEF LockInv, LockOf
<1>3. QED
  BY <1>1, <1>2 DEF Next, Quiet, vars, BeginHostMap, EndHostMap, HostStore

----------------------------------------------------------------------------
(* The page that is written back *)

Copying == {"syncPage", "syncWrite", "syncFinish"}

\* While one thread writes back, the others do nothing to the cache but store into a page
\* and destroy a pager.
LEMMA OthersKeepPages ==
    ASSUME HoldInv, LockInv, NEW t \in Threads, Step(t) \/ Choice(t),
           NEW u \in Threads, u # t, pc[u] \in Copying
    PROVE  \/ cache' = cache /\ snap' = snap
           \/ Destroy(t)
           \/ \E c \in Cells, v \in Values : Store(t, c, v)
<1>0. ioLock # None /\ pc[t] \notin Locked
  <2>1. ioLock = u
    BY DEF LockInv, LockOf, Copying, Locked, Syncing
  <2>2. QED
    BY <2>1, SizesAssumption DEF LockInv, LockOf
<1> DEFINE Same == cache' = cache /\ snap' = snap
<1> USE DEF Locked, Syncing
<1>1. ASSUME BeginIo(t) PROVE Same
  BY <1>0, <1>1 DEF BeginIo
<1>2. ASSUME LockIo(t) PROVE Same
  BY <1>0, <1>2 DEF LockIo
<1>3. ASSUME LockIoBare(t) PROVE Same
  BY <1>0, <1>3 DEF LockIoBare
<1>4. ASSUME HostRead(t) PROVE Same
  BY <1>0, <1>4 DEF HostRead
<1>5. ASSUME HostWrite(t) PROVE Same
  BY <1>0, <1>5 DEF HostWrite
<1>6. ASSUME HostResize(t) PROVE Same
  BY <1>0, <1>6 DEF HostResize
<1>7. ASSUME HostFails(t) PROVE Same
  BY <1>0, <1>7 DEF HostFails
<1>8. ASSUME CommitRead(t) PROVE Same
  BY <1>0, <1>8 DEF CommitRead
<1>9. ASSUME CommitWrite(t) PROVE Same
  BY <1>0, <1>9 DEF CommitWrite, Resident
<1>10. ASSUME CommitResize(t) PROVE Same
  BY <1>0, <1>10 DEF CommitResize, Resident
<1>11. ASSUME EndIo(t) PROVE Same
  BY <1>0, <1>11 DEF EndIo
<1>12. ASSUME Release(t) PROVE Same
  BY <1>0, <1>12 DEF Release
<1>13. ASSUME Drain(t) PROVE Same
  BY <1>0, <1>13 DEF Drain
<1>14. ASSUME FailedDrain(t) PROVE Same
  BY <1>0, <1>14 DEF FailedDrain
<1>15. ASSUME NotifyFailedDrain(t) PROVE Same
  BY <1>0, <1>15 DEF NotifyFailedDrain
<1>16. ASSUME SyncLock(t) PROVE Same
  BY <1>0, <1>16 DEF SyncLock
<1>17. ASSUME CopyDirty(t) PROVE Same
  BY <1>0, <1>17 DEF CopyDirty
<1>18. ASSUME WritePage(t) PROVE Same
  BY <1>0, <1>18 DEF WritePage
<1>19. ASSUME WritePageFails(t) PROVE Same
  BY <1>0, <1>19 DEF WritePageFails, SyncReturn, AfterSync
<1>20. ASSUME FinishWriteback(t) PROVE Same
  BY <1>0, <1>20 DEF FinishWriteback
<1>21. ASSUME HostSyncRange(t) PROVE Same
  BY <1>0, <1>21 DEF HostSyncRange, SyncReturn, AfterSync
<1>22. ASSUME HostSyncRangeFails(t) PROVE Same
  BY <1>0, <1>22 DEF HostSyncRangeFails, SyncReturn, AfterSync
<1>23. ASSUME RetainForSync(t) PROVE Same
  BY <1>0, <1>23 DEF RetainForSync
<1>24. ASSUME HostSync(t) PROVE Same
  BY <1>0, <1>24 DEF HostSync
<1>25. ASSUME HostSyncFails(t) PROVE Same
  BY <1>0, <1>25 DEF HostSyncFails
<1>26. ASSUME SyncReturns(t) PROVE Same
  BY <1>0, <1>26 DEF SyncReturns
<1>27. ASSUME MapFails(t) PROVE Same
  BY <1>0, <1>27 DEF MapFails
<1>28. ASSUME CreatePager(t) PROVE Same
  BY <1>0, <1>28 DEF CreatePager
<1>29. ASSUME JoinPager(t) PROVE Same
  BY <1>0, <1>29 DEF JoinPager, DropCandidate
<1>30. ASSUME InstallPager(t) PROVE Same
  BY <1>0, <1>30 DEF InstallPager, DropCandidate
<1>31. ASSUME UpgradeWriter(t) PROVE Same
  BY <1>0, <1>31 DEF UpgradeWriter, DropCandidate
<1>32. ASSUME Unmap(t) PROVE Same
  BY <1>0, <1>32 DEF Unmap
<1>33. ASSUME RetryOrphans(t) PROVE Same
  BY <1>0, <1>33 DEF RetryOrphans
<1>34. ASSUME NEW kind \in {"read", "write", "resize", "grow"}, StartIo(t, kind) PROVE Same
  BY <1>0, <1>34 DEF StartIo
<1>35. ASSUME NEW kind \in {"fsync", "fdatasync"}, StartSync(t, kind) PROVE Same
  BY <1>0, <1>35 DEF StartSync
<1>36. ASSUME NEW w \in BOOLEAN, StartMap(t, w) PROVE Same
  BY <1>0, <1>36 DEF StartMap
<1>37. ASSUME NEW p \in Pages, GetPage(t, p) PROVE Same
  BY <1>0, <1>37 DEF GetPage
<1>38. ASSUME NEW p \in Pages, Msync(t, p) PROVE Same
  BY <1>0, <1>38 DEF Msync
<1>39. QED
  BY <1>1, <1>2, <1>3, <1>4, <1>5, <1>6, <1>7, <1>8, <1>9, <1>10, <1>11,
     <1>12, <1>13, <1>14, <1>15, <1>16, <1>17, <1>18, <1>19, <1>20, <1>21,
     <1>22, <1>23, <1>24, <1>25, <1>26, <1>27, <1>28, <1>29, <1>30, <1>31,
     <1>32, <1>33, <1>34, <1>35, <1>36, <1>37, <1>38 DEF Step, Choice

\* A store keeps every page resident, and the pages it leaves clean were clean.
LEMMA StoreKeeps ==
    ASSUME TypeInv, NEW t \in Threads, NEW c, NEW v, Store(t, c, v), NEW g \in Pagers
    PROVE  /\ DOMAIN cache'[g] = DOMAIN cache[g]
           /\ \A p \in DOMAIN cache[g] : cache[g][p].dirty => cache'[g][p].dirty
<1>1. map[t] \in Pagers /\ PageOf(c) \in DOMAIN cache[map[t]]
  BY DEF Store, TypeInv
<1> DEFINE q == [bytes |-> [cache[map[t]][PageOf(c)].bytes EXCEPT ![c] = v], dirty |-> TRUE]
           old == cache[map[t]]
           f == [old EXCEPT ![PageOf(c)] = q]
<1>2. cache' = [cache EXCEPT ![map[t]] = f]
  BY DEF Store
<1>3. q.dirty
  OBVIOUS
<1> HIDE DEF q
<1>4. DOMAIN f = DOMAIN old /\ f[PageOf(c)] = q /\ \A p \in DOMAIN old : p # PageOf(c) => f[p] = old[p]
  BY <1>1
<1> HIDE DEF f
<1>5. cache'[map[t]] = f /\ (g # map[t] => cache'[g] = cache[g])
  BY <1>1, <1>2 DEF TypeInv
<1>6. QED
  BY <1>1, <1>3, <1>4, <1>5

\* A thread's write-back is left alone by the steps of the others.
LEMMA SnapOther ==
    ASSUME HoldInv, LockInv, NEW t \in Threads, Step(t) \/ Choice(t),
           NEW u \in Threads, u # t, SnapOf(u)
    PROVE  SnapOf(u)'
<1> USE DEF HoldInv
<1>1. pc'[u] = pc[u] /\ held'[u] = held[u] /\ todo'[u] = todo[u]
  BY OtherThreads
<1>2. CASE pc[u] \notin Copying
  BY <1>1, <1>2 DEF SnapOf, Copying
<1>3. CASE pc[u] \in Copying
  <2>0. held[u] \in Pagers /\ None \notin Pagers
    BY <1>3, SizesAssumption DEF SeatInv, SeatOf, TypeInv, Copying, Holding, Syncing, Pagers
  <2>1. CASE cache' = cache /\ snap' = snap
    BY <1>1, <2>1 DEF SnapOf
  <2>2. CASE Destroy(t)
    <3>1. held[t] \in Pagers /\ pager[held[t]].life = "draining"
      BY <2>2 DEF Destroy, SeatInv, SeatOf, TypeInv, LifeInv, LifeOf, Ending, Holding, Ends
    <3>2. held[u] # held[t]
      BY <3>1, OnlyHolder
    <3>3. cache'[held[u]] = cache[held[u]] /\ snap' = snap
      BY <2>0, <2>2, <3>1, <3>2 DEF Destroy, TypeInv
    <3>4. QED
      BY <1>1, <3>3 DEF SnapOf
  <2>3. ASSUME NEW c \in Cells, NEW v \in Values, Store(t, c, v) PROVE SnapOf(u)'
    <3>1. /\ DOMAIN cache'[held[u]] = DOMAIN cache[held[u]]
          /\ \A p \in DOMAIN cache[held[u]] :
                cache[held[u]][p].dirty => cache'[held[u]][p].dirty
      BY <2>0, <2>3, StoreKeeps
    <3>2. todo'[u] \subseteq DOMAIN cache'[held'[u]]
      BY <1>1, <1>3, <3>1 DEF SnapOf, Copying
    <3>3. CASE pc[u] = "syncPage"
      BY <1>1, <3>2, <3>3 DEF SnapOf
    <3>4. CASE pc[u] \in {"syncWrite", "syncFinish"}
      <4>1. /\ snap = [page |-> snap.page, bytes |-> snap.bytes, fresh |-> snap.fresh]
            /\ snap.page \in DOMAIN cache[held[u]]
            /\ cache[held[u]][snap.page].dirty
        BY <3>4 DEF SnapOf
      <4>2. snap' = snap \/ snap' = [snap EXCEPT !.fresh = FALSE]
        BY <2>3 DEF Store
      <4>3. /\ snap'.page = snap.page
            /\ snap' = [page |-> snap'.page, bytes |-> snap'.bytes, fresh |-> snap'.fresh]
        BY <4>1, <4>2
      <4>4. QED
        BY <1>1, <3>1, <3>2, <4>1, <4>3 DEF SnapOf
    <3>5. QED
      BY <1>3, <3>3, <3>4 DEF Copying
  <2>4. QED
    BY <1>3, <2>1, <2>2, <2>3, OthersKeepPages
<1>4. QED
  BY <1>2, <1>3

\* A thread's own step keeps its write-back right.
LEMMA SnapSelf ==
    ASSUME HoldInv, NEW t \in Threads, Step(t) \/ Choice(t), SnapOf(t)
    PROVE  SnapOf(t)'
<1> USE DEF HoldInv
<1>a. ASSUME pc'[t] \notin Copying PROVE SnapOf(t)'
  BY <1>a DEF SnapOf, Copying
<1>b. pc[t] \in Copying \union {"syncLock"} => held[t] \in Pagers
  BY SizesAssumption DEF SeatInv, SeatOf, TypeInv, Copying, Holding, Syncing, Pagers
<1>c. ASSUME SyncLock(t) PROVE SnapOf(t)'
  <2>1. /\ pc'[t] = "syncPage" /\ held' = held /\ cache' = cache
        /\ todo'[t] \subseteq DOMAIN cache[held[t]]
    BY <1>c DEF SyncLock, TypeInv
  <2>2. QED
    BY <2>1 DEF SnapOf
<1>d. ASSUME CopyDirty(t) PROVE SnapOf(t)'
  <2> DEFINE p == Min(todo[t])
             page == cache[held[t]][p]
  <2>1. held' = held /\ cache' = cache /\ todo[t] \subseteq DOMAIN cache[held[t]]
    BY <1>d DEF CopyDirty, SnapOf
  <2>2. CASE todo[t] = {}
    BY <1>a, <1>d, <2>2 DEF CopyDirty, TypeInv, Copying
  <2>3. CASE todo[t] # {}
    <3>1. todo[t] \in SUBSET Nat
      BY <1>b, <1>d, <2>1, SizesAssumption DEF CopyDirty, TypeInv, Pages, Copying
    <3>2. p \in todo[t]
      BY <2>3, <3>1, MinMember
    <3>3. todo'[t] \subseteq todo[t]
      BY <1>d, <2>3 DEF CopyDirty, TypeInv
    <3>4. CASE ~page.dirty
      <4>1. pc'[t] = "syncPage"
        BY <1>d, <2>3, <3>4 DEF CopyDirty
      <4>2. QED
        BY <2>1, <3>3, <4>1 DEF SnapOf
    <3>5. CASE page.dirty
      <4>1. snap' = [page |-> p, bytes |-> page.bytes, fresh |-> TRUE]
        BY <1>d, <2>3, <3>5 DEF CopyDirty
      <4>2. snap'.page = p /\ snap' = [page |-> snap'.page, bytes |-> snap'.bytes, fresh |-> snap'.fresh]
        BY <4>1
      <4>3. QED
        BY <2>1, <3>2, <3>3, <3>5, <4>2 DEF SnapOf
    <3>6. QED
      BY <3>4, <3>5
  <2>4. QED
    BY <2>2, <2>3
<1>e. ASSUME WritePage(t) PROVE SnapOf(t)'
  <2>1. /\ pc[t] = "syncWrite" /\ pc'[t] = "syncFinish"
        /\ UNCHANGED <<held, cache, todo, snap>>
    BY <1>e DEF WritePage, TypeInv
  <2>2. QED
    BY <2>1 DEF SnapOf
<1>f. ASSUME FinishWriteback(t) PROVE SnapOf(t)'
  <2>1. pc[t] = "syncFinish" /\ pc'[t] = "syncPage" /\ UNCHANGED <<held, todo>>
    BY <1>f DEF FinishWriteback, TypeInv
  <2>2. DOMAIN cache'[held[t]] = DOMAIN cache[held[t]]
    BY <1>b, <1>f, <2>1 DEF FinishWriteback, TypeInv, Copying
  <2>3. QED
    BY <2>1, <2>2 DEF SnapOf
<1>g. SeatOf(t) /\ OpOf(t)
  BY DEF SeatInv
<1> USE DEF TypeInv, Copying
<1>1. ASSUME BeginIo(t) PROVE SnapOf(t)'
  BY <1>a, <1>g, <1>1 DEF BeginIo
<1>2. ASSUME LockIo(t) PROVE SnapOf(t)'
  BY <1>a, <1>g, <1>2 DEF LockIo
<1>3. ASSUME LockIoBare(t) PROVE SnapOf(t)'
  BY <1>a, <1>g, <1>3 DEF LockIoBare
<1>4. ASSUME HostRead(t) PROVE SnapOf(t)'
  BY <1>a, <1>g, <1>4 DEF HostRead
<1>5. ASSUME HostWrite(t) PROVE SnapOf(t)'
  BY <1>a, <1>g, <1>5 DEF HostWrite
<1>6. ASSUME HostResize(t) PROVE SnapOf(t)'
  BY <1>a, <1>g, <1>6 DEF HostResize
<1>7. ASSUME HostFails(t) PROVE SnapOf(t)'
  BY <1>a, <1>g, <1>7 DEF HostFails
<1>8. ASSUME CommitRead(t) PROVE SnapOf(t)'
  BY <1>a, <1>g, <1>8 DEF CommitRead
<1>9. ASSUME CommitWrite(t) PROVE SnapOf(t)'
  BY <1>a, <1>g, <1>9 DEF CommitWrite, Resident
<1>10. ASSUME CommitResize(t) PROVE SnapOf(t)'
  BY <1>a, <1>g, <1>10 DEF CommitResize, Resident
<1>11. ASSUME EndIo(t) PROVE SnapOf(t)'
  BY <1>a, <1>g, <1>11 DEF EndIo
<1>12. ASSUME Release(t) PROVE SnapOf(t)'
  BY <1>a, <1>g, <1>12 DEF Release
<1>13. ASSUME Drain(t) PROVE SnapOf(t)'
  BY <1>a, <1>g, <1>13 DEF Drain
<1>14. ASSUME Destroy(t) PROVE SnapOf(t)'
  BY <1>a, <1>g, <1>14 DEF Destroy, ClearSlot, NoCache
<1>15. ASSUME FailedDrain(t) PROVE SnapOf(t)'
  BY <1>a, <1>g, <1>15 DEF FailedDrain
<1>16. ASSUME NotifyFailedDrain(t) PROVE SnapOf(t)'
  BY <1>a, <1>g, <1>16 DEF NotifyFailedDrain
<1>17. ASSUME WritePageFails(t) PROVE SnapOf(t)'
  BY <1>a, <1>g, <1>17 DEF WritePageFails, SyncReturn, AfterSync
<1>18. ASSUME HostSyncRange(t) PROVE SnapOf(t)'
  BY <1>a, <1>g, <1>18 DEF HostSyncRange, SyncReturn, AfterSync
<1>19. ASSUME HostSyncRangeFails(t) PROVE SnapOf(t)'
  BY <1>a, <1>g, <1>19 DEF HostSyncRangeFails, SyncReturn, AfterSync
<1>20. ASSUME RetainForSync(t) PROVE SnapOf(t)'
  BY <1>a, <1>g, <1>20 DEF RetainForSync
<1>21. ASSUME HostSync(t) PROVE SnapOf(t)'
  BY <1>a, <1>g, <1>21 DEF HostSync
<1>22. ASSUME HostSyncFails(t) PROVE SnapOf(t)'
  BY <1>a, <1>g, <1>22 DEF HostSyncFails
<1>23. ASSUME SyncReturns(t) PROVE SnapOf(t)'
  BY <1>a, <1>g, <1>23 DEF SyncReturns
<1>24. ASSUME MapFails(t) PROVE SnapOf(t)'
  BY <1>a, <1>g, <1>24 DEF MapFails
<1>25. ASSUME CreatePager(t) PROVE SnapOf(t)'
  BY <1>a, <1>g, <1>25 DEF CreatePager
<1>26. ASSUME JoinPager(t) PROVE SnapOf(t)'
  BY <1>a, <1>g, <1>26 DEF JoinPager, DropCandidate
<1>27. ASSUME InstallPager(t) PROVE SnapOf(t)'
  BY <1>a, <1>g, <1>27 DEF InstallPager, DropCandidate
<1>28. ASSUME UpgradeWriter(t) PROVE SnapOf(t)'
  BY <1>a, <1>g, <1>28 DEF UpgradeWriter, DropCandidate
<1>29. ASSUME Unmap(t) PROVE SnapOf(t)'
  BY <1>a, <1>g, <1>29 DEF Unmap
<1>30. ASSUME RetryOrphans(t) PROVE SnapOf(t)'
  BY <1>a, <1>g, <1>30 DEF RetryOrphans
<1>31. ASSUME NEW kind \in {"read", "write", "resize", "grow"}, StartIo(t, kind) PROVE SnapOf(t)'
  BY <1>a, <1>g, <1>31 DEF StartIo
<1>32. ASSUME NEW kind \in {"fsync", "fdatasync"}, StartSync(t, kind) PROVE SnapOf(t)'
  BY <1>a, <1>g, <1>32 DEF StartSync
<1>33. ASSUME NEW w \in BOOLEAN, StartMap(t, w) PROVE SnapOf(t)'
  BY <1>a, <1>g, <1>33 DEF StartMap
<1>34. ASSUME NEW p \in Pages, GetPage(t, p) PROVE SnapOf(t)'
  BY <1>a, <1>g, <1>34 DEF GetPage
<1>35. ASSUME NEW p \in Pages, Msync(t, p) PROVE SnapOf(t)'
  BY <1>a, <1>g, <1>35 DEF Msync
<1>36. ASSUME NEW c \in Cells, NEW v \in Values, Store(t, c, v) PROVE SnapOf(t)'
  BY <1>a, <1>g, <1>36 DEF Store
<1>37. QED
  BY <1>c, <1>d, <1>e, <1>f, <1>1, <1>2, <1>3, <1>4, <1>5, <1>6, <1>7, <1>8, <1>9, <1>10, <1>11,
     <1>12, <1>13, <1>14, <1>15, <1>16, <1>17, <1>18, <1>19, <1>20, <1>21,
     <1>22, <1>23, <1>24, <1>25, <1>26, <1>27, <1>28, <1>29, <1>30, <1>31,
     <1>32, <1>33, <1>34, <1>35, <1>36 DEF Step, Choice

\* Every step keeps the write-backs right.
LEMMA SnapStep ==
    ASSUME HoldInv, LockInv, SnapInv, [Next]_vars
    PROVE  SnapInv'
<1>1. ASSUME NEW t \in Threads, Step(t) \/ Choice(t) PROVE SnapInv'
  BY <1>1, SnapOther, SnapSelf DEF SnapInv
<1>2. ASSUME UNCHANGED <<cache, pc, held, todo, snap>> PROVE SnapInv'
  BY <1>2 DEF SnapInv, SnapOf
<1>3. QED
  BY <1>1, <1>2 DEF Next, Quiet, vars, BeginHostMap, EndHostMap, HostStore

----------------------------------------------------------------------------
(* What was written back and is not yet durable *)

\* Pagers in use that owe a host sync still do.
StaysUndurable ==
    \A g \in Pagers : pager[g].life # "none" /\ pager[g].undurable => pager'[g].undurable

\* A step that neither writes back, nor syncs, nor ends or installs a pager.
Keeps(t) ==
    /\ unsynced' \subseteq unsynced /\ slot' = slot /\ StaysUndurable /\ pc[t] # "syncFinish"
    /\ pc'[t] = "dead" => pc[t] = "drain" /\ ~RequiresDrain(held[t]) /\ held' = held

\* Updates of a pager that keep what it owes.
LEMMA UndurableUpdates ==
    ASSUME TypeInv, NEW g \in Pagers,
           \/ pager' = Retained(g)
           \/ pager[g].refs > 1 /\ pager' = [pager EXCEPT ![g].refs = @ - 1]
           \/ pager' = [pager EXCEPT ![g].refs = 0, ![g].life = "draining"]
           \/ pager' = [pager EXCEPT ![g].life = "live", ![g].refs = 2, ![g].orphan = TRUE]
           \/ pager' = [pager EXCEPT ![g].orphan = FALSE]
           \/ pager' = [pager EXCEPT ![g].writer = TRUE]
    PROVE  StaysUndurable
<1>1. \E l, n, a, w : Becomes(g, l, n, a, w, pager[g].undurable)
  BY PagerUpdates
<1>2. QED
  BY <1>1 DEF Becomes, Fields, StaysUndurable

\* Every step of a thread is one of these.
LEMMA FlushKinds ==
    ASSUME HoldInv, NEW t \in Threads, Step(t) \/ Choice(t)
    PROVE  \/ unsynced' = {} \/ WritePage(t) \/ FinishWriteback(t) \/ Destroy(t)
           \/ InstallPager(t) \/ Keeps(t)
<1> USE DEF HoldInv
<1> DEFINE Goal == unsynced' = {} \/ Keeps(t)
<1>a. None \notin Pagers /\ pc \in [Threads -> Labels]
      /\ after[t] \in {"idle", "synced", "hostSync"}
      /\ (slot # None => slot \in Pagers)
      /\ (held[t] # None => held[t] \in Pagers) /\ (map[t] # None => map[t] \in Pagers)
  BY SizesAssumption DEF TypeInv, Pagers
<1>b. SeatOf(t) /\ OpOf(t)
  BY DEF SeatInv
<1>c. pager' = pager => StaysUndurable
  BY DEF StaysUndurable
<1>d. held[t] # None => (Ending(t) <=> pager[held[t]].life = "draining")
  BY DEF LifeInv, LifeOf
<1>e. ASSUME NEW g \in Pagers,
             \/ pager' = Retained(g)
             \/ pager[g].refs > 1 /\ pager' = [pager EXCEPT ![g].refs = @ - 1]
             \/ pager' = [pager EXCEPT ![g].refs = 0, ![g].life = "draining"]
             \/ pager' = [pager EXCEPT ![g].life = "live", ![g].refs = 2, ![g].orphan = TRUE]
             \/ pager' = [pager EXCEPT ![g].orphan = FALSE]
             \/ pager' = [pager EXCEPT ![g].writer = TRUE]
      PROVE  StaysUndurable
  BY <1>e, UndurableUpdates
<1>f. ASSUME CreatePager(t) PROVE StaysUndurable
  <2> DEFINE S == {h \in Pagers : pager[h].life = "none"}
             g == Min(S)
             r == [NoPager EXCEPT !.life = "live", !.refs = 1, !.writer = op[t].writer]
  <2>1. g \in S
    BY <1>f, FreshPager
  <2>2. pager' = [pager EXCEPT ![g] = r]
    BY <1>f DEF CreatePager
  <2> HIDE DEF r, g
  <2>3. QED
    BY <2>1, <2>2 DEF StaysUndurable, TypeInv
<1> USE DEF Keeps, Labels, Holding, Free, Locked, Syncing, Ends, Mapping, SeatOf
<1>1. ASSUME BeginIo(t) PROVE Goal
  BY <1>a, <1>b, <1>c, <1>e, <1>f, <1>1 DEF BeginIo
<1>2. ASSUME LockIo(t) PROVE Goal
  BY <1>a, <1>b, <1>c, <1>e, <1>f, <1>2 DEF LockIo
<1>3. ASSUME LockIoBare(t) PROVE Goal
  BY <1>a, <1>b, <1>c, <1>e, <1>f, <1>3 DEF LockIoBare
<1>4. ASSUME HostRead(t) PROVE Goal
  BY <1>a, <1>b, <1>c, <1>e, <1>f, <1>4 DEF HostRead
<1>5. ASSUME HostWrite(t) PROVE Goal
  BY <1>a, <1>b, <1>c, <1>e, <1>f, <1>5 DEF HostWrite
<1>6. ASSUME HostResize(t) PROVE Goal
  BY <1>a, <1>b, <1>c, <1>e, <1>f, <1>6 DEF HostResize
<1>7. ASSUME HostFails(t) PROVE Goal
  BY <1>a, <1>b, <1>c, <1>e, <1>f, <1>7 DEF HostFails
<1>8. ASSUME CommitRead(t) PROVE Goal
  BY <1>a, <1>b, <1>c, <1>e, <1>f, <1>8 DEF CommitRead
<1>9. ASSUME CommitWrite(t) PROVE Goal
  BY <1>a, <1>b, <1>c, <1>e, <1>f, <1>9 DEF CommitWrite, Resident
<1>10. ASSUME CommitResize(t) PROVE Goal
  BY <1>a, <1>b, <1>c, <1>e, <1>f, <1>10 DEF CommitResize, Resident
<1>11. ASSUME EndIo(t) PROVE Goal
  BY <1>a, <1>b, <1>c, <1>e, <1>f, <1>11 DEF EndIo
<1>12. ASSUME Release(t) PROVE Goal
  BY <1>a, <1>b, <1>c, <1>e, <1>f, <1>12 DEF Release
<1>13. ASSUME Drain(t) PROVE Goal
  BY <1>a, <1>b, <1>c, <1>e, <1>f, <1>13 DEF Drain
<1>14. ASSUME FailedDrain(t) PROVE Goal
  BY <1>a, <1>b, <1>c, <1>e, <1>f, <1>14 DEF FailedDrain
<1>15. ASSUME NotifyFailedDrain(t) PROVE Goal
  BY <1>a, <1>b, <1>c, <1>e, <1>f, <1>15 DEF NotifyFailedDrain
<1>16. ASSUME SyncLock(t) PROVE Goal
  BY <1>a, <1>b, <1>c, <1>e, <1>f, <1>16 DEF SyncLock
<1>17. ASSUME CopyDirty(t) PROVE Goal
  BY <1>a, <1>b, <1>c, <1>e, <1>f, <1>17 DEF CopyDirty
<1>18. ASSUME WritePageFails(t) PROVE Goal
  BY <1>a, <1>b, <1>c, <1>e, <1>f, <1>18 DEF WritePageFails, SyncReturn, AfterSync
<1>19. ASSUME HostSyncRangeFails(t) PROVE Goal
  BY <1>a, <1>b, <1>c, <1>e, <1>f, <1>19 DEF HostSyncRangeFails, SyncReturn, AfterSync
<1>20. ASSUME RetainForSync(t) PROVE Goal
  BY <1>a, <1>b, <1>c, <1>e, <1>f, <1>20 DEF RetainForSync
<1>21. ASSUME HostSyncFails(t) PROVE Goal
  BY <1>a, <1>b, <1>c, <1>e, <1>f, <1>21 DEF HostSyncFails
<1>22. ASSUME SyncReturns(t) PROVE Goal
  BY <1>a, <1>b, <1>c, <1>e, <1>f, <1>22 DEF SyncReturns
<1>23. ASSUME MapFails(t) PROVE Goal
  BY <1>a, <1>b, <1>c, <1>e, <1>f, <1>23 DEF MapFails
<1>24. ASSUME CreatePager(t) PROVE Goal
  BY <1>a, <1>b, <1>c, <1>e, <1>f, <1>24 DEF CreatePager
<1>25. ASSUME JoinPager(t) PROVE Goal
  BY <1>a, <1>b, <1>c, <1>e, <1>f, <1>25 DEF JoinPager, DropCandidate
<1>26. ASSUME UpgradeWriter(t) PROVE Goal
  BY <1>a, <1>b, <1>c, <1>e, <1>f, <1>26 DEF UpgradeWriter, DropCandidate
<1>27. ASSUME Unmap(t) PROVE Goal
  BY <1>a, <1>b, <1>c, <1>e, <1>f, <1>27 DEF Unmap
<1>28. ASSUME RetryOrphans(t) PROVE Goal
  BY <1>a, <1>b, <1>c, <1>e, <1>f, <1>28 DEF RetryOrphans
<1>29. ASSUME NEW kind \in {"read", "write", "resize", "grow"}, StartIo(t, kind) PROVE Goal
  BY <1>a, <1>b, <1>c, <1>e, <1>f, <1>29 DEF StartIo
<1>30. ASSUME NEW kind \in {"fsync", "fdatasync"}, StartSync(t, kind) PROVE Goal
  BY <1>a, <1>b, <1>c, <1>e, <1>f, <1>30 DEF StartSync
<1>31. ASSUME NEW w \in BOOLEAN, StartMap(t, w) PROVE Goal
  BY <1>a, <1>b, <1>c, <1>e, <1>f, <1>31 DEF StartMap
<1>32. ASSUME NEW p \in Pages, GetPage(t, p) PROVE Goal
  BY <1>a, <1>b, <1>c, <1>e, <1>f, <1>32 DEF GetPage
<1>33. ASSUME NEW p \in Pages, Msync(t, p) PROVE Goal
  BY <1>a, <1>b, <1>c, <1>e, <1>f, <1>33 DEF Msync
<1>34. ASSUME NEW c \in Cells, NEW v \in Values, Store(t, c, v) PROVE Goal
  BY <1>a, <1>b, <1>c, <1>e, <1>f, <1>34 DEF Store
<1>35. ASSUME HostSyncRange(t) \/ HostSync(t) PROVE Goal
  BY <1>35 DEF HostSyncRange, HostSync, HostSynced
<1>36. QED
  BY <1>35, <1>1, <1>2, <1>3, <1>4, <1>5, <1>6, <1>7, <1>8, <1>9, <1>10, <1>11,
     <1>12, <1>13, <1>14, <1>15, <1>16, <1>17, <1>18, <1>19, <1>20, <1>21,
     <1>22, <1>23, <1>24, <1>25, <1>26, <1>27, <1>28, <1>29, <1>30, <1>31,
     <1>32, <1>33, <1>34 DEF Step, Choice

\* Two threads that end a pager end different ones.
LEMMA OneEnder ==
    ASSUME HoldInv, NEW t \in Threads, NEW u \in Threads, held[t] # None, held[u] = held[t],
           Ending(t)
    PROVE  u = t
<1>1. held[t] \in Pagers /\ pager[held[t]].life = "draining"
  BY DEF HoldInv, TypeInv, LifeInv, LifeOf
<1>2. QED
  BY <1>1, OnlyHolder DEF HoldInv

\* The first part of UnsyncedInv.
Owes(g) == pager[g].undurable \/ \E t \in Threads : pc[t] = "syncFinish" /\ held[t] = g

\* Every step keeps the pager that owes a host sync.
LEMMA UnsyncedThread ==
    ASSUME HoldInv, SnapInv, UnsyncedInv, NEW t \in Threads, Step(t) \/ Choice(t)
    PROVE  UnsyncedInv'
<1> USE DEF HoldInv
<1>0. /\ None \notin Pagers
      /\ \A u \in Threads : u # t => pc'[u] = pc[u] /\ held'[u] = held[u]
      /\ \A u \in Threads : pc[u] \in Labels /\ held[u] \in Pagers \union {None}
      /\ slot \in Pagers \union {None}
  BY OtherThreads, SizesAssumption DEF TypeInv, Pagers
<1>1. /\ unsynced # {} => slot # None /\ Owes(slot)
      /\ \A u \in Threads : pc[u] = "dead" /\ held[u] = slot => unsynced = {}
  BY DEF UnsyncedInv, Owes
<1>2. ASSUME unsynced' # {} => slot' # None /\ Owes(slot)',
             \A u \in Threads : pc'[u] = "dead" /\ held'[u] = slot' => unsynced' = {}
      PROVE  UnsyncedInv'
  BY <1>2 DEF UnsyncedInv, Owes
<1>3. CASE unsynced' = {}
  BY <1>2, <1>3
<1>4. ASSUME WritePage(t) PROVE UnsyncedInv'
  <2>1. /\ pc[t] = "syncWrite" /\ pc'[t] = "syncFinish" /\ held' = held /\ slot' = slot
    BY <1>4 DEF WritePage, TypeInv
  <2>2. held[t] \in Pagers
    BY <1>0, <2>1 DEF SeatInv, SeatOf, Holding, Syncing
  <2>3. held[t] = slot
    <3>1. snap.page \in DOMAIN cache[held[t]]
      BY <2>1 DEF SnapInv, SnapOf
    <3>2. QED
      BY <2>2, <3>1 DEF OneCache
  <2>4. slot' # None /\ Owes(slot)'
    BY <1>0, <2>1, <2>2, <2>3 DEF Owes
  <2>5. ASSUME NEW u \in Threads, pc'[u] = "dead", held'[u] = slot' PROVE FALSE
    <3>1. u # t /\ pc[u] = "dead" /\ held[u] = held[t]
      BY <1>0, <2>1, <2>3, <2>5
    <3>2. QED
      BY <1>0, <2>2, <3>1, OneEnder DEF Ending, Ends
  <2>6. QED
    BY <1>2, <2>4, <2>5
<1>5. ASSUME FinishWriteback(t) PROVE UnsyncedInv'
  <2>1. /\ pc[t] = "syncFinish" /\ pc'[t] = "syncPage" /\ held' = held /\ slot' = slot
        /\ unsynced' = unsynced
        /\ pager' = [pager EXCEPT ![held[t]].undurable = TRUE]
    BY <1>5 DEF FinishWriteback, TypeInv
  <2>2. held[t] \in Pagers
    BY <1>0, <2>1 DEF SeatInv, SeatOf, Holding, Syncing
  <2>3. Becomes(held[t], pager[held[t]].life, pager[held[t]].refs, pager[held[t]].orphan,
                pager[held[t]].writer, TRUE)
    BY <2>1, <2>2, PagerUpdates
  <2>4. pager'[held[t]].undurable /\ \A g \in Pagers : g # held[t] => pager'[g] = pager[g]
    BY <2>3 DEF Becomes, Fields
  <2>5. unsynced' # {} => slot' # None /\ Owes(slot)'
    <3> HAVE unsynced' # {}
    <3>1. slot \in Pagers /\ Owes(slot)
      BY <1>0, <1>1, <2>1
    <3>2. CASE held[t] = slot
      BY <2>1, <2>4, <3>1, <3>2, <1>0 DEF Owes
    <3>3. CASE held[t] # slot
      BY <1>0, <2>1, <2>4, <3>1, <3>3 DEF Owes
    <3>4. QED
      BY <3>2, <3>3
  <2>6. \A u \in Threads : pc'[u] = "dead" /\ held'[u] = slot' => unsynced' = {}
    BY <1>0, <1>1, <2>1
  <2>7. QED
    BY <1>2, <2>5, <2>6
<1>6. ASSUME Destroy(t) PROVE UnsyncedInv'
  <2>1. /\ pc[t] = "dead" /\ pc'[t] # "dead" /\ unsynced' = unsynced
        /\ held[t] # slot => slot' = slot
    BY <1>6 DEF Destroy, ClearSlot, TypeInv
  <2>2. held[t] \in Pagers
    BY <1>0, <2>1 DEF SeatInv, SeatOf, Holding, Ends
  <2>3. \A g \in Pagers : g # held[t] => pager'[g] = pager[g]
    BY <1>6, <2>2 DEF Destroy, TypeInv
  <2>4. CASE unsynced = {}
    BY <1>3, <2>1, <2>4
  <2>5. CASE unsynced # {}
    <3>1. held[t] # slot /\ slot \in Pagers /\ Owes(slot)
      BY <1>0, <1>1, <2>1, <2>5
    <3>2. slot' = slot /\ slot' # None /\ pager'[slot] = pager[slot]
      BY <1>0, <2>1, <2>3, <3>1
    <3>3. Owes(slot)'
      BY <1>0, <2>1, <3>1, <3>2 DEF Owes
    <3>4. \A u \in Threads : pc'[u] = "dead" /\ held'[u] = slot' => unsynced' = {}
      BY <1>0, <1>1, <2>1, <3>2
    <3>5. QED
      BY <1>2, <3>2, <3>3, <3>4
  <2>6. QED
    BY <2>4, <2>5
<1>7. ASSUME InstallPager(t) PROVE UnsyncedInv'
  <2>1. slot = None /\ unsynced' = unsynced
    BY <1>7 DEF InstallPager
  <2>2. QED
    BY <1>1, <1>3, <2>1
<1>8. ASSUME Keeps(t), unsynced' # {} PROVE UnsyncedInv'
  <2>1. unsynced # {} /\ slot \in Pagers /\ slot' = slot /\ Owes(slot)
    BY <1>0, <1>1, <1>8 DEF Keeps
  <2>2. pager[slot].life # "none"
    BY <2>1 DEF RefsInv, RefsOf
  <2>3. Owes(slot)'
    <3>1. CASE pager[slot].undurable
      BY <1>8, <2>1, <2>2, <3>1 DEF Keeps, StaysUndurable, Owes
    <3>2. CASE \E w \in Threads : pc[w] = "syncFinish" /\ held[w] = slot
      BY <1>0, <1>8, <2>1, <3>2 DEF Keeps, Owes
    <3>3. QED
      BY <2>1, <3>1, <3>2 DEF Owes
  <2>4. ASSUME NEW u \in Threads, pc'[u] = "dead", held'[u] = slot' PROVE FALSE
    <3>1. CASE u # t
      BY <1>0, <1>1, <2>1, <2>4, <3>1
    <3>2. CASE u = t
      <4>1. pc[t] = "drain" /\ ~RequiresDrain(held[t]) /\ held[t] = slot
        BY <1>8, <2>1, <2>4, <3>2 DEF Keeps
      <4>2. ~pager[slot].undurable
        BY <4>1 DEF RequiresDrain
      <4>3. PICK w \in Threads : pc[w] = "syncFinish" /\ held[w] = slot
        BY <2>1, <4>2 DEF Owes
      <4>4. w = t
        BY <1>0, <2>1, <4>1, <4>3, OneEnder DEF Ending, Ends
      <4>5. QED
        BY <4>1, <4>3, <4>4
    <3>3. QED
      BY <3>1, <3>2
  <2>5. QED
    BY <1>0, <1>2, <2>1, <2>3, <2>4
<1>9. QED
  BY <1>3, <1>4, <1>5, <1>6, <1>7, <1>8, FlushKinds

\* The same for every step.
LEMMA UnsyncedStep ==
    ASSUME HoldInv, SnapInv, UnsyncedInv, [Next]_vars
    PROVE  UnsyncedInv'
<1>1. ASSUME NEW t \in Threads, Step(t) \/ Choice(t) PROVE UnsyncedInv'
  BY <1>1, UnsyncedThread
<1>2. ASSUME UNCHANGED <<slot, pager, pc, held, unsynced>> PROVE UnsyncedInv'
  BY <1>2 DEF UnsyncedInv
<1>3. QED
  BY <1>1, <1>2 DEF Next, Quiet, vars, BeginHostMap, EndHostMap, HostStore

----------------------------------------------------------------------------
(* The theorems *)

\* The inductive invariant.
THEOREM PagerInvariant == Spec => []PagerInv
<1>1. Init => PagerInv
  <2> SUFFICES ASSUME Init PROVE PagerInv
    OBVIOUS
  <2>1. HoldInv
    BY HoldInit
  <2>2. SleeperHasWaker /\ UnsyncedInv
    BY DEF Init, SleeperHasWaker, UnsyncedInv
  <2>3. LockInv /\ SnapInv
    BY SizesAssumption DEF Init, LockInv, LockOf, SnapInv, SnapOf, Locked, Syncing
  <2>4. QED
    BY <2>1, <2>2, <2>3 DEF PagerInv
<1>2. PagerInv /\ [Next]_vars => PagerInv'
  <2> SUFFICES ASSUME PagerInv, [Next]_vars PROVE PagerInv'
    OBVIOUS
  <2>1. HoldInv'
    BY HoldStep DEF PagerInv
  <2>2. SleeperHasWaker'
    BY <2>1, SleepStep DEF PagerInv
  <2>3. LockInv' /\ SnapInv' /\ UnsyncedInv'
    BY LockStep, SnapStep, UnsyncedStep DEF PagerInv
  <2>4. QED
    BY <2>1, <2>2, <2>3 DEF PagerInv
<1>3. QED
  BY <1>1, <1>2, PTL DEF Spec

\* For every number of threads: whoever waits for file_pager_changed has another thread,
\* awake, that still works on the pager in the slot and will notify.
THEOREM SleeperHasWakerHolds == Spec => []SleeperHasWaker
<1>1. PagerInv => SleeperHasWaker
  BY DEF PagerInv
<1>2. QED
  BY <1>1, PagerInvariant, PTL

\* For every number of threads, pages and failures: a pager that has written pages back
\* since the last host sync stays in the slot and does not end without another sync.
THEOREM UndurableKeptHolds == Spec => []UndurableKept
<1>1. PagerInv => UndurableKept
  <2> SUFFICES ASSUME PagerInv, unsynced # {} PROVE slot # None /\ RequiresDrain(slot)
    BY DEF UndurableKept
  <2>1. slot # None /\ (pager[slot].undurable
                        \/ \E t \in Threads : pc[t] = "syncFinish" /\ held[t] = slot)
    BY DEF PagerInv, UnsyncedInv
  <2>2. CASE pager[slot].undurable
    BY <2>1, <2>2 DEF RequiresDrain
  <2>3. ASSUME NEW t \in Threads, pc[t] = "syncFinish", held[t] = slot PROVE RequiresDrain(slot)
    <3>1. snap.page \in DOMAIN cache[slot] /\ cache[slot][snap.page].dirty
      BY <2>3 DEF PagerInv, SnapInv, SnapOf
    <3>2. QED
      BY <3>1 DEF RequiresDrain
  <2>4. QED
    BY <2>1, <2>2, <2>3
<1>2. QED
  BY <1>1, PagerInvariant, PTL

----------------------------------------------------------------------------
(* What pages, copies and host file contain                                *)

FileCells == NumPages * PageSize
PageRecs(p) == [bytes : [CellsOf(p) -> Values], dirty : BOOLEAN]

\* The pages of the cache in use.
InCore == DOMAIN CurrentPages

\* The thread has changed the host file and its resident pages are to follow.
Working(t) == pc[t] = "commit" /\ op[t].kind # "read"

\* A cell whose new value is in the host file and not yet in its resident page.
Pending(c) == \E t \in Threads : c \in PendingOf(t)

\* The types of contents.
DataType ==
    /\ disk \in [Cells -> Values]
    /\ size \in 0 .. FileCells
    /\ \A p \in InCore : CurrentPages[p] \in PageRecs(p)

\* The copy of a write-back; as long as the page is as it was copied, copy and page are
\* the same, and when it has been written so is the host file.
CopyOf(t) ==
    pc[t] \in {"syncWrite", "syncFinish"} =>
       /\ snap.bytes \in [CellsOf(snap.page) -> Values] /\ snap.fresh \in BOOLEAN
       /\ pc[t] = "syncWrite" /\ snap.fresh => CurrentPages[snap.page].bytes = snap.bytes
       /\ pc[t] = "syncFinish" /\ snap.fresh =>
             \A c \in CellsOf(snap.page) : c < size => CurrentPages[snap.page].bytes[c] = disk[c]

\* A write under way.
WriteOf(t) ==
    Working(t) /\ op[t].kind = "write" =>
       /\ op[t].first \in Cells /\ op[t].last \in Cells /\ op[t].value \in Values
       /\ op[t].old \in 0 .. FileCells
       /\ \A c \in op[t].first .. op[t].last : PageOf(c) \in InCore => disk[c] = op[t].value
       /\ \A c \in Cells : c < size <=> c < op[t].old \/ c \in op[t].first .. op[t].last
       /\ todo[t] \subseteq Pages

\* A change of the size under way.
ResizeOf(t) ==
    Working(t) /\ op[t].kind # "write" =>
       /\ op[t].kind = "resize" /\ op[t].old \in 0 .. FileCells /\ op[t].new = size
       /\ \A c \in Cells : c >= op[t].old /\ PageOf(c) \in InCore => disk[c] = Zero
       /\ \A p \in InCore : p * PageSize < op[t].old

\* Which pager an operation works on: the one in the slot, or none and then nothing is
\* resident while it has file_io_lock.
HolderOf(t) ==
    /\ pc[t] \in {"lock", "host", "commit", "end"} => held[t] \in {slot, None}
    /\ pc[t] \in {"host", "commit"} /\ held[t] = None => InCore = {}
    /\ pc[t] \in Syncing \union {"syncLock"} /\ op[t].by # "drain" => held[t] = slot

\* The host file is zero past its end, and pages past the end are not resident but for a
\* truncation under way.
TailInv ==
    /\ \A c \in Cells : c >= size => disk[c] = Zero
    /\ \A p \in InCore : p * PageSize < size \/ \E t \in Threads : Working(t) /\ op[t].kind # "write"

\* A clean page is what the host file holds.
CleanInv ==
    \A c \in Cells :
       c < size /\ PageOf(c) \in InCore /\ ~Pending(c) /\ ~CurrentPages[PageOf(c)].dirty
          => CurrentPages[PageOf(c)].bytes[c] = disk[c]

HolderInv == \A t \in Threads : HolderOf(t)
WorkInv == \A t \in Threads : WriteOf(t) /\ ResizeOf(t)
CopyInv == \A t \in Threads : CopyOf(t)
DataInv == DataType /\ HolderInv /\ WorkInv /\ CopyInv /\ TailInv /\ CleanInv

----------------------------------------------------------------------------
(* Cells and pages *)

\* The page of a cell.
LEMMA CellPage ==
    ASSUME NEW c \in Cells
    PROVE  /\ PageOf(c) \in Pages
           /\ PageOf(c) * PageSize <= c /\ c < PageOf(c) * PageSize + PageSize
           /\ c \in CellsOf(PageOf(c))
<1>1. PageSize \in Nat \ {0} /\ NumPages \in Nat \ {0}
  BY SizesAssumption
<1>2. c \in Nat /\ c < NumPages * PageSize
  BY <1>1 DEF Cells
<1>3. PageOf(c) \in Nat /\ PageOf(c) * PageSize <= c /\ c < PageOf(c) * PageSize + PageSize
  BY <1>1, <1>2 DEF PageOf
<1>4. PageOf(c) < NumPages
  BY <1>1, <1>2, <1>3
<1>5. QED
  BY <1>1, <1>3, <1>4 DEF Pages, CellsOf

\* A page that begins before the end of the file has the end in it, if it has a cell at or
\* past the end.
LEMMA TailPage ==
    ASSUME NEW c \in Cells, NEW n \in Nat, PageOf(c) * PageSize < n, c >= n
    PROVE  PageOf(n) = PageOf(c) /\ n % PageSize # 0
<1>1. PageSize \in Nat \ {0}
  BY SizesAssumption
<1> DEFINE p == PageOf(c)
<1>2. p \in Nat /\ p * PageSize <= n /\ n < p * PageSize + PageSize /\ p * PageSize # n
  BY CellPage, <1>1 DEF Cells, Pages
<1> HIDE DEF p
<1>3. n \div PageSize = p /\ n % PageSize # 0
  BY <1>1, <1>2
<1>4. QED
  BY <1>3 DEF PageOf, p

\* The cache in use is that of the slot; the others are empty.
LEMMA CurrentIs ==
    ASSUME TypeInv, OneCache
    PROVE  /\ slot # None => slot \in Pagers /\ CurrentPages = cache[slot]
           /\ slot = None => InCore = {}
           /\ \A g \in Pagers : g # slot => DOMAIN cache[g] = {}
           /\ InCore \subseteq Pages
BY DEF TypeInv, OneCache, CurrentPages, NoCache, InCore

----------------------------------------------------------------------------
(* The steps that change contents *)

\* A step that leaves file, cache and copy alone, and at most forgives what an fsync owes.
Steady(t) ==
    /\ UNCHANGED <<disk, size, slot, cache, snap>>
    /\ ~Working(t) /\ ~Working(t)' /\ pc'[t] \notin {"syncWrite", "syncFinish"}
    /\ DOMAIN owed' = Threads /\ \A u \in Threads : owed'[u] \subseteq owed[u]

\* The other steps of a thread.
Changes(t) ==
    \/ HostWrite(t)
    \/ HostResize(t) /\ pc'[t] = "commit"
    \/ CommitWrite(t)
    \/ CommitResize(t)
    \/ Destroy(t)
    \/ CopyDirty(t)
    \/ WritePage(t)
    \/ WritePageFails(t)
    \/ FinishWriteback(t)
    \/ InstallPager(t)
    \/ \E kind \in {"fsync", "fdatasync"} : StartSync(t, kind)
    \/ \E p \in Pages : GetPage(t, p)
    \/ \E c \in Cells, v \in Values : Store(t, c, v)

\* Every step of a thread is one of these.
LEMMA DataKinds ==
    ASSUME TypeInv, DOMAIN owed = Threads, NEW t \in Threads, Step(t) \/ Choice(t)
    PROVE  Steady(t) \/ Changes(t)
<1>a. /\ DOMAIN op = Threads /\ DOMAIN pc = Threads
      /\ after[t] \in {"idle", "synced", "hostSync"}
  BY DEF TypeInv
<1> USE DEF Steady, Working
<1>1. ASSUME BeginIo(t) PROVE Steady(t)
  BY <1>a, <1>1 DEF BeginIo
<1>2. ASSUME LockIo(t) PROVE Steady(t)
  BY <1>a, <1>2 DEF LockIo
<1>3. ASSUME LockIoBare(t) PROVE Steady(t)
  BY <1>a, <1>3 DEF LockIoBare
<1>4. ASSUME HostRead(t) PROVE Steady(t)
  BY <1>a, <1>4 DEF HostRead
<1>5. ASSUME HostFails(t) PROVE Steady(t)
  BY <1>a, <1>5 DEF HostFails
<1>6. ASSUME CommitRead(t) PROVE Steady(t)
  BY <1>a, <1>6 DEF CommitRead
<1>7. ASSUME EndIo(t) PROVE Steady(t)
  BY <1>a, <1>7 DEF EndIo
<1>8. ASSUME Release(t) PROVE Steady(t)
  BY <1>a, <1>8 DEF Release
<1>9. ASSUME Drain(t) PROVE Steady(t)
  BY <1>a, <1>9 DEF Drain
<1>10. ASSUME FailedDrain(t) PROVE Steady(t)
  BY <1>a, <1>10 DEF FailedDrain
<1>11. ASSUME NotifyFailedDrain(t) PROVE Steady(t)
  BY <1>a, <1>11 DEF NotifyFailedDrain
<1>12. ASSUME SyncLock(t) PROVE Steady(t)
  BY <1>a, <1>12 DEF SyncLock
<1>13. ASSUME HostSyncRange(t) PROVE Steady(t)
  BY <1>a, <1>13 DEF HostSyncRange, SyncReturn, AfterSync, HostSynced
<1>14. ASSUME HostSyncRangeFails(t) PROVE Steady(t)
  BY <1>a, <1>14 DEF HostSyncRangeFails, SyncReturn, AfterSync
<1>15. ASSUME RetainForSync(t) PROVE Steady(t)
  BY <1>a, <1>15 DEF RetainForSync
<1>16. ASSUME HostSync(t) PROVE Steady(t)
  BY <1>a, <1>16 DEF HostSync, HostSynced
<1>17. ASSUME HostSyncFails(t) PROVE Steady(t)
  BY <1>a, <1>17 DEF HostSyncFails
<1>18. ASSUME SyncReturns(t) PROVE Steady(t)
  BY <1>a, <1>18 DEF SyncReturns
<1>19. ASSUME MapFails(t) PROVE Steady(t)
  BY <1>a, <1>19 DEF MapFails
<1>20. ASSUME CreatePager(t) PROVE Steady(t)
  BY <1>a, <1>20 DEF CreatePager
<1>21. ASSUME JoinPager(t) PROVE Steady(t)
  BY <1>a, <1>21 DEF JoinPager, DropCandidate
<1>22. ASSUME UpgradeWriter(t) PROVE Steady(t)
  BY <1>a, <1>22 DEF UpgradeWriter, DropCandidate
<1>23. ASSUME Unmap(t) PROVE Steady(t)
  BY <1>a, <1>23 DEF Unmap
<1>24. ASSUME RetryOrphans(t) PROVE Steady(t)
  BY <1>a, <1>24 DEF RetryOrphans
<1>25. ASSUME NEW kind \in {"read", "write", "resize", "grow"}, StartIo(t, kind) PROVE Steady(t)
  BY <1>a, <1>25 DEF StartIo
<1>26. ASSUME NEW w \in BOOLEAN, StartMap(t, w) PROVE Steady(t)
  BY <1>a, <1>26 DEF StartMap
<1>27. ASSUME NEW p \in Pages, Msync(t, p) PROVE Steady(t)
  BY <1>a, <1>27 DEF Msync
<1>28. ASSUME HostResize(t), pc'[t] # "commit" PROVE Steady(t)
  BY <1>a, <1>28 DEF HostResize
<1>29. QED
  BY <1>1, <1>2, <1>3, <1>4, <1>5, <1>6, <1>7, <1>8, <1>9, <1>10, <1>11,
     <1>12, <1>13, <1>14, <1>15, <1>16, <1>17, <1>18, <1>19, <1>20, <1>21,
     <1>22, <1>23, <1>24, <1>25, <1>26, <1>27, <1>28
     DEF Step, Choice, Changes

\* While a thread has file_io_lock the others change nothing but by a store and by the end
\* or the installation of a pager.
LEMMA OthersSteady ==
    ASSUME TypeInv, LockInv, DOMAIN owed = Threads, NEW t \in Threads, Step(t) \/ Choice(t),
           NEW u \in Threads, u # t, pc[u] \in Locked
    PROVE  \/ Steady(t) \/ Destroy(t) \/ InstallPager(t)
           \/ \E kind \in {"fsync", "fdatasync"} : StartSync(t, kind)
           \/ \E c \in Cells, v \in Values : Store(t, c, v)
<1>1. ioLock # None /\ pc[t] \notin Locked
  <2>1. ioLock = u
    BY DEF LockInv, LockOf
  <2>2. QED
    BY <2>1, SizesAssumption DEF LockInv, LockOf
<1>2. ~HostWrite(t) /\ ~HostResize(t) /\ ~CommitWrite(t) /\ ~CommitResize(t)
  BY <1>1 DEF HostWrite, HostResize, CommitWrite, CommitResize, Locked
<1>3. ~CopyDirty(t) /\ ~WritePage(t) /\ ~WritePageFails(t) /\ ~FinishWriteback(t)
  BY <1>1 DEF CopyDirty, WritePage, WritePageFails, FinishWriteback, Locked, Syncing
<1>4. ~\E p \in Pages : GetPage(t, p)
  BY <1>1 DEF GetPage
<1>5. QED
  BY <1>2, <1>3, <1>4, DataKinds DEF Changes

\* How the slot moves.
LEMMA SlotMoves ==
    ASSUME HoldInv, DOMAIN owed = Threads, NEW t \in Threads, Step(t) \/ Choice(t)
    PROVE  \/ slot' = slot
           \/ slot = None /\ InstallPager(t) /\ InCore' = {}
           \/ slot # None /\ slot' = None /\ InCore' = {} /\ Destroy(t) /\ held[t] = slot
<1> USE DEF HoldInv
<1>1. Steady(t) \/ Changes(t)
  BY DataKinds DEF HoldInv
<1>2. ASSUME InstallPager(t)
      PROVE  slot' = slot \/ (slot = None /\ InCore' = {})
  <2>1. slot = None /\ cache' = cache /\ (slot' = slot \/ slot' = cand[t])
    BY <1>2 DEF InstallPager
  <2>2. \A g \in Pagers : DOMAIN cache[g] = {}
    BY <2>1, SizesAssumption DEF OneCache, Pagers
  <2>3. cand[t] \in Pagers \union {None} /\ None \notin Pagers
    BY SizesAssumption DEF TypeInv, Pagers
  <2>4. QED
    BY <2>1, <2>2, <2>3 DEF InCore, CurrentPages, NoCache
<1>3. ASSUME Destroy(t), slot' # slot
      PROVE  slot # None /\ slot' = None /\ InCore' = {} /\ held[t] = slot
  BY <1>3 DEF Destroy, ClearSlot, InCore, CurrentPages, NoCache
<1>4. ASSUME Changes(t), ~InstallPager(t), ~Destroy(t) PROVE slot' = slot
  BY <1>4 DEF Changes, HostWrite, HostResize, CommitWrite, CommitResize, CopyDirty, WritePage,
     WritePageFails, FinishWriteback, StartSync, GetPage, Store
<1>5. QED
  BY <1>1, <1>2, <1>3, <1>4 DEF Steady

\* Other threads leave resident what a holder of file_io_lock finds resident.
LEMMA CoreKept ==
    ASSUME HoldInv, LockInv, DOMAIN owed = Threads, NEW t \in Threads, Step(t) \/ Choice(t),
           NEW u \in Threads, u # t, pc[u] \in Locked
    PROVE  InCore' \subseteq InCore
<1> USE DEF HoldInv
<1>1. CASE slot' # slot
  BY <1>1, SlotMoves
<1>2. CASE slot' = slot
  <2>1. ASSUME NEW c \in Cells, NEW v \in Values, Store(t, c, v) PROVE InCore' = InCore
    <3>1. slot \in Pagers => DOMAIN cache'[slot] = DOMAIN cache[slot]
      BY <2>1, StoreKeeps
    <3>2. QED
      BY <1>2, <3>1 DEF InCore, CurrentPages, TypeInv
  <2>2. ASSUME Destroy(t) PROVE InCore' \subseteq InCore
    <3>1. held[t] \in Pagers /\ cache' = [cache EXCEPT ![held[t]] = NoCache]
      BY <2>2 DEF Destroy, TypeInv, SeatInv, SeatOf, Holding, Ends
    <3>2. \A g \in Pagers : DOMAIN cache'[g] \subseteq DOMAIN cache[g]
      BY <3>1 DEF TypeInv, NoCache
    <3>3. QED
      BY <1>2, <3>2 DEF InCore, CurrentPages, TypeInv
  <2>3. ASSUME \/ Steady(t) \/ InstallPager(t)
               \/ \E kind \in {"fsync", "fdatasync"} : StartSync(t, kind)
        PROVE  InCore' = InCore
    <3>1. cache' = cache
      BY <2>3 DEF Steady, InstallPager, StartSync
    <3>2. QED
      BY <1>2, <3>1 DEF InCore, CurrentPages
  <2>4. QED
    BY <2>1, <2>2, <2>3, OthersSteady
<1>3. QED
  BY <1>1, <1>2

----------------------------------------------------------------------------
(* Which pager an operation works on *)

\* The labels at which HolderOf says something.
Bound == {"lock", "host", "commit", "end", "syncLock"} \union Syncing

\* A thread's own step.
LEMMA HolderSelf ==
    ASSUME HoldInv, NEW t \in Threads, Step(t) \/ Choice(t), HolderOf(t)
    PROVE  HolderOf(t)'
<1> USE DEF HoldInv
<1>a. /\ DOMAIN op = Threads /\ DOMAIN pc = Threads /\ DOMAIN held = Threads
      /\ after[t] \in {"idle", "synced", "hostSync"}
  BY DEF TypeInv
<1>b. SeatOf(t) /\ (slot = None => InCore = {})
  BY CurrentIs DEF SeatInv
<1>c. slot' = slot /\ cache' = cache => InCore' = InCore
  BY DEF InCore, CurrentPages
<1>d. map[t] # None => map[t] = slot
  BY DEF OneCache
<1>e. ASSUME pc'[t] \notin Bound PROVE HolderOf(t)'
  BY <1>e DEF HolderOf, Bound
<1>f. ASSUME CommitWrite(t) \/ CommitResize(t) PROVE HolderOf(t)'
  <2>1. pc[t] = "commit" /\ pc'[t] \in {"commit", "end"} /\ UNCHANGED <<held, slot>>
    BY <1>a, <1>f DEF CommitWrite, CommitResize
  <2>2. held[t] = None => cache' = cache
    BY <1>f DEF CommitWrite, CommitResize, Resident
  <2>3. QED
    BY <1>c, <2>1, <2>2 DEF HolderOf, Syncing
<1>g. ASSUME FinishWriteback(t) PROVE HolderOf(t)'
  <2>1. pc[t] = "syncFinish" /\ pc'[t] = "syncPage" /\ UNCHANGED <<held, slot, op>>
    BY <1>a, <1>g DEF FinishWriteback
  <2>2. QED
    BY <2>1 DEF HolderOf, Syncing
<1> USE DEF Bound, HolderOf, SeatOf, Holding, Free, Mapping, Locked, Ends, Syncing
<1>1. ASSUME BeginIo(t) PROVE HolderOf(t)'
  BY <1>a, <1>b, <1>c, <1>d, <1>e, <1>1 DEF BeginIo
<1>2. ASSUME LockIo(t) PROVE HolderOf(t)'
  BY <1>a, <1>b, <1>c, <1>d, <1>e, <1>2 DEF LockIo
<1>3. ASSUME LockIoBare(t) PROVE HolderOf(t)'
  BY <1>a, <1>b, <1>c, <1>d, <1>e, <1>3 DEF LockIoBare
<1>4. ASSUME HostRead(t) PROVE HolderOf(t)'
  BY <1>a, <1>b, <1>c, <1>d, <1>e, <1>4 DEF HostRead
<1>5. ASSUME HostWrite(t) PROVE HolderOf(t)'
  BY <1>a, <1>b, <1>c, <1>d, <1>e, <1>5 DEF HostWrite
<1>6. ASSUME HostResize(t) PROVE HolderOf(t)'
  BY <1>a, <1>b, <1>c, <1>d, <1>e, <1>6 DEF HostResize
<1>7. ASSUME HostFails(t) PROVE HolderOf(t)'
  BY <1>a, <1>b, <1>c, <1>d, <1>e, <1>7 DEF HostFails
<1>8. ASSUME CommitRead(t) PROVE HolderOf(t)'
  BY <1>a, <1>b, <1>c, <1>d, <1>e, <1>8 DEF CommitRead
<1>9. ASSUME EndIo(t) PROVE HolderOf(t)'
  BY <1>a, <1>b, <1>c, <1>d, <1>e, <1>9 DEF EndIo
<1>10. ASSUME Release(t) PROVE HolderOf(t)'
  BY <1>a, <1>b, <1>c, <1>d, <1>e, <1>10 DEF Release
<1>11. ASSUME Drain(t) PROVE HolderOf(t)'
  BY <1>a, <1>b, <1>c, <1>d, <1>e, <1>11 DEF Drain
<1>12. ASSUME Destroy(t) PROVE HolderOf(t)'
  BY <1>a, <1>b, <1>c, <1>d, <1>e, <1>12 DEF Destroy, ClearSlot, NoCache
<1>13. ASSUME FailedDrain(t) PROVE HolderOf(t)'
  BY <1>a, <1>b, <1>c, <1>d, <1>e, <1>13 DEF FailedDrain
<1>14. ASSUME NotifyFailedDrain(t) PROVE HolderOf(t)'
  BY <1>a, <1>b, <1>c, <1>d, <1>e, <1>14 DEF NotifyFailedDrain
<1>15. ASSUME SyncLock(t) PROVE HolderOf(t)'
  BY <1>a, <1>b, <1>c, <1>d, <1>e, <1>15 DEF SyncLock
<1>16. ASSUME CopyDirty(t) PROVE HolderOf(t)'
  BY <1>a, <1>b, <1>c, <1>d, <1>e, <1>16 DEF CopyDirty
<1>17. ASSUME WritePage(t) PROVE HolderOf(t)'
  BY <1>a, <1>b, <1>c, <1>d, <1>e, <1>17 DEF WritePage
<1>18. ASSUME WritePageFails(t) PROVE HolderOf(t)'
  BY <1>a, <1>b, <1>c, <1>d, <1>e, <1>18 DEF WritePageFails, SyncReturn, AfterSync
<1>19. ASSUME HostSyncRange(t) PROVE HolderOf(t)'
  BY <1>a, <1>b, <1>c, <1>d, <1>e, <1>19 DEF HostSyncRange, SyncReturn, AfterSync
<1>20. ASSUME HostSyncRangeFails(t) PROVE HolderOf(t)'
  BY <1>a, <1>b, <1>c, <1>d, <1>e, <1>20 DEF HostSyncRangeFails, SyncReturn, AfterSync
<1>21. ASSUME RetainForSync(t) PROVE HolderOf(t)'
  BY <1>a, <1>b, <1>c, <1>d, <1>e, <1>21 DEF RetainForSync
<1>22. ASSUME HostSync(t) PROVE HolderOf(t)'
  BY <1>a, <1>b, <1>c, <1>d, <1>e, <1>22 DEF HostSync
<1>23. ASSUME HostSyncFails(t) PROVE HolderOf(t)'
  BY <1>a, <1>b, <1>c, <1>d, <1>e, <1>23 DEF HostSyncFails
<1>24. ASSUME SyncReturns(t) PROVE HolderOf(t)'
  BY <1>a, <1>b, <1>c, <1>d, <1>e, <1>24 DEF SyncReturns
<1>25. ASSUME MapFails(t) PROVE HolderOf(t)'
  BY <1>a, <1>b, <1>c, <1>d, <1>e, <1>25 DEF MapFails
<1>26. ASSUME CreatePager(t) PROVE HolderOf(t)'
  BY <1>a, <1>b, <1>c, <1>d, <1>e, <1>26 DEF CreatePager
<1>27. ASSUME JoinPager(t) PROVE HolderOf(t)'
  BY <1>a, <1>b, <1>c, <1>d, <1>e, <1>27 DEF JoinPager, DropCandidate
<1>28. ASSUME InstallPager(t) PROVE HolderOf(t)'
  BY <1>a, <1>b, <1>c, <1>d, <1>e, <1>28 DEF InstallPager, DropCandidate
<1>29. ASSUME UpgradeWriter(t) PROVE HolderOf(t)'
  BY <1>a, <1>b, <1>c, <1>d, <1>e, <1>29 DEF UpgradeWriter, DropCandidate
<1>30. ASSUME Unmap(t) PROVE HolderOf(t)'
  BY <1>a, <1>b, <1>c, <1>d, <1>e, <1>30 DEF Unmap
<1>31. ASSUME RetryOrphans(t) PROVE HolderOf(t)'
  BY <1>a, <1>b, <1>c, <1>d, <1>e, <1>31 DEF RetryOrphans
<1>32. ASSUME NEW kind \in {"read", "write", "resize", "grow"}, StartIo(t, kind) PROVE HolderOf(t)'
  BY <1>a, <1>b, <1>c, <1>d, <1>e, <1>32 DEF StartIo
<1>33. ASSUME NEW kind \in {"fsync", "fdatasync"}, StartSync(t, kind) PROVE HolderOf(t)'
  BY <1>a, <1>b, <1>c, <1>d, <1>e, <1>33 DEF StartSync
<1>34. ASSUME NEW w \in BOOLEAN, StartMap(t, w) PROVE HolderOf(t)'
  BY <1>a, <1>b, <1>c, <1>d, <1>e, <1>34 DEF StartMap
<1>35. ASSUME NEW p \in Pages, GetPage(t, p) PROVE HolderOf(t)'
  BY <1>a, <1>b, <1>c, <1>d, <1>e, <1>35 DEF GetPage
<1>36. ASSUME NEW p \in Pages, Msync(t, p) PROVE HolderOf(t)'
  BY <1>a, <1>b, <1>c, <1>d, <1>e, <1>36 DEF Msync
<1>37. ASSUME NEW c \in Cells, NEW v \in Values, Store(t, c, v) PROVE HolderOf(t)'
  BY <1>a, <1>b, <1>c, <1>d, <1>e, <1>37 DEF Store
<1>38. QED
  BY <1>1, <1>2, <1>3, <1>4, <1>5, <1>6, <1>7, <1>8, <1>9, <1>10, <1>11,
     <1>12, <1>13, <1>14, <1>15, <1>16, <1>17, <1>18, <1>19, <1>20, <1>21,
     <1>22, <1>23, <1>24, <1>25, <1>26, <1>27, <1>28, <1>29, <1>30, <1>31,
     <1>32, <1>33, <1>34, <1>35, <1>36, <1>37, <1>f, <1>g DEF Step, Choice

\* The steps of the others.
LEMMA HolderOther ==
    ASSUME HoldInv, LockInv, DOMAIN owed = Threads, NEW t \in Threads, Step(t) \/ Choice(t),
           NEW u \in Threads, u # t, HolderOf(u)
    PROVE  HolderOf(u)'
<1> USE DEF HoldInv
<1>1. pc'[u] = pc[u] /\ held'[u] = held[u] /\ op'[u] = op[u]
  BY OtherThreads
<1>2. pc[u] \in {"host", "commit"} => InCore' \subseteq InCore
  BY CoreKept DEF Locked
<1>3. CASE slot' = slot
  BY <1>1, <1>2, <1>3 DEF HolderOf
<1>4. CASE slot = None /\ slot' # slot
  <2>1. InCore' = {}
    BY <1>4, SlotMoves
  <2>2. pc[u] \in Syncing \union {"syncLock"} => held[u] # None
    BY DEF SeatInv, SeatOf, Holding
  <2>3. QED
    BY <1>1, <1>4, <2>1, <2>2 DEF HolderOf
<1>5. CASE slot # None /\ slot' # slot
  <2>1. InCore' = {} /\ slot' = None /\ Destroy(t) /\ held[t] = slot
    BY <1>5, SlotMoves
  <2>2. held[u] # slot
    BY <1>5, <2>1, OneEnder DEF Destroy, Ending, Ends
  <2>3. QED
    BY <1>1, <2>1, <2>2 DEF HolderOf
<1>6. QED
  BY <1>3, <1>4, <1>5

\* Every step of a thread keeps the operations on the pager in use.
LEMMA HolderThread ==
    ASSUME HoldInv, LockInv, DOMAIN owed = Threads, HolderInv, NEW t \in Threads, Step(t) \/ Choice(t)
    PROVE  HolderInv'
<1>1. ASSUME NEW u \in Threads PROVE HolderOf(u)'
  BY HolderSelf, HolderOther DEF HolderInv
<1>2. QED
  BY <1>1 DEF HolderInv

\* Cells that wait for their page: those of the one thread that works, whose resident pages
\* are those of the cache in use.
LEMMA PendingIs ==
    HoldInv /\ LockInv /\ HolderInv =>
       /\ ioLock = None => \A u \in Threads : ~Working(u)
       /\ \A t \in Threads :
             /\ pc[t] \in Locked => \A u \in Threads : u # t => ~Working(u)
             /\ pc[t] \in {"host", "commit"} => Resident(t) = InCore
<1> SUFFICES ASSUME HoldInv, LockInv, HolderInv, NEW t \in Threads
             PROVE  /\ ioLock = None => ~Working(t)
                    /\ pc[t] \in Locked => \A u \in Threads : u # t => ~Working(u)
                    /\ pc[t] \in {"host", "commit"} => Resident(t) = InCore
  OBVIOUS
<1>1. ioLock = None => ~Working(t)
  BY SizesAssumption DEF LockInv, LockOf, Working, Locked
<1>2. pc[t] \in Locked => \A u \in Threads : u # t => ~Working(u)
  BY DEF LockInv, LockOf, Working, Locked
<1>3. pc[t] \in {"host", "commit"} => Resident(t) = InCore
  BY DEF HolderInv, HolderOf, Resident, InCore, CurrentPages
<1>4. QED
  BY <1>1, <1>2, <1>3

\* Nothing waits for a thread that does not work.
LEMMA NotPending == \A t \in Threads : ~Working(t) => PendingOf(t) = {}
BY DEF Working, PendingOf

LEMMA NotPendingNext == (\A t \in Threads : ~Working(t) => PendingOf(t) = {})'
BY NotPending, PTL

----------------------------------------------------------------------------
(* What the steps do to the pages in use *)

\* The step changes page p of the cache in use to r, if it is resident, and no other.
Only(p, r) ==
    /\ InCore' = InCore
    /\ \A q \in InCore : CurrentPages'[q] = IF q = p THEN r ELSE CurrentPages[q]

\* An EXCEPT of one page of the cache in use.
LEMMA OnePage ==
    ASSUME TypeInv, slot \in Pagers, slot' = slot, NEW p \in DOMAIN cache[slot], NEW r,
           cache' = [cache EXCEPT ![slot] = [cache[slot] EXCEPT ![p] = r]]
    PROVE  Only(p, r)
<1> DEFINE f == [cache[slot] EXCEPT ![p] = r]
<1>0. slot # None
  BY SizesAssumption DEF Pagers
<1>1. CurrentPages = cache[slot] /\ CurrentPages' = f
  BY <1>0 DEF CurrentPages, TypeInv
<1>2. DOMAIN f = DOMAIN cache[slot]
      /\ \A q \in DOMAIN cache[slot] : f[q] = IF q = p THEN r ELSE cache[slot][q]
  OBVIOUS
<1> HIDE DEF f
<1>3. QED
  BY <1>1, <1>2 DEF Only, InCore

\* A copied page is a dirty page of the cache in use.
LEMMA CopiedPage ==
    ASSUME HoldInv, SnapInv, NEW t \in Threads, pc[t] \in {"syncWrite", "syncFinish"}
    PROVE  /\ held[t] = slot /\ slot \in Pagers /\ CurrentPages = cache[slot]
           /\ snap.page \in InCore /\ CurrentPages[snap.page].dirty
           /\ snap = [page |-> snap.page, bytes |-> snap.bytes, fresh |-> snap.fresh]
           /\ pc[t] \in Locked
<1> USE DEF HoldInv
<1>1. held[t] \in Pagers
  BY DEF TypeInv, SeatInv, SeatOf, Holding, Syncing
<1>2. /\ snap.page \in DOMAIN cache[held[t]] /\ cache[held[t]][snap.page].dirty
      /\ snap = [page |-> snap.page, bytes |-> snap.bytes, fresh |-> snap.fresh]
  BY DEF SnapInv, SnapOf
<1>3. held[t] = slot /\ slot # None
  BY <1>1, <1>2, SizesAssumption DEF OneCache, Pagers
<1>4. CurrentPages = cache[slot] /\ InCore = DOMAIN cache[slot]
  BY <1>3 DEF CurrentPages, InCore
<1>5. pc[t] \in Locked
  BY DEF Locked, Syncing
<1>6. QED
  BY <1>1, <1>2, <1>3, <1>4, <1>5

\* The file pages of a write.
LEMMA CommitWritePages ==
    ASSUME HoldInv, LockInv, HolderInv, NEW t \in Threads, CommitWrite(t)
    PROVE  LET p == Min(todo[t])
           IN  Only(p, Merged(CurrentPages[p], p, op[t].first, op[t].last, op[t].value))
<1> DEFINE p == Min(todo[t])
           r == Merged(cache[held[t]][p], p, op[t].first, op[t].last, op[t].value)
<1> USE DEF HoldInv
<1>1. pc[t] = "commit" /\ slot' = slot
  BY DEF CommitWrite
<1>2. Resident(t) = InCore
  BY <1>1, PendingIs
<1>3. CASE p \notin InCore
  <2>1. cache' = cache
    BY <1>2, <1>3 DEF CommitWrite
  <2>2. CurrentPages' = CurrentPages /\ InCore' = InCore
    BY <1>1, <2>1 DEF CurrentPages, InCore
  <2>3. QED
    BY <1>3, <2>2 DEF Only
<1>4. CASE p \in InCore
  <2>1. held[t] # None /\ held[t] = slot /\ p \in DOMAIN cache[slot]
    BY <1>1, <1>2, <1>4 DEF Resident, HolderInv, HolderOf
  <2>2. cache' = [cache EXCEPT ![slot] = [cache[slot] EXCEPT ![p] = r]]
    BY <1>2, <1>4, <2>1 DEF CommitWrite
  <2>3. slot \in Pagers /\ CurrentPages = cache[slot]
    BY <2>1 DEF TypeInv, CurrentPages
  <2> HIDE DEF r
  <2>4. Only(p, r)
    BY <1>1, <2>1, <2>2, <2>3, OnePage
  <2>5. QED
    BY <2>1, <2>3, <2>4 DEF r
<1>5. QED
  BY <1>3, <1>4

\* The pages of a file of another size.
LEMMA CommitResizePages ==
    ASSUME HoldInv, LockInv, HolderInv, NEW t \in Threads, CommitResize(t)
    PROVE  /\ InCore' = {q \in InCore : q * PageSize < op[t].new}
           /\ \A q \in InCore' : CurrentPages'[q] = Resized(CurrentPages[q], q, op[t].old, op[t].new)
<1> USE DEF HoldInv
<1>1. pc[t] = "commit" /\ slot' = slot
  BY DEF CommitResize
<1>2. Resident(t) = InCore
  BY <1>1, PendingIs
<1>3. CASE held[t] = None
  <2>1. cache' = cache /\ InCore = {}
    BY <1>2, <1>3 DEF CommitResize, Resident
  <2>2. InCore' = {}
    BY <1>1, <2>1 DEF CurrentPages, InCore
  <2>3. QED
    BY <2>1, <2>2
<1>4. CASE held[t] # None
  <2> DEFINE f == [p \in {q \in InCore : q * PageSize < op[t].new} |->
                      Resized(cache[slot][p], p, op[t].old, op[t].new)]
  <2>1. held[t] = slot /\ slot \in Pagers /\ CurrentPages = cache[slot]
    BY <1>1, <1>4 DEF HolderInv, HolderOf, TypeInv, CurrentPages
  <2>2. cache' = [cache EXCEPT ![slot] = f]
    BY <1>2, <1>4, <2>1 DEF CommitResize
  <2>3. cache'[slot] = f
    BY <2>1, <2>2 DEF TypeInv
  <2>4. CurrentPages' = f
    BY <1>1, <1>4, <2>1, <2>3 DEF CurrentPages
  <2>5. QED
    BY <2>1, <2>4 DEF InCore
<1>5. QED
  BY <1>3, <1>4

\* The page written back.
LEMMA FinishPages ==
    ASSUME HoldInv, SnapInv, NEW t \in Threads, FinishWriteback(t)
    PROVE  Only(snap.page, Finished(CurrentPages[snap.page]))
<1> DEFINE r == Finished(cache[slot][snap.page])
<1>1. pc[t] = "syncFinish" /\ slot' = slot
  BY DEF FinishWriteback
<1>2. held[t] = slot /\ slot \in Pagers /\ CurrentPages = cache[slot] /\ snap.page \in DOMAIN cache[slot]
  BY <1>1, CopiedPage DEF InCore
<1>3. cache' = [cache EXCEPT ![slot] = [cache[slot] EXCEPT ![snap.page] = r]]
  BY <1>2 DEF FinishWriteback
<1> HIDE DEF r
<1>4. Only(snap.page, r)
  BY <1>1, <1>2, <1>3, OnePage DEF HoldInv
<1>5. QED
  BY <1>2, <1>4 DEF r

\* The page stored into.
LEMMA StorePages ==
    ASSUME HoldInv, NEW t \in Threads, NEW c \in Cells, NEW v \in Values, Store(t, c, v)
    PROVE  /\ Only(PageOf(c), [bytes |-> [CurrentPages[PageOf(c)].bytes EXCEPT ![c] = v], dirty |-> TRUE])
           /\ PageOf(c) \in InCore /\ UNCHANGED <<disk, size, slot>> /\ Live(slot)
<1> DEFINE p == PageOf(c)
           r == [bytes |-> [cache[slot][p].bytes EXCEPT ![c] = v], dirty |-> TRUE]
<1> USE DEF HoldInv
<1>1. map[t] = slot /\ slot \in Pagers /\ slot # None /\ slot' = slot /\ Live(slot)
  BY DEF Store, OneCache, TypeInv
<1>2. p \in DOMAIN cache[slot] /\ CurrentPages = cache[slot]
  BY <1>1 DEF Store, CurrentPages
<1>3. cache' = [cache EXCEPT ![slot] = [cache[slot] EXCEPT ![p] = r]]
  BY <1>1 DEF Store
<1> HIDE DEF r
<1>4. Only(p, r)
  BY <1>1, <1>2, <1>3, OnePage
<1>5. UNCHANGED <<disk, size, slot>>
  BY DEF Store
<1>6. QED
  BY <1>1, <1>2, <1>4, <1>5 DEF r, InCore

\* The page that is read in.
LEMMA GetPages ==
    ASSUME HoldInv, NEW t \in Threads, NEW p \in Pages, GetPage(t, p)
    PROVE  /\ InCore' = InCore \union {p} /\ p \notin InCore
           /\ \A q \in InCore' : CurrentPages'[q] = IF q = p THEN Loaded(p) ELSE CurrentPages[q]
<1> USE DEF HoldInv
<1>1. map[t] = slot /\ slot \in Pagers /\ slot # None /\ slot' = slot
  BY DEF GetPage, OneCache, TypeInv
<1> DEFINE f == [q \in DOMAIN cache[slot] \union {p} |-> IF q = p THEN Loaded(p) ELSE cache[slot][q]]
<1>2. cache' = [cache EXCEPT ![slot] = f] /\ p \notin DOMAIN cache[slot]
  BY <1>1 DEF GetPage
<1>3. CurrentPages' = f /\ CurrentPages = cache[slot]
  BY <1>1, <1>2 DEF CurrentPages, TypeInv
<1>4. QED
  BY <1>2, <1>3 DEF InCore

\* The end of a pager.
LEMMA DestroyPages ==
    ASSUME HoldInv, NEW t \in Threads, Destroy(t)
    PROVE  \/ CurrentPages' = CurrentPages /\ slot' = slot /\ held[t] # slot
           \/ InCore' = {} /\ held[t] = slot /\ slot \in Pagers
<1> USE DEF HoldInv
<1>1. held[t] \in Pagers
  BY DEF Destroy, TypeInv, SeatInv, SeatOf, Holding, Ends
<1>2. CASE slot = held[t]
  <2>1. slot' = None
    BY <1>2 DEF Destroy, ClearSlot
  <2>2. QED
    BY <1>1, <1>2, <2>1 DEF InCore, CurrentPages, NoCache
<1>3. CASE slot # held[t]
  <2>1. slot' = slot /\ \A g \in Pagers : g # held[t] => cache'[g] = cache[g]
    BY <1>1, <1>3 DEF Destroy, ClearSlot, TypeInv
  <2>2. QED
    BY <1>3, <2>1 DEF CurrentPages, TypeInv
<1>4. QED
  BY <1>2, <1>3

\* The pages in use are as they were.
PagesSame == InCore' = InCore /\ \A q \in InCore : CurrentPages'[q] = CurrentPages[q]

\* The steps that leave them so.
LEMMA PagesKept ==
    ASSUME HoldInv, NEW t \in Threads,
           \/ Steady(t) \/ HostWrite(t) \/ HostResize(t) \/ CopyDirty(t) \/ WritePage(t)
           \/ WritePageFails(t) \/ InstallPager(t)
           \/ \E kind \in {"fsync", "fdatasync"} : StartSync(t, kind)
    PROVE  PagesSame
<1> USE DEF HoldInv
<1>1. cache' = cache
  BY DEF Steady, HostWrite, HostResize, CopyDirty, WritePage, WritePageFails, InstallPager, StartSync
<1>2. CASE slot' = slot
  BY <1>1, <1>2 DEF PagesSame, CurrentPages, InCore
<1>3. CASE slot' # slot
  <2>1. InstallPager(t)
    BY <1>3 DEF Steady, HostWrite, HostResize, CopyDirty, WritePage, WritePageFails, StartSync
  <2>2. slot = None /\ slot' = cand[t]
    BY <1>3, <2>1 DEF InstallPager
  <2>3. \A g \in Pagers : DOMAIN cache[g] = {}
    BY <2>2, SizesAssumption DEF OneCache, Pagers
  <2>4. InCore = {} /\ InCore' = {}
    BY <1>1, <2>2, <2>3 DEF InCore, CurrentPages, NoCache, TypeInv
  <2>5. QED
    BY <2>4 DEF PagesSame
<1>4. QED
  BY <1>2, <1>3

----------------------------------------------------------------------------
(* The types of contents *)

\* What happens to a page leaves it a page.
LEMMA RecTypes ==
    ASSUME NEW p, NEW r \in PageRecs(p)
    PROVE  /\ \A first, last : \A v \in Values : Merged(r, p, first, last, v) \in PageRecs(p)
           /\ \A old, new : Resized(r, p, old, new) \in PageRecs(p)
           /\ Finished(r) \in PageRecs(p)
           /\ \A c \in CellsOf(p), v \in Values :
                 [bytes |-> [r.bytes EXCEPT ![c] = v], dirty |-> TRUE] \in PageRecs(p)
<1>1. r = [bytes |-> r.bytes, dirty |-> r.dirty]
      /\ r.bytes \in [CellsOf(p) -> Values] /\ r.dirty \in BOOLEAN
  BY DEF PageRecs
<1>2. ASSUME NEW first, NEW last, NEW v \in Values PROVE Merged(r, p, first, last, v) \in PageRecs(p)
  <2>1. [c \in CellsOf(p) |-> IF c \in first .. last THEN v ELSE r.bytes[c]] \in [CellsOf(p) -> Values]
    BY <1>1
  <2>2. (r.dirty /\ ~(CellsOf(p) \subseteq first .. last)) \in BOOLEAN
    OBVIOUS
  <2>3. QED
    BY <2>1, <2>2 DEF PageRecs, Merged
<1>3. ASSUME NEW old, NEW new PROVE Resized(r, p, old, new) \in PageRecs(p)
  BY <1>1, SizesAssumption DEF PageRecs, Resized
<1>4. Finished(r) \in PageRecs(p)
  <2>1. (r.dirty /\ ~snap.fresh) \in BOOLEAN
    OBVIOUS
  <2>2. QED
    BY <1>1, <2>1 DEF PageRecs, Finished
<1>5. ASSUME NEW c \in CellsOf(p), NEW v \in Values
      PROVE  [bytes |-> [r.bytes EXCEPT ![c] = v], dirty |-> TRUE] \in PageRecs(p)
  BY <1>1 DEF PageRecs
<1>6. QED
  BY <1>2, <1>3, <1>4, <1>5

\* The host file.
LEMMA FileTypes ==
    ASSUME TypeInv, DOMAIN owed = Threads, DataType, CopyInv, NEW t \in Threads, Step(t) \/ Choice(t)
    PROVE  disk' \in [Cells -> Values] /\ size' \in 0 .. FileCells
<1> USE DEF DataType
<1>0. PageSize \in Nat \ {0} /\ NumPages \in Nat \ {0} /\ Zero \in Values /\ FileCells \in Nat
  BY SizesAssumption DEF FileCells
<1> DEFINE Goal == disk' \in [Cells -> Values] /\ size' \in 0 .. FileCells
<1>1. ASSUME UNCHANGED <<disk, size>> PROVE Goal
  BY <1>1
<1>2. ASSUME HostWrite(t) PROVE Goal
  <2>1. PICK first \in Cells, n \in 1 .. MaxLen, v \in Values :
            /\ first + n - 1 \in Cells
            /\ disk' = [c \in Cells |-> IF c \in first .. (first + n - 1) THEN v ELSE disk[c]]
            /\ size' = IF first + n - 1 >= size THEN first + n - 1 + 1 ELSE size
    BY <1>2 DEF HostWrite
  <2>2. disk' \in [Cells -> Values]
    BY <2>1
  <2>3. size' \in 0 .. FileCells
    <3> DEFINE last == first + n - 1
    <3>1. last \in 0 .. FileCells - 1
      BY <2>1 DEF Cells, FileCells
    <3> HIDE DEF last
    <3>2. size' = IF last >= size THEN last + 1 ELSE size
      BY <2>1 DEF last
    <3>3. QED
      BY <1>0, <3>1, <3>2
  <2>4. QED
    BY <2>2, <2>3
<1>3. ASSUME HostResize(t) PROVE Goal
  <2>1. PICK new \in 0 .. NumPages * PageSize :
            \/ UNCHANGED <<disk, size>>
            \/ /\ disk' = [c \in Cells |-> IF c < new THEN disk[c] ELSE Zero]
               /\ size' = new
    BY <1>3 DEF HostResize
  <2>2. QED
    BY <1>0, <2>1 DEF FileCells
<1>4. ASSUME WritePage(t) PROVE Goal
  <2>1. snap.bytes \in [CellsOf(snap.page) -> Values]
    BY <1>4 DEF WritePage, CopyInv, CopyOf
  <2>2. /\ size' = size
        /\ disk' = [c \in Cells |-> IF c \in {d \in CellsOf(snap.page) : d < size}
                                    THEN snap.bytes[c] ELSE disk[c]]
    BY <1>4 DEF WritePage
  <2>3. QED
    BY <2>1, <2>2
<1>5. ASSUME WritePageFails(t) PROVE Goal
  <2>1. snap.bytes \in [CellsOf(snap.page) -> Values]
    BY <1>5 DEF WritePageFails, CopyInv, CopyOf
  <2>2. size' = size /\ \E n : disk' = [c \in Cells |-> IF /\ PageOf(c) = snap.page /\ c < size
                                     /\ c < snap.page * PageSize + n
                                  THEN snap.bytes[c] ELSE disk[c]]
    BY <1>5 DEF WritePageFails
  <2>3. QED
    BY <2>1, <2>2 DEF CellsOf
<1>6. ASSUME Changes(t), ~HostWrite(t), ~HostResize(t), ~WritePage(t), ~WritePageFails(t)
      PROVE  UNCHANGED <<disk, size>>
  BY <1>6 DEF Changes, CommitWrite, CommitResize, CopyDirty, Destroy, FinishWriteback, InstallPager,
     StartSync, GetPage, Store
<1>7. QED
  BY <1>1, <1>2, <1>3, <1>4, <1>5, <1>6, DataKinds DEF Steady

\* The pages.
LEMMA PageTypes ==
    ASSUME PagerInv, DOMAIN owed = Threads, DataInv, NEW t \in Threads, Step(t) \/ Choice(t)
    PROVE  \A p \in InCore' : CurrentPages'[p] \in PageRecs(p)
<1> USE DEF PagerInv, DataInv, DataType
<1> DEFINE Goal == \A p \in InCore' : CurrentPages'[p] \in PageRecs(p)
<1>1. ASSUME PagesSame PROVE Goal
  BY <1>1 DEF PagesSame
<1>2. ASSUME NEW p, NEW r, Only(p, r), p \in InCore => r \in PageRecs(p) PROVE Goal
  BY <1>2 DEF Only
<1>3. ASSUME CommitWrite(t) PROVE Goal
  <2>1. op[t].value \in Values
    BY <1>3 DEF CommitWrite, WorkInv, WriteOf, Working
  <2>2. \A p \in InCore : Merged(CurrentPages[p], p, op[t].first, op[t].last, op[t].value) \in PageRecs(p)
    BY <2>1, RecTypes
  <2>3. QED
    BY <1>2, <1>3, <2>2, CommitWritePages
<1>4. ASSUME CommitResize(t) PROVE Goal
  <2>1. \A p \in InCore : Resized(CurrentPages[p], p, op[t].old, op[t].new) \in PageRecs(p)
    BY RecTypes
  <2>2. QED
    BY <1>4, <2>1, CommitResizePages
<1>5. ASSUME FinishWriteback(t) PROVE Goal
  <2>1. \A p \in InCore : Finished(CurrentPages[p]) \in PageRecs(p)
    BY RecTypes
  <2>2. QED
    BY <1>2, <1>5, <2>1, FinishPages
<1>6. ASSUME NEW c \in Cells, NEW v \in Values, Store(t, c, v) PROVE Goal
  <2>1. c \in CellsOf(PageOf(c))
    BY CellPage
  <2>2. \A p \in InCore : p = PageOf(c) =>
           [bytes |-> [CurrentPages[p].bytes EXCEPT ![c] = v], dirty |-> TRUE] \in PageRecs(p)
    BY <2>1, RecTypes
  <2>3. QED
    BY <1>2, <1>6, <2>2, StorePages
<1>7. ASSUME NEW p \in Pages, GetPage(t, p) PROVE Goal
  <2>1. Loaded(p) \in PageRecs(p)
    BY SizesAssumption DEF Loaded, PageRecs, CellsOf
  <2>2. QED
    BY <1>7, <2>1, GetPages
<1>8. ASSUME Destroy(t) PROVE Goal
  <2>1. CurrentPages' = CurrentPages \/ InCore' = {}
    BY <1>8, DestroyPages
  <2>2. QED
    BY <2>1 DEF InCore
<1>9. QED
  BY <1>1, <1>3, <1>4, <1>5, <1>6, <1>7, <1>8, DataKinds, PagesKept DEF Changes, HoldInv

----------------------------------------------------------------------------
(* Writes and truncations under way *)

\* A step that is not of a write or a truncation.
Bystander(t) ==
    \/ Steady(t) \/ Destroy(t) \/ CopyDirty(t) \/ WritePage(t) \/ WritePageFails(t)
    \/ FinishWriteback(t) \/ InstallPager(t)
    \/ \E kind \in {"fsync", "fdatasync"} : StartSync(t, kind)
    \/ \E p \in Pages : GetPage(t, p)
    \/ \E c \in Cells, v \in Values : Store(t, c, v)

\* It is of a thread that does not work.
LEMMA BystanderIdle ==
    ASSUME TypeInv, NEW t \in Threads, Bystander(t)
    PROVE  ~Working(t) /\ ~Working(t)' /\ size' = size
<1>1. /\ DOMAIN op = Threads /\ DOMAIN pc = Threads
      /\ after[t] \in {"idle", "synced", "hostSync"}
  BY DEF TypeInv
<1>2. CASE \/ Destroy(t) \/ CopyDirty(t) \/ WritePage(t) \/ WritePageFails(t)
           \/ FinishWriteback(t) \/ InstallPager(t)
  BY <1>1, <1>2 DEF Working, Destroy, CopyDirty, WritePage, WritePageFails, SyncReturn,
     FinishWriteback, InstallPager, DropCandidate
<1>3. CASE \/ \E kind \in {"fsync", "fdatasync"} : StartSync(t, kind)
           \/ \E p \in Pages : GetPage(t, p)
           \/ \E c \in Cells, v \in Values : Store(t, c, v)
  BY <1>1, <1>3 DEF Working, StartSync, GetPage, Store
<1>4. QED
  BY <1>2, <1>3 DEF Bystander, Steady

\* Every step of a thread is one of these.
LEMMA WorkKinds ==
    ASSUME TypeInv, DOMAIN owed = Threads, NEW t \in Threads, Step(t) \/ Choice(t)
    PROVE  \/ HostWrite(t)
           \/ HostResize(t) /\ pc'[t] = "commit"
           \/ CommitWrite(t)
           \/ CommitResize(t)
           \/ Bystander(t)
BY DataKinds DEF Changes, Bystander

\* What a write does to the host file and to itself.
Writes(t, first, last, v) ==
    /\ op'[t] = [kind |-> "write", first |-> first, last |-> last, value |-> v, old |-> size]
    /\ HoleWrites \/ first <= size
    /\ disk' = [c \in Cells |-> IF c \in first .. last THEN v ELSE disk[c]]
    /\ size' = IF last >= size THEN last + 1 ELSE size
    /\ todo'[t] = {PageOf(c) : c \in first .. last}
    /\ owed' = OwedWithout(first .. last)
    /\ first .. last \subseteq Cells
    /\ pc[t] = "host" /\ pc'[t] = "commit" /\ UNCHANGED <<held, snap, slot>>

\* What a truncation does.
Cuts(t, new) ==
    /\ op'[t] = [kind |-> "resize", new |-> new, old |-> size]
    /\ disk' = [c \in Cells |-> IF c < new THEN disk[c] ELSE Zero]
    /\ size' = new
    /\ owed' = OwedWithout({c \in Cells : c >= new})
    /\ pc[t] = "host" /\ UNCHANGED <<held, snap, slot>>

\* HostWrite does it.
LEMMA WriteEffect ==
    ASSUME TypeInv, NEW t \in Threads, HostWrite(t)
    PROVE  \E first \in Cells, last \in Cells, v \in Values : Writes(t, first, last, v)
<1>1. PICK first \in Cells, n \in 1 .. MaxLen, v \in Values :
          LET last == first + n - 1 IN
          /\ last \in Cells
          /\ HoleWrites \/ first <= size
          /\ disk' = [c \in Cells |-> IF c \in first .. last THEN v ELSE disk[c]]
          /\ size' = IF last >= size THEN last + 1 ELSE size
          /\ op' = [op EXCEPT ![t] = [kind |-> "write", first |-> first, last |-> last,
                                      value |-> v, old |-> size]]
          /\ todo' = [todo EXCEPT ![t] = {PageOf(c) : c \in first .. last}]
          /\ owed' = OwedWithout(first .. last)
  BY DEF HostWrite
<1>2. pc[t] = "host" /\ pc'[t] = "commit" /\ UNCHANGED <<held, snap, slot>>
  BY DEF HostWrite, TypeInv
<1> DEFINE last == first + n - 1
<1>3. last \in Cells
  BY <1>1
<1>4. first .. last \subseteq Cells
  BY <1>3, SizesAssumption DEF Cells
<1>5. /\ op'[t] = [kind |-> "write", first |-> first, last |-> last, value |-> v, old |-> size]
      /\ todo'[t] = {PageOf(c) : c \in first .. last}
  BY <1>1 DEF TypeInv
<1>6. /\ HoleWrites \/ first <= size
      /\ disk' = [c \in Cells |-> IF c \in first .. last THEN v ELSE disk[c]]
      /\ size' = IF last >= size THEN last + 1 ELSE size
      /\ owed' = OwedWithout(first .. last)
  BY <1>1
<1> HIDE DEF last
<1>7. Writes(t, first, last, v)
  BY <1>2, <1>3, <1>4, <1>5, <1>6 DEF Writes
<1>8. QED
  BY <1>3, <1>7

\* HostResize does it, unless there is nothing to do.
LEMMA ResizeEffect ==
    ASSUME TypeInv, NEW t \in Threads, HostResize(t), pc'[t] = "commit"
    PROVE  \E new \in 0 .. FileCells : Cuts(t, new)
<1>1. PICK new \in 0 .. NumPages * PageSize :
          /\ disk' = [c \in Cells |-> IF c < new THEN disk[c] ELSE Zero]
          /\ size' = new
          /\ op' = [op EXCEPT ![t] = [kind |-> "resize", new |-> new, old |-> size]]
          /\ owed' = OwedWithout({c \in Cells : c >= new})
  BY DEF HostResize, TypeInv
<1>2. pc[t] = "host" /\ UNCHANGED <<held, snap, slot>>
  BY DEF HostResize
<1>3. Cuts(t, new)
  BY <1>1, <1>2 DEF TypeInv, Cuts
<1>4. QED
  BY <1>3 DEF FileCells

\* A truncation under way, and nothing else, excuses pages past the end.
Cutting(t) == Working(t) /\ op[t].kind # "write"

\* The work of the others is left alone.
LEMMA WorkOther ==
    ASSUME HoldInv, LockInv, DOMAIN owed = Threads, NEW t \in Threads, Step(t) \/ Choice(t),
           NEW u \in Threads, u # t, WriteOf(u), ResizeOf(u)
    PROVE  WriteOf(u)' /\ ResizeOf(u)'
<1> USE DEF HoldInv
<1>1. pc'[u] = pc[u] /\ held'[u] = held[u] /\ op'[u] = op[u] /\ todo'[u] = todo[u]
  BY OtherThreads
<1>2. CASE ~Working(u)
  BY <1>1, <1>2 DEF WriteOf, ResizeOf, Working
<1>3. CASE Working(u)
  <2>1. pc[u] \in Locked
    BY <1>3 DEF Working, Locked
  <2>2. InCore' \subseteq InCore
    BY <2>1, CoreKept
  <2>3. disk' = disk /\ size' = size
    BY <2>1, OthersSteady DEF Steady, Destroy, InstallPager, StartSync, Store
  <2>4. Working(u)'
    BY <1>1, <1>3 DEF Working
  <2>5. WriteOf(u)'
    BY <1>1, <1>3, <2>2, <2>3, <2>4 DEF WriteOf
  <2>6. ResizeOf(u)'
    BY <1>1, <1>3, <2>2, <2>3, <2>4 DEF ResizeOf
  <2>7. QED
    BY <2>5, <2>6
<1>4. QED
  BY <1>2, <1>3

\* A thread's own write or truncation.
LEMMA WorkSelf ==
    ASSUME PagerInv, DOMAIN owed = Threads, DataInv, ~HoleWrites, NEW t \in Threads, Step(t) \/ Choice(t)
    PROVE  WriteOf(t)' /\ ResizeOf(t)'
<1> USE DEF PagerInv, HoldInv, DataInv
<1>0. PageSize \in Nat /\ NumPages \in Nat /\ size \in Nat /\ FileCells \in Nat /\ DataType
  BY SizesAssumption DEF DataType, FileCells
<1>a. ASSUME ~Working(t)' PROVE WriteOf(t)' /\ ResizeOf(t)'
  BY <1>a DEF WriteOf, ResizeOf
<1>1. ASSUME HostWrite(t) PROVE WriteOf(t)' /\ ResizeOf(t)'
  <2>0. PICK first \in Cells, last \in Cells, v \in Values : Writes(t, first, last, v)
    BY <1>1, WriteEffect
  <2>1. /\ op'[t] = [kind |-> "write", first |-> first, last |-> last, value |-> v, old |-> size]
        /\ HoleWrites \/ first <= size
        /\ disk' = [c \in Cells |-> IF c \in first .. last THEN v ELSE disk[c]]
        /\ size' = IF last >= size THEN last + 1 ELSE size
        /\ todo'[t] = {PageOf(c) : c \in first .. last}
        /\ first .. last \subseteq Cells
    BY <2>0 DEF Writes
  <2>2. op'[t].kind = "write" /\ op'[t].first = first /\ op'[t].last = last
        /\ op'[t].value = v /\ op'[t].old = size
    BY <2>1
  <2>3. \A c \in first .. last : disk'[c] = v
    BY <2>1
  <2>4. \A c \in Cells : c < size' <=> c < size \/ c \in first .. last
    <3>1. first \in Nat /\ last \in Nat /\ Cells \subseteq Nat
      BY DEF Cells
    <3>2. QED
      BY <1>0, <2>1, <3>1
  <2>5. todo'[t] \subseteq Pages
    BY <2>1, CellPage
  <2>6. WriteOf(t)'
    BY <1>0, <2>2, <2>3, <2>4, <2>5 DEF WriteOf, DataType
  <2>7. QED
    BY <2>2, <2>6 DEF ResizeOf
<1>2. ASSUME HostResize(t), pc'[t] = "commit" PROVE WriteOf(t)' /\ ResizeOf(t)'
  <2>0. PICK new \in 0 .. FileCells : Cuts(t, new)
    BY <1>2, ResizeEffect
  <2>1. /\ op'[t] = [kind |-> "resize", new |-> new, old |-> size]
        /\ disk' = [c \in Cells |-> IF c < new THEN disk[c] ELSE Zero]
        /\ size' = new
        /\ pc[t] = "host"
    BY <2>0 DEF Cuts
  <2>2. op'[t].kind = "resize" /\ op'[t].new = size' /\ op'[t].old = size
    BY <2>1
  <2>3. \A c \in Cells : c >= size => disk'[c] = Zero
    BY <2>1 DEF TailInv
  <2>4. InCore' = InCore
    BY <1>2, PagesKept DEF PagesSame
  <2>5. \A u \in Threads : ~Working(u)
    BY <2>1, PendingIs DEF Working, Locked
  <2>6. \A p \in InCore : p * PageSize < size
    BY <2>5 DEF TailInv
  <2>7. ResizeOf(t)'
    BY <1>0, <2>2, <2>3, <2>4, <2>6 DEF ResizeOf, DataType
  <2>8. QED
    BY <2>2, <2>7 DEF WriteOf
<1>3. ASSUME CommitWrite(t) PROVE WriteOf(t)' /\ ResizeOf(t)'
  <2>1. /\ Working(t) /\ op[t].kind = "write" /\ UNCHANGED <<disk, size, op>>
        /\ todo'[t] \subseteq todo[t]
    BY <1>3 DEF CommitWrite, Working, TypeInv
  <2>2. InCore' = InCore
    BY <1>3, CommitWritePages DEF Only
  <2>3. WriteOf(t)
    BY DEF WorkInv
  <2>4. WriteOf(t)'
    BY <2>1, <2>2, <2>3 DEF WriteOf
  <2>5. QED
    BY <2>1, <2>4 DEF ResizeOf
<1>4. ASSUME CommitResize(t) PROVE ~Working(t)'
  BY <1>4 DEF CommitResize, Working, TypeInv
<1>5. QED
  BY <1>a, <1>1, <1>2, <1>3, <1>4, WorkKinds, BystanderIdle

\* Every step of a thread keeps writes and truncations right.
LEMMA WorkThread ==
    ASSUME PagerInv, DOMAIN owed = Threads, DataInv, ~HoleWrites, NEW t \in Threads, Step(t) \/ Choice(t)
    PROVE  WorkInv'
<1>1. ASSUME NEW u \in Threads, u # t PROVE WriteOf(u)' /\ ResizeOf(u)'
  BY <1>1, WorkOther DEF PagerInv, DataInv, WorkInv
<1>2. QED
  BY <1>1, WorkSelf DEF WorkInv

----------------------------------------------------------------------------
(* The end of the file *)

\* Every step of a thread keeps the host file zero past its end, and pages within it.
LEMMA TailThread ==
    ASSUME PagerInv, DOMAIN owed = Threads, DataInv, ~HoleWrites, NEW t \in Threads, Step(t) \/ Choice(t)
    PROVE  TailInv'
<1> USE DEF PagerInv, HoldInv, DataInv
<1>0. PageSize \in Nat /\ NumPages \in Nat /\ size \in Nat /\ FileCells \in Nat /\ DataType
      /\ Cells \subseteq Nat /\ Pages \subseteq Nat /\ InCore \subseteq Pages
  BY SizesAssumption, CurrentIs DEF DataType, FileCells, Cells, Pages
<1> DEFINE Zeros == \A c \in Cells : c >= size' => disk'[c] = Zero
           Within == \A p \in InCore' : p * PageSize < size' \/ \E u \in Threads : Cutting(u)'
<1>a. ASSUME Zeros, Within PROVE TailInv'
  BY <1>a DEF TailInv, Cutting
<1>b. \A p \in InCore : p * PageSize < size \/ \E u \in Threads : Cutting(u)
  BY DEF TailInv, Cutting
<1>c. \A u \in Threads : u # t => (Cutting(u)' <=> Cutting(u))
  BY OtherThreads DEF Cutting, Working
<1>1. ASSUME HostWrite(t) PROVE TailInv'
  <2>0. PICK first \in Cells, last \in Cells, v \in Values : Writes(t, first, last, v)
    BY <1>1, WriteEffect
  <2>1. /\ disk' = [c \in Cells |-> IF c \in first .. last THEN v ELSE disk[c]]
        /\ size' = IF last >= size THEN last + 1 ELSE size
        /\ pc[t] = "host" /\ first \in Nat /\ last \in Nat
    BY <1>0, <2>0 DEF Writes
  <2>2. Zeros
    <3>1. ASSUME NEW c \in Cells, c >= size' PROVE c >= size /\ c \notin first .. last
      <4>1. c \in Nat /\ size \in Nat /\ last \in Nat /\ first \in Nat
        BY <1>0, <2>1
      <4>2. size' = IF last >= size THEN last + 1 ELSE size
        BY <2>1
      <4>3. c >= size /\ ~(c <= last)
        BY <3>1, <4>1, <4>2
      <4>4. QED
        BY <4>1, <4>3
    <3>2. QED
      BY <2>1, <3>1 DEF TailInv
  <2>3. \A u \in Threads : ~Working(u)
    BY <2>1, PendingIs DEF Working, Locked
  <2>4. InCore' = InCore
    BY <1>1, PagesKept DEF PagesSame
  <2>5. size' >= size /\ size' \in Nat
    BY <1>0, <2>1
  <2>6. Within
    BY <1>0, <1>b, <2>3, <2>4, <2>5 DEF Cutting
  <2>7. QED
    BY <1>a, <2>2, <2>6
<1>2. ASSUME HostResize(t), pc'[t] = "commit" PROVE TailInv'
  <2>0. PICK new \in 0 .. FileCells : Cuts(t, new)
    BY <1>2, ResizeEffect
  <2>1. /\ op'[t] = [kind |-> "resize", new |-> new, old |-> size]
        /\ disk' = [c \in Cells |-> IF c < new THEN disk[c] ELSE Zero]
        /\ size' = new /\ new \in Nat
    BY <1>0, <2>0 DEF Cuts
  <2>2. Zeros
    <3>1. \A c \in Cells : c >= new => ~(c < new)
      BY <1>0, <2>1
    <3>2. QED
      BY <2>1, <3>1
  <2>3. Cutting(t)'
    BY <1>2, <2>1 DEF Cutting, Working
  <2>4. QED
    BY <1>a, <2>2, <2>3
<1>3. ASSUME CommitWrite(t) PROVE TailInv'
  <2>1. Working(t) /\ op[t].kind = "write" /\ UNCHANGED <<disk, size, op>> /\ pc[t] \in Locked
    BY <1>3 DEF CommitWrite, Working, Locked
  <2>2. InCore' = InCore
    BY <1>3, CommitWritePages DEF Only
  <2>3. \A u \in Threads : ~Cutting(u)
    BY <2>1, PendingIs DEF Cutting
  <2>4. Within
    BY <1>b, <2>1, <2>2, <2>3
  <2>5. QED
    BY <1>a, <2>1, <2>4 DEF TailInv
<1>4. ASSUME CommitResize(t) PROVE TailInv'
  <2>1. UNCHANGED <<disk, size>> /\ op[t].new = size
    BY <1>4 DEF CommitResize, Working, WorkInv, ResizeOf
  <2>2. Within
    BY <1>4, <2>1, CommitResizePages
  <2>3. QED
    BY <1>a, <2>1, <2>2 DEF TailInv
<1>5. ASSUME Bystander(t) PROVE TailInv'
  <2>1. ~Working(t) /\ ~Working(t)' /\ size' = size
    BY <1>5, BystanderIdle
  <2>2. Zeros
    <3>1. CASE WritePage(t)
      <4>1. disk' = [c \in Cells |-> IF c \in {d \in CellsOf(snap.page) : d < size}
                                    THEN snap.bytes[c] ELSE disk[c]]
        BY <3>1 DEF WritePage
      <4>2. QED
        BY <1>0, <2>1, <4>1 DEF TailInv
    <3>2. CASE WritePageFails(t)
      <4>1. \E n : disk' = [c \in Cells |-> IF /\ PageOf(c) = snap.page /\ c < size
                                     /\ c < snap.page * PageSize + n
                                  THEN snap.bytes[c] ELSE disk[c]]
        BY <3>2 DEF WritePageFails
      <4>2. \A c \in Cells : c >= size => ~(c < size)
        BY <1>0
      <4>3. \A c \in Cells : c >= size => disk'[c] = disk[c]
        BY <4>1, <4>2
      <4>4. QED
        BY <2>1, <4>3 DEF TailInv
    <3>3. CASE ~WritePage(t) /\ ~WritePageFails(t)
      <4>1. disk' = disk
        BY <1>5, <3>3 DEF Bystander, Steady, Destroy, CopyDirty, FinishWriteback, InstallPager,
           StartSync, GetPage, Store
      <4>2. QED
        BY <2>1, <4>1 DEF TailInv
    <3>4. QED
      BY <3>1, <3>2, <3>3
  <2>3. \A u \in Threads : Cutting(u) => Cutting(u)'
    BY <1>c, <2>1 DEF Cutting
  <2>4. CASE InCore' \subseteq InCore
    BY <1>a, <1>b, <2>1, <2>2, <2>3, <2>4
  <2>5. ASSUME NEW p \in Pages, GetPage(t, p) PROVE TailInv'
    <3>1. p * PageSize < size /\ InCore' = InCore \union {p}
      BY <2>5, GetPages DEF GetPage
    <3>2. QED
      BY <1>a, <1>b, <2>1, <2>2, <2>3, <3>1
  <2>6. ASSUME Bystander(t), ~\E p \in Pages : GetPage(t, p) PROVE InCore' \subseteq InCore
    <3>1. CASE Destroy(t)
      BY <3>1, DestroyPages DEF InCore
    <3>2. CASE FinishWriteback(t)
      BY <3>2, FinishPages DEF Only
    <3>3. ASSUME NEW c \in Cells, NEW v \in Values, Store(t, c, v) PROVE InCore' = InCore
      BY <3>3, StorePages DEF Only
    <3>4. QED
      BY <2>6, <3>1, <3>2, <3>3, PagesKept DEF Bystander, PagesSame
  <2>7. QED
    BY <1>5, <2>4, <2>5, <2>6
<1>6. QED
  BY <1>1, <1>2, <1>3, <1>4, <1>5, WorkKinds

----------------------------------------------------------------------------
(* The copy of a write-back *)

\* CopyDirty copies a page of the cache in use.
LEMMA CopyEffect ==
    ASSUME HoldInv, SnapInv, NEW t \in Threads, CopyDirty(t), pc'[t] = "syncWrite"
    PROVE  \E p \in todo[t] :
              /\ p \in InCore /\ CurrentPages[p].dirty /\ held[t] = slot
              /\ snap' = [page |-> p, bytes |-> CurrentPages[p].bytes, fresh |-> TRUE]
              /\ todo'[t] = todo[t] \ {p}
              /\ owed' = [u \in Threads |->
                             {IF w[2] = "page" /\ PageOf(w[1]) = p THEN <<w[1], "copied">> ELSE w :
                                 w \in owed[u]}]
<1> USE DEF HoldInv
<1> DEFINE p == Min(todo[t])
<1>1. pc[t] = "syncPage" /\ todo[t] # {} /\ cache[held[t]][p].dirty
  BY DEF CopyDirty, TypeInv
<1>2. /\ snap' = [page |-> p, bytes |-> cache[held[t]][p].bytes, fresh |-> TRUE]
      /\ todo'[t] = todo[t] \ {p}
      /\ owed' = [u \in Threads |->
                     {IF w[2] = "page" /\ PageOf(w[1]) = p THEN <<w[1], "copied">> ELSE w :
                         w \in owed[u]}]
  BY <1>1 DEF CopyDirty, TypeInv
<1>3. held[t] \in Pagers /\ todo[t] \subseteq DOMAIN cache[held[t]]
  BY <1>1 DEF TypeInv, SeatInv, SeatOf, Holding, Syncing, SnapInv, SnapOf
<1>4. todo[t] \in SUBSET Nat
  BY <1>3 DEF TypeInv, Pages
<1>5. p \in todo[t]
  BY <1>1, <1>4, MinMember
<1> HIDE DEF p
<1>6. held[t] = slot /\ slot # None
  BY <1>3, <1>5, SizesAssumption DEF OneCache, Pagers
<1>7. CurrentPages = cache[held[t]] /\ p \in InCore
  BY <1>3, <1>5, <1>6 DEF CurrentPages, InCore
<1>8. QED
  BY <1>1, <1>2, <1>5, <1>6, <1>7

\* The copy of another thread.
LEMMA CopyOther ==
    ASSUME PagerInv, DOMAIN owed = Threads, NEW t \in Threads, Step(t) \/ Choice(t),
           NEW u \in Threads, u # t, CopyOf(u)
    PROVE  CopyOf(u)'
<1> USE DEF PagerInv
<1>0. TypeInv /\ DOMAIN owed = Threads
  BY DEF HoldInv
<1>1. pc'[u] = pc[u]
  BY <1>0, OtherThreads
<1>2. CASE pc[u] \notin {"syncWrite", "syncFinish"}
  BY <1>1, <1>2 DEF CopyOf
<1>3. CASE pc[u] \in {"syncWrite", "syncFinish"}
  <2>1. /\ held[u] = slot /\ slot \in Pagers /\ snap.page \in InCore /\ pc[u] \in Locked
        /\ snap = [page |-> snap.page, bytes |-> snap.bytes, fresh |-> snap.fresh]
    BY <1>3, CopiedPage
  <2>2. slot # None
    BY <2>1, SizesAssumption DEF Pagers
  <2>3. ASSUME UNCHANGED <<disk, size, snap>>, CurrentPages'[snap.page] = CurrentPages[snap.page]
        PROVE  CopyOf(u)'
    BY <1>1, <2>3 DEF CopyOf
  <2>4. CASE Steady(t) \/ \E kind \in {"fsync", "fdatasync"} : StartSync(t, kind)
    <3>1. UNCHANGED <<disk, size, snap>> /\ PagesSame
      BY <2>4, PagesKept DEF Steady, StartSync
    <3>2. QED
      BY <2>1, <2>3, <3>1 DEF PagesSame
  <2>5. CASE Destroy(t)
    <3>1. held[t] # slot
      BY <2>1, <2>2, <2>5, OneEnder DEF Destroy, Ending, Ends
    <3>2. CurrentPages' = CurrentPages /\ UNCHANGED <<disk, size, snap>>
      BY <2>5, <3>1, DestroyPages DEF Destroy
    <3>3. QED
      BY <2>3, <3>2
  <2>6. ~InstallPager(t)
    BY <2>2 DEF InstallPager
  <2>7. ASSUME NEW c \in Cells, NEW v \in Values, Store(t, c, v) PROVE CopyOf(u)'
    <3>1. UNCHANGED <<disk, size>> /\ \A q \in InCore : q # PageOf(c) => CurrentPages'[q] = CurrentPages[q]
      BY <2>7, StorePages DEF Only
    <3>2. CASE snap.page # PageOf(c)
      BY <2>1, <2>3, <2>7, <3>1, <3>2 DEF Store
    <3>3. CASE snap.page = PageOf(c)
      <4>1. snap # None
        <5>1. snap.page \in Pages
          BY <1>0, <2>1, CurrentIs DEF HoldInv
        <5>2. snap.bytes \in [CellsOf(snap.page) -> Values] /\ snap.fresh \in BOOLEAN
          BY <1>3 DEF CopyOf
        <5>3. snap.bytes \in UNION {[CellsOf(p) -> Values] : p \in Pages}
          BY <5>1, <5>2
        <5>4. snap \in Copies
          BY <2>1, <5>1, <5>2, <5>3 DEF Copies
        <5>5. QED
          BY <5>4, CopyAssumption
      <4>2. snap' = [snap EXCEPT !.fresh = FALSE]
        BY <2>7, <3>3, <4>1 DEF Store
      <4>3. snap'.page = snap.page /\ snap'.bytes = snap.bytes /\ snap'.fresh = FALSE
        BY <2>1, <4>2
      <4>4. QED
        BY <1>1, <4>3 DEF CopyOf
    <3>4. QED
      BY <3>2, <3>3
  <2>8. QED
    BY <1>0, <2>1, <2>4, <2>5, <2>6, <2>7, OthersSteady
<1>4. QED
  BY <1>2, <1>3

\* The copy of the thread itself.
LEMMA CopySelf ==
    ASSUME PagerInv, DOMAIN owed = Threads, DataInv, NEW t \in Threads, Step(t) \/ Choice(t)
    PROVE  CopyOf(t)'
<1> USE DEF PagerInv, DataInv
<1>0. TypeInv
  BY DEF HoldInv
<1>1. ASSUME pc'[t] \notin {"syncWrite", "syncFinish"} PROVE CopyOf(t)'
  BY <1>1 DEF CopyOf
<1>2. ASSUME CopyDirty(t), pc'[t] = "syncWrite" PROVE CopyOf(t)'
  <2>1. PICK p \in todo[t] :
              /\ p \in InCore
              /\ snap' = [page |-> p, bytes |-> CurrentPages[p].bytes, fresh |-> TRUE]
    BY <1>2, CopyEffect
  <2>2. snap'.page = p /\ snap'.bytes = CurrentPages[p].bytes /\ snap'.fresh = TRUE
    BY <2>1
  <2>3. CurrentPages'[p] = CurrentPages[p]
    BY <1>2, <2>1, PagesKept DEF PagesSame
  <2>4. CurrentPages[p].bytes \in [CellsOf(p) -> Values]
    BY <2>1 DEF DataType, PageRecs
  <2>5. QED
    BY <1>2, <2>2, <2>3, <2>4 DEF CopyOf
<1>3. ASSUME CopyDirty(t), pc'[t] # "syncWrite" PROVE pc'[t] \notin {"syncWrite", "syncFinish"}
  BY <1>0, <1>3 DEF CopyDirty, TypeInv
<1>4. ASSUME WritePage(t) PROVE CopyOf(t)'
  <2>1. pc[t] = "syncWrite" /\ pc'[t] = "syncFinish" /\ UNCHANGED <<size, snap>>
    BY <1>0, <1>4 DEF WritePage, TypeInv
  <2>2. disk' = [c \in Cells |-> IF c \in {d \in CellsOf(snap.page) : d < size}
                                 THEN snap.bytes[c] ELSE disk[c]]
    BY <1>4 DEF WritePage
  <2>3. snap.page \in InCore
    BY <2>1, CopiedPage
  <2>4. CurrentPages'[snap.page] = CurrentPages[snap.page]
    BY <1>4, <2>3, PagesKept DEF PagesSame
  <2>5. /\ snap.bytes \in [CellsOf(snap.page) -> Values] /\ snap.fresh \in BOOLEAN
        /\ snap.fresh => CurrentPages[snap.page].bytes = snap.bytes
    BY <2>1 DEF CopyInv, CopyOf
  <2>6. \A c \in CellsOf(snap.page) : c < size => disk'[c] = snap.bytes[c]
    BY <2>2 DEF CellsOf
  <2>7. QED
    BY <2>1, <2>4, <2>5, <2>6 DEF CopyOf
<1>5. ASSUME Changes(t), ~CopyDirty(t), ~WritePage(t) PROVE pc'[t] \notin {"syncWrite", "syncFinish"}
  <2>1. /\ DOMAIN pc = Threads /\ after[t] \in {"idle", "synced", "hostSync"}
    BY <1>0 DEF TypeInv
  <2>2. CASE \/ HostWrite(t) \/ HostResize(t) \/ CommitWrite(t) \/ CommitResize(t) \/ Destroy(t)
    BY <2>1, <2>2 DEF HostWrite, HostResize, CommitWrite, CommitResize, Destroy
  <2>3. CASE \/ WritePageFails(t) \/ FinishWriteback(t) \/ InstallPager(t)
             \/ \E kind \in {"fsync", "fdatasync"} : StartSync(t, kind)
    BY <2>1, <2>3 DEF WritePageFails, SyncReturn, FinishWriteback, InstallPager, DropCandidate, StartSync
  <2>4. CASE \/ \E p \in Pages : GetPage(t, p)
             \/ \E c \in Cells, v \in Values : Store(t, c, v)
    BY <2>1, <2>4 DEF GetPage, Store
  <2>5. QED
    BY <1>5, <2>2, <2>3, <2>4 DEF Changes
<1>6. QED
  BY <1>0, <1>1, <1>2, <1>3, <1>4, <1>5, DataKinds DEF Steady

\* Every step of a thread keeps the copies right.
LEMMA CopyThread ==
    ASSUME PagerInv, DOMAIN owed = Threads, DataInv, NEW t \in Threads, Step(t) \/ Choice(t)
    PROVE  CopyInv'
<1>1. ASSUME NEW u \in Threads, u # t PROVE CopyOf(u)'
  BY <1>1, CopyOther DEF DataInv, CopyInv
<1>2. QED
  BY <1>1, CopySelf DEF CopyInv

----------------------------------------------------------------------------
(* Cells that wait for their page *)

\* PendingIs after the step.
LEMMA PendingIsNext ==
    HoldInv' /\ LockInv' /\ HolderInv' =>
       (/\ ioLock = None => \A u \in Threads : ~Working(u)
        /\ \A t \in Threads :
              /\ pc[t] \in Locked => \A u \in Threads : u # t => ~Working(u)
              /\ pc[t] \in {"host", "commit"} => Resident(t) = InCore)'
BY PendingIs, PTL

\* Which cells wait.
LEMMA PendingCells ==
    ASSUME HoldInv, LockInv, HolderInv, NEW c \in Cells
    PROVE  /\ Pending(c) => \E t \in Threads : Working(t) /\ c \in PendingOf(t)
           /\ \A t \in Threads : Working(t) =>
                 (c \in PendingOf(t) <=>
                    /\ PageOf(c) \in InCore
                    /\ op[t].kind = "write" => c \in op[t].first .. op[t].last /\ PageOf(c) \in todo[t]
                    /\ op[t].kind # "write" => ~(c < op[t].old <=> c < op[t].new))
<1>1. Pending(c) => \E t \in Threads : Working(t) /\ c \in PendingOf(t)
  BY NotPending DEF Pending
<1>2. ASSUME NEW t \in Threads, Working(t)
      PROVE  c \in PendingOf(t) <=>
                    /\ PageOf(c) \in InCore
                    /\ op[t].kind = "write" => c \in op[t].first .. op[t].last /\ PageOf(c) \in todo[t]
                    /\ op[t].kind # "write" => ~(c < op[t].old <=> c < op[t].new)
  <2>1. Resident(t) = InCore /\ pc[t] = "commit" /\ op[t].kind # "read"
    BY <1>2, PendingIs DEF Working
  <2>2. QED
    BY <2>1 DEF PendingOf
<1>3. QED
  BY <1>1, <1>2

\* The same after the step.
LEMMA PendingCellsNext ==
    ASSUME HoldInv', LockInv', HolderInv', NEW c \in Cells
    PROVE  /\ Pending(c)' => \E t \in Threads : Working(t)' /\ c \in PendingOf(t)'
           /\ \A t \in Threads : Working(t)' =>
                 (c \in PendingOf(t)' <=>
                    /\ PageOf(c) \in InCore'
                    /\ op'[t].kind = "write" => c \in op'[t].first .. op'[t].last /\ PageOf(c) \in todo'[t]
                    /\ op'[t].kind # "write" => ~(c < op'[t].old <=> c < op'[t].new))
<1>0. (\A t \in Threads : ~Working(t) => PendingOf(t) = {})'
  BY NotPendingNext
<1>1. Pending(c)' => \E t \in Threads : Working(t)' /\ c \in PendingOf(t)'
  BY <1>0 DEF Pending
<1>2. ASSUME NEW t \in Threads, Working(t)'
      PROVE  c \in PendingOf(t)' <=>
                    /\ PageOf(c) \in InCore'
                    /\ op'[t].kind = "write" => c \in op'[t].first .. op'[t].last /\ PageOf(c) \in todo'[t]
                    /\ op'[t].kind # "write" => ~(c < op'[t].old <=> c < op'[t].new)
  <2>1. Resident(t)' = InCore' /\ pc'[t] = "commit" /\ op'[t].kind # "read"
    BY <1>2, PendingIsNext DEF Working
  <2>2. QED
    BY <2>1 DEF PendingOf
<1>3. QED
  BY <1>1, <1>2

\* An operation that works keeps its pages resident.
LEMMA CommitCore ==
    ASSUME PagerInv, DOMAIN owed = Threads, HolderInv, NEW t \in Threads, Step(t) \/ Choice(t),
           NEW u \in Threads, u # t, pc[u] = "commit"
    PROVE  InCore' = InCore /\ size' = size
<1> USE DEF PagerInv
<1>0. TypeInv /\ pc[u] \in Locked
  BY DEF HoldInv, Locked
<1>1. ASSUME Destroy(t) PROVE InCore' = InCore /\ size' = size
  <2>1. CASE held[t] # slot
    BY <1>1, <2>1, DestroyPages DEF InCore, Destroy
  <2>2. CASE held[t] = slot
    <3>1. InCore' = {} /\ slot \in Pagers /\ slot # None
      BY <1>1, <2>2, DestroyPages, SizesAssumption DEF Pagers
    <3>2. held[u] # slot
      BY <1>1, <2>2, <3>1, OneEnder DEF Destroy, Ending, Ends
    <3>3. QED
      BY <1>1, <3>1, <3>2 DEF HolderInv, HolderOf, Destroy
  <2>3. QED
    BY <2>1, <2>2
<1>2. ASSUME NEW d \in Cells, NEW v \in Values, Store(t, d, v) PROVE InCore' = InCore /\ size' = size
  BY <1>2, StorePages DEF Only
<1>3. ASSUME \/ Steady(t) \/ InstallPager(t)
             \/ \E kind \in {"fsync", "fdatasync"} : StartSync(t, kind)
      PROVE  InCore' = InCore /\ size' = size
  <2>1. size' = size
    BY <1>3 DEF Steady, InstallPager, StartSync
  <2>2. QED
    BY <1>3, <2>1, PagesKept DEF PagesSame
<1>4. QED
  BY <1>0, <1>1, <1>2, <1>3, OthersSteady

\* A bystander leaves them alone.
LEMMA PendingKept ==
    ASSUME PagerInv, PagerInv', DOMAIN owed = Threads, HolderInv, HolderInv',
           NEW t \in Threads, Step(t) \/ Choice(t), Bystander(t), NEW c \in Cells
    PROVE  /\ Pending(c)' <=> Pending(c)
           /\ \A u \in Threads : c \in PendingOf(u)' <=> c \in PendingOf(u)
<1> USE DEF PagerInv
<1>0. TypeInv
  BY DEF HoldInv
<1>1. ~Working(t) /\ ~Working(t)'
  BY <1>0, BystanderIdle
<1>2. ASSUME NEW u \in Threads, u # t
      PROVE  /\ Working(u)' <=> Working(u)
             /\ Working(u) => (c \in PendingOf(u)' <=> c \in PendingOf(u))
  <2>1. pc'[u] = pc[u] /\ op'[u] = op[u] /\ held'[u] = held[u] /\ todo'[u] = todo[u]
    BY <1>0, <1>2, OtherThreads
  <2>2. Working(u)' <=> Working(u)
    BY <2>1 DEF Working
  <2>3. Working(u) => InCore' = InCore
    BY <1>2, CommitCore DEF Working
  <2>4. QED
    BY <2>1, <2>2, <2>3, PendingCells, PendingCellsNext
<1>3. (\A u \in Threads : ~Working(u) => PendingOf(u) = {})'
  BY NotPendingNext
<1>4. \A u \in Threads : c \in PendingOf(u)' <=> c \in PendingOf(u)
  BY <1>1, <1>2, <1>3, NotPending
<1>5. QED
  BY <1>4 DEF Pending

----------------------------------------------------------------------------
(* Clean pages *)

\* CleanInv for one cell.
CleanCell(c) ==
    c < size /\ PageOf(c) \in InCore /\ ~Pending(c) /\ ~CurrentPages[PageOf(c)].dirty
       => CurrentPages[PageOf(c)].bytes[c] = disk[c]

\* The steps of bystanders.
LEMMA CleanBystander ==
    ASSUME PagerInv, PagerInv', DOMAIN owed = Threads, DataInv, HolderInv',
           NEW t \in Threads, Step(t) \/ Choice(t), Bystander(t), NEW c \in Cells
    PROVE  CleanCell(c)'
<1> USE DEF PagerInv
<1> DEFINE p == PageOf(c)
<1>0. TypeInv /\ size' = size /\ (Pending(c)' <=> Pending(c)) /\ CleanCell(c)
      /\ DataType /\ c \in CellsOf(p)
  BY BystanderIdle, PendingKept, CellPage DEF HoldInv, DataInv, CleanInv, CleanCell
<1>1. ASSUME disk'[c] = disk[c], InCore' \subseteq InCore,
             p \in InCore' => CurrentPages'[p] = CurrentPages[p]
      PROVE  CleanCell(c)'
  BY <1>0, <1>1 DEF CleanCell
<1>2. ASSUME PagesSame, disk'[c] = disk[c] PROVE CleanCell(c)'
  BY <1>1, <1>2 DEF PagesSame
<1>3. ASSUME WritePage(t) \/ WritePageFails(t) PROVE CleanCell(c)'
  <2>1. PagesSame
    BY <1>3, PagesKept
  <2>2. pc[t] = "syncWrite"
    BY <1>3 DEF WritePage, WritePageFails
  <2>3. snap.page \in InCore /\ CurrentPages[snap.page].dirty
    BY <2>2, CopiedPage
  <2>4. CASE p = snap.page
    BY <2>1, <2>3, <2>4 DEF CleanCell, PagesSame
  <2>5. CASE p # snap.page
    <3>1. c \notin CellsOf(snap.page)
      BY <2>5 DEF CellsOf
    <3>2. disk'[c] = disk[c]
      BY <1>3, <2>5, <3>1 DEF WritePage, WritePageFails
    <3>3. QED
      BY <1>2, <2>1, <3>2
  <2>6. QED
    BY <2>4, <2>5
<1>4. ASSUME FinishWriteback(t) PROVE CleanCell(c)'
  <2>1. pc[t] = "syncFinish" /\ disk' = disk
    BY <1>4 DEF FinishWriteback
  <2>2. snap.page \in InCore /\ CurrentPages[snap.page].dirty
    BY <2>1, CopiedPage
  <2>3. Only(snap.page, Finished(CurrentPages[snap.page]))
    BY <1>4, FinishPages
  <2>4. CASE p # snap.page
    BY <1>1, <2>1, <2>3, <2>4 DEF Only
  <2>5. CASE p = snap.page
    <3>1. CurrentPages'[p] = Finished(CurrentPages[p]) /\ CurrentPages[p] \in PageRecs(p)
      BY <1>0, <2>2, <2>3, <2>5 DEF Only, DataType
    <3>2. /\ CurrentPages'[p].bytes = CurrentPages[p].bytes
          /\ CurrentPages'[p].dirty <=> CurrentPages[p].dirty /\ ~snap.fresh
      BY <3>1 DEF Finished, PageRecs
    <3>3. snap.fresh => (c < size => CurrentPages[p].bytes[c] = disk[c])
      BY <1>0, <2>1, <2>5 DEF DataInv, CopyInv, CopyOf
    <3>4. QED
      BY <1>0, <2>1, <2>2, <2>5, <3>2, <3>3 DEF CleanCell
  <2>6. QED
    BY <2>4, <2>5
<1>5. ASSUME NEW q \in Pages, GetPage(t, q) PROVE CleanCell(c)'
  <2>1. /\ InCore' = InCore \union {q}
        /\ \A r \in InCore' : CurrentPages'[r] = IF r = q THEN Loaded(q) ELSE CurrentPages[r]
    BY <1>5, GetPages
  <2>2. disk' = disk
    BY <1>5 DEF GetPage
  <2>3. CASE p = q
    <3>1. CurrentPages'[p] = Loaded(p)
      BY <2>1, <2>3
    <3>2. c < size => CurrentPages'[p].bytes[c] = disk[c]
      BY <1>0, <3>1 DEF Loaded
    <3>3. QED
      BY <1>0, <2>2, <3>2 DEF CleanCell
  <2>4. CASE p # q
    BY <1>0, <2>1, <2>2, <2>4 DEF CleanCell
  <2>5. QED
    BY <2>3, <2>4
<1>6. ASSUME NEW d \in Cells, NEW v \in Values, Store(t, d, v) PROVE CleanCell(c)'
  <2>1. Only(PageOf(d), [bytes |-> [CurrentPages[PageOf(d)].bytes EXCEPT ![d] = v], dirty |-> TRUE])
        /\ disk' = disk
    BY <1>6, StorePages
  <2>2. CASE p # PageOf(d)
    BY <1>1, <2>1, <2>2 DEF Only
  <2>3. CASE p = PageOf(d)
    BY <2>1, <2>3 DEF Only, CleanCell
  <2>4. QED
    BY <2>2, <2>3
<1>7. ASSUME Destroy(t) PROVE CleanCell(c)'
  <2>1. disk' = disk /\ (CurrentPages' = CurrentPages \/ InCore' = {})
    BY <1>7, DestroyPages DEF Destroy
  <2>2. QED
    BY <1>1, <2>1 DEF InCore
<1>8. ASSUME \/ Steady(t) \/ CopyDirty(t) \/ InstallPager(t)
             \/ \E kind \in {"fsync", "fdatasync"} : StartSync(t, kind)
      PROVE  CleanCell(c)'
  <2>1. disk' = disk
    BY <1>8 DEF Steady, CopyDirty, InstallPager, StartSync
  <2>2. QED
    BY <1>2, <1>8, <2>1, PagesKept
<1>9. QED
  BY <1>3, <1>4, <1>5, <1>6, <1>7, <1>8 DEF Bystander

\* The steps of writes.
LEMMA CleanWrite ==
    ASSUME PagerInv, PagerInv', DOMAIN owed = Threads, DataInv, HolderInv', ~HoleWrites,
           NEW t \in Threads, HostWrite(t) \/ CommitWrite(t), NEW c \in Cells
    PROVE  CleanCell(c)'
<1> USE DEF PagerInv
<1> DEFINE p == PageOf(c)
<1>0. TypeInv /\ HolderInv /\ CleanCell(c) /\ DataType /\ c \in CellsOf(p) /\ c \in Nat /\ size \in Nat
      /\ (Pending(c) => \E u \in Threads : Working(u) /\ c \in PendingOf(u))
  BY CellPage, PendingCells DEF HoldInv, DataInv, CleanInv, CleanCell, DataType, Cells
<1>1. ASSUME HostWrite(t) PROVE CleanCell(c)'
  <2>0. PICK first \in Cells, last \in Cells, v \in Values : Writes(t, first, last, v)
    BY <1>0, <1>1, WriteEffect
  <2>1. PagesSame
    BY <1>1, PagesKept
  <2>2. ~Pending(c)
    BY <1>0, <2>0, PendingIs DEF Writes, Locked, Working
  <2>3. CASE c \in first .. last
    <3>1. /\ Working(t)' /\ op'[t].kind = "write" /\ op'[t].first = first /\ op'[t].last = last
          /\ p \in todo'[t]
      BY <2>0, <2>3 DEF Writes, Working
    <3>2. p \in InCore' => Pending(c)'
      BY <2>3, <3>1, PendingCellsNext DEF Pending
    <3>3. QED
      BY <3>2 DEF CleanCell
  <2>4. CASE c \notin first .. last
    <3>1. first \in Nat /\ last \in Nat
      BY DEF Cells
    <3>2. disk'[c] = disk[c] /\ first <= size
      BY <2>0, <2>4 DEF Writes
    <3>3. size' = IF last >= size THEN last + 1 ELSE size
      BY <2>0 DEF Writes
    <3>4. c < size' => c < size
      BY <1>0, <2>4, <3>1, <3>2, <3>3
    <3>5. QED
      BY <1>0, <2>1, <2>2, <3>2, <3>4 DEF CleanCell, PagesSame
  <2>5. QED
    BY <2>3, <2>4
<1>2. ASSUME CommitWrite(t) PROVE CleanCell(c)'
  <2> DEFINE q == Min(todo[t])
             r == Merged(CurrentPages[q], q, op[t].first, op[t].last, op[t].value)
  <2>1. Only(q, r)
    BY <1>0, <1>2, CommitWritePages
  <2>2. /\ Working(t) /\ op[t].kind = "write" /\ UNCHANGED <<disk, size, op>> /\ pc[t] \in Locked
        /\ todo'[t] = todo[t] \ {q} /\ (todo'[t] # {} => pc'[t] = "commit")
    BY <1>0, <1>2 DEF CommitWrite, Working, Locked, TypeInv
  <2> HIDE DEF q
  <2>3. p \in InCore /\ c \in op[t].first .. op[t].last => disk[c] = op[t].value
    BY <2>2 DEF DataInv, WorkInv, WriteOf
  <2>4. Pending(c) <=> p \in InCore /\ c \in op[t].first .. op[t].last /\ p \in todo[t]
    BY <1>0, <2>2, PendingCells, PendingIs DEF Pending
  <2>5. CASE p = q
    <3> SUFFICES ASSUME p \in InCore', ~CurrentPages'[p].dirty, c < size PROVE CurrentPages'[p].bytes[c] = disk[c]
      BY <2>2 DEF CleanCell
    <3>1. CurrentPages'[p] = r /\ p \in InCore
      BY <2>1, <2>5 DEF Only
    <3>2. /\ r.bytes[c] = IF c \in op[t].first .. op[t].last THEN op[t].value ELSE CurrentPages[p].bytes[c]
          /\ r.dirty <=> CurrentPages[p].dirty /\ ~(CellsOf(p) \subseteq op[t].first .. op[t].last)
      BY <1>0, <2>5 DEF Merged
    <3>3. CASE c \in op[t].first .. op[t].last
      BY <2>3, <3>1, <3>2, <3>3
    <3>4. CASE c \notin op[t].first .. op[t].last
      BY <1>0, <2>4, <3>1, <3>2, <3>4 DEF CleanCell
    <3>5. QED
      BY <3>3, <3>4
  <2>6. CASE p # q
    <3>1. ASSUME Pending(c) PROVE Pending(c)'
      <4>1. p \in InCore /\ c \in op[t].first .. op[t].last /\ p \in todo'[t]
        BY <2>2, <2>4, <2>6, <3>1
      <4>2. Working(t)' /\ op'[t] = op[t] /\ InCore' = InCore
        BY <2>1, <2>2, <4>1 DEF Working, Only
      <4>3. QED
        BY <2>2, <4>1, <4>2, PendingCellsNext DEF Pending
    <3>2. InCore' = InCore /\ (p \in InCore => CurrentPages'[p] = CurrentPages[p])
      BY <2>1, <2>6 DEF Only
    <3>3. QED
      BY <1>0, <2>2, <3>1, <3>2 DEF CleanCell
  <2>7. QED
    BY <2>5, <2>6
<1>3. QED
  BY <1>1, <1>2

\* The steps of truncations.
LEMMA CleanResize ==
    ASSUME PagerInv, PagerInv', DOMAIN owed = Threads, DataInv, HolderInv',
           NEW t \in Threads, (HostResize(t) /\ pc'[t] = "commit") \/ CommitResize(t), NEW c \in Cells
    PROVE  CleanCell(c)'
<1> USE DEF PagerInv
<1> DEFINE p == PageOf(c)
<1>0. TypeInv /\ HolderInv /\ CleanCell(c) /\ DataType /\ c \in CellsOf(p) /\ c \in Nat /\ size \in Nat
      /\ (Pending(c) => \E u \in Threads : Working(u) /\ c \in PendingOf(u))
  BY CellPage, PendingCells DEF HoldInv, DataInv, CleanInv, CleanCell, DataType, Cells
<1>1. ASSUME HostResize(t), pc'[t] = "commit" PROVE CleanCell(c)'
  <2>0. PICK new \in 0 .. FileCells : Cuts(t, new)
    BY <1>0, <1>1, ResizeEffect
  <2>1. PagesSame
    BY <1>1, PagesKept
  <2>2. ~Pending(c)
    BY <1>0, <2>0, PendingIs DEF Cuts, Locked, Working
  <2> SUFFICES ASSUME c < size', p \in InCore', ~Pending(c)', ~CurrentPages'[p].dirty
               PROVE  CurrentPages'[p].bytes[c] = disk'[c]
    BY DEF CleanCell
  <2>3. op'[t].kind = "resize" /\ op'[t].old = size /\ op'[t].new = size' /\ size' = new
    BY <2>0 DEF Cuts
  <2>4. Working(t)'
    BY <1>1, <2>3 DEF Working
  <2>5. c < size
    BY <2>3, <2>4, PendingCellsNext DEF Pending
  <2>6. disk'[c] = disk[c]
    BY <2>0, <2>3 DEF Cuts
  <2>7. QED
    BY <1>0, <2>1, <2>2, <2>5, <2>6 DEF CleanCell, PagesSame
<1>2. ASSUME CommitResize(t) PROVE CleanCell(c)'
  <2>1. /\ Working(t) /\ op[t].kind = "resize" /\ UNCHANGED <<disk, size>> /\ pc[t] \in Locked
    BY <1>2 DEF CommitResize, Working, Locked
  <2>2. /\ op[t].old \in Nat /\ op[t].new = size
        /\ \A d \in Cells : d >= op[t].old /\ PageOf(d) \in InCore => disk[d] = Zero
        /\ \A q \in InCore : q * PageSize < op[t].old
    <3>1. FileCells \in Nat
      BY SizesAssumption DEF FileCells
    <3>2. QED
      BY <2>1, <3>1 DEF DataInv, WorkInv, ResizeOf
  <2> SUFFICES ASSUME c < size, p \in InCore', ~CurrentPages'[p].dirty
               PROVE  CurrentPages'[p].bytes[c] = disk[c]
    BY <2>1 DEF CleanCell
  <2>3. p \in InCore /\ CurrentPages'[p] = Resized(CurrentPages[p], p, op[t].old, op[t].new)
    BY <1>0, <1>2, CommitResizePages
  <2> DEFINE cut == {d \in CellsOf(p) :
                  \/ /\ op[t].new > op[t].old /\ op[t].old % PageSize # 0 /\ PageOf(op[t].old) = p
                     /\ d >= op[t].old /\ d < op[t].new
                  \/ op[t].new % PageSize # 0 /\ PageOf(op[t].new) = p /\ d >= op[t].new}
  <2>4. /\ CurrentPages'[p].bytes[c] = IF c \in cut THEN Zero ELSE CurrentPages[p].bytes[c]
        /\ CurrentPages'[p].dirty = CurrentPages[p].dirty
    BY <1>0, <2>3 DEF Resized
  <2>5. CASE c >= op[t].old
    <3>1. PageOf(op[t].old) = p /\ op[t].old % PageSize # 0
      BY <2>2, <2>3, <2>5, TailPage
    <3>2. op[t].new > op[t].old /\ c < op[t].new
      BY <1>0, <2>2, <2>5
    <3>3. c \in cut
      BY <1>0, <2>5, <3>1, <3>2
    <3>4. disk[c] = Zero
      BY <2>2, <2>3, <2>5
    <3>5. QED
      BY <2>4, <3>3, <3>4
  <2>6. CASE ~(c >= op[t].old)
    <3>1. c < op[t].old /\ ~(c >= op[t].new)
      BY <1>0, <2>2, <2>6
    <3>2. c \notin cut
      BY <2>6, <3>1
    <3>3. ~Pending(c)
      <4>1. c \notin PendingOf(t)
        BY <1>0, <2>1, <2>2, <3>1, PendingCells
      <4>2. QED
        BY <1>0, <2>1, <4>1, PendingIs
    <3>4. QED
      BY <1>0, <2>3, <2>4, <3>2, <3>3 DEF CleanCell
  <2>7. QED
    BY <2>5, <2>6
<1>3. QED
  BY <1>1, <1>2

\* Every step of a thread keeps the contents right.
LEMMA DataThread ==
    ASSUME PagerInv, PagerInv', DOMAIN owed = Threads, DataInv, ~HoleWrites,
           NEW t \in Threads, Step(t) \/ Choice(t)
    PROVE  DataInv'
<1>0. HoldInv /\ TypeInv /\ LockInv /\ HolderInv /\ DataType /\ CopyInv
  BY DEF PagerInv, HoldInv, DataInv
<1>1. DataType'
  BY <1>0, FileTypes, PageTypes DEF DataType
<1>2. HolderInv'
  BY <1>0, HolderThread
<1>3. WorkInv' /\ TailInv' /\ CopyInv'
  BY WorkThread, TailThread, CopyThread
<1>4. CleanInv'
  <2>1. ASSUME NEW c \in Cells PROVE CleanCell(c)'
    BY <1>0, <1>2, WorkKinds, CleanBystander, CleanWrite, CleanResize
  <2>2. QED
    BY <2>1 DEF CleanInv, CleanCell
<1>5. QED
  BY <1>1, <1>2, <1>3, <1>4 DEF DataInv

\* Stores of i386 processes into the host file come when there is no pager.
LEMMA DataHostStore ==
    ASSUME PagerInv, DataInv, NEW c \in Cells, NEW v \in Values, HostStore(c, v)
    PROVE  DataInv'
<1> USE DEF DataInv
<1>1. slot = None /\ c < size /\ disk' = [disk EXCEPT ![c] = v]
  BY DEF HostStore, PagerInv, HoldInv, OneCache
<1>2. UNCHANGED <<size, slot, cache, pc, op, held, todo, snap>>
  BY DEF HostStore
<1>3. InCore = {} /\ InCore' = {} /\ CurrentPages' = CurrentPages
  BY <1>1, <1>2 DEF InCore, CurrentPages, NoCache
<1>4. DataType'
  BY <1>1, <1>2, <1>3 DEF DataType
<1>5. HolderInv'
  BY <1>2, <1>3 DEF HolderInv, HolderOf
<1>6. WorkInv'
  <2>1. ASSUME NEW u \in Threads PROVE WriteOf(u)' /\ ResizeOf(u)'
    <3>1. WriteOf(u) /\ ResizeOf(u) /\ (Working(u)' <=> Working(u))
      BY <1>2 DEF WorkInv, Working
    <3>2. WriteOf(u)'
      BY <1>2, <1>3, <3>1 DEF WriteOf
    <3>3. ResizeOf(u)'
      BY <1>2, <1>3, <3>1 DEF ResizeOf
    <3>4. QED
      BY <3>2, <3>3
  <2>2. QED
    BY <2>1 DEF WorkInv
<1>7. CopyInv'
  <2>1. ASSUME NEW u \in Threads PROVE pc[u] \notin {"syncWrite", "syncFinish"}
    BY <1>3, CopiedPage DEF PagerInv
  <2>2. QED
    BY <1>2, <2>1 DEF CopyInv, CopyOf
<1>8. TailInv'
  <2>1. \A d \in Cells : d >= size => d # c
    BY <1>1 DEF Cells, DataType
  <2>2. \A d \in Cells : d >= size' => disk'[d] = Zero
    BY <1>1, <1>2, <2>1 DEF TailInv, DataType
  <2>3. QED
    BY <1>3, <2>2 DEF TailInv
<1>9. CleanInv'
  BY <1>3 DEF CleanInv
<1>10. QED
  BY <1>4, <1>5, <1>6, <1>7, <1>8, <1>9

\* Steps that touch none of it.
LEMMA DataUnchanged ==
    ASSUME DataInv, UNCHANGED <<disk, size, slot, cache, pc, op, held, todo, snap>>
    PROVE  DataInv'
<1> USE DEF DataInv
<1>1. CurrentPages' = CurrentPages /\ InCore' = InCore
  BY DEF CurrentPages, InCore
<1>2. \A u \in Threads : (Working(u)' <=> Working(u)) /\ PendingOf(u)' = PendingOf(u)
  BY DEF Working, PendingOf, Resident
<1>3. DataType' /\ HolderInv' /\ CopyInv'
  BY <1>1 DEF DataType, HolderInv, HolderOf, CopyInv, CopyOf
<1>4. WorkInv'
  BY <1>1, <1>2 DEF WorkInv, WriteOf, ResizeOf
<1>5. TailInv' /\ CleanInv'
  BY <1>1, <1>2 DEF TailInv, CleanInv, Pending
<1>6. QED
  BY <1>3, <1>4, <1>5

\* The contents at the start.
LEMMA DataInit == Init => DataInv
<1> SUFFICES ASSUME Init PROVE DataInv
  OBVIOUS
<1>1. PICK v \in Values \ {Zero} : disk = [c \in Cells |-> IF c < InitSize THEN v ELSE Zero]
  BY DEF Init
<1>2. /\ slot = None /\ size = InitSize /\ snap = None
      /\ pc = [t \in Threads |-> "idle"]
  BY DEF Init
<1>3. InCore = {}
  BY <1>2 DEF InCore, CurrentPages, NoCache
<1>4. Zero \in Values /\ InitSize \in 0 .. FileCells /\ Cells \subseteq Nat /\ FileCells \in Nat
  BY SizesAssumption DEF FileCells, Cells
<1>5. DataType
  BY <1>1, <1>2, <1>3, <1>4 DEF DataType
<1>6. HolderInv /\ WorkInv /\ CopyInv
  BY <1>2 DEF HolderInv, HolderOf, WorkInv, WriteOf, ResizeOf, Working, CopyInv, CopyOf, Syncing
<1>7. TailInv
  <2>1. \A c \in Cells : c >= size => ~(c < InitSize)
    BY <1>2, <1>4
  <2>2. QED
    BY <1>1, <1>3, <2>1 DEF TailInv
<1>8. CleanInv
  BY <1>3 DEF CleanInv
<1>9. QED
  BY <1>5, <1>6, <1>7, <1>8 DEF DataInv

----------------------------------------------------------------------------
(* What an fsync owes *)

\* The write-back of page p has reached the host file and will leave the page clean.
Finishing(p) == \E x \in Threads : pc[x] = "syncFinish" /\ snap.fresh /\ snap.page = p

\* The value of cell c is in a dirty page, and nothing is about to make the page clean
\* without writing it.
InPage(c) ==
    /\ c \in Cells /\ c < size
    /\ PageOf(c) \in InCore /\ CurrentPages[PageOf(c)].dirty
    /\ ~Pending(c) /\ ~Finishing(PageOf(c))

\* What has not reached the host file can still be found.
OwedOf(t) == \A w \in owed[t] : w[2] # "disk" => w[2] \in {"page", "copied"} /\ InPage(w[1])

\* A drain has the dirty pages ahead of it; at its end there are none.
DrainOf(t) ==
    /\ pc[t] = "syncHost" => todo[t] = {}
    /\ held[t] = slot /\ (pc[t] = "dead" \/ (pc[t] \in Syncing /\ op[t].by = "drain")) =>
          /\ pc[t] \in {"syncWrite", "syncFinish"} => snap.fresh
          /\ \A p \in InCore : CurrentPages[p].dirty =>
                \/ pc[t] # "dead" /\ p \in todo[t]
                \/ pc[t] \in {"syncWrite", "syncFinish"} /\ p = snap.page

\* The pages that an fsync still has to visit, or has copied, are those with cells owed;
\* once the host has been told to sync, nothing is.
FsyncOf(t) ==
    /\ pc[t] \in Syncing /\ op[t].by \in {"fsync", "fdatasync"} =>
          \A w \in owed[t] : w[2] # "disk" =>
             \/ pc[t] # "syncHost" /\ PageOf(w[1]) \in todo[t]
             \/ pc[t] = "syncWrite" /\ PageOf(w[1]) = snap.page /\ w[2] = "copied"
    /\ pc[t] = "hostSync" => \A w \in owed[t] : w[2] = "disk"
    /\ pc[t] = "synced" \/ after[t] # "idle" => owed[t] = {}

\* The operation of a sync.
SyncOpOf(t) ==
    /\ pc[t] \in Syncing \union {"syncLock"} /\ op[t].by # "msync" => op[t].range = Pages
    /\ after[t] # "idle" => held[t] # None
    /\ pc[t] = "retain" => op[t].range = Pages

OwedInv ==
    /\ DOMAIN owed = Threads
    /\ \A t \in Threads : SyncOpOf(t) /\ DrainOf(t) /\ OwedOf(t) /\ FsyncOf(t)

\* A step changes the page set or the dirtiness only downwards, but for a store.
LEMMA DirtyShrinks ==
    ASSUME PagerInv, DOMAIN owed = Threads, DataInv, NEW t \in Threads, Step(t) \/ Choice(t),
           ~\E c \in Cells, v \in Values : Store(t, c, v)
    PROVE  \A p \in InCore' : CurrentPages'[p].dirty => p \in InCore /\ CurrentPages[p].dirty
<1> USE DEF PagerInv, DataInv
<1>0. TypeInv
  BY DEF HoldInv
<1> DEFINE Goal == \A p \in InCore' : CurrentPages'[p].dirty => p \in InCore /\ CurrentPages[p].dirty
<1>1. ASSUME PagesSame PROVE Goal
  BY <1>1 DEF PagesSame
<1>2. ASSUME NEW p, NEW r, Only(p, r), p \in InCore => (r.dirty => CurrentPages[p].dirty) PROVE Goal
  BY <1>2 DEF Only
<1>3. ASSUME CommitWrite(t) PROVE Goal
  <2>1. \A p : Merged(CurrentPages[p], p, op[t].first, op[t].last, op[t].value).dirty => CurrentPages[p].dirty
    BY DEF Merged
  <2>2. QED
    BY <1>2, <1>3, <2>1, CommitWritePages
<1>4. ASSUME CommitResize(t) PROVE Goal
  <2>1. \A p : Resized(CurrentPages[p], p, op[t].old, op[t].new).dirty = CurrentPages[p].dirty
    BY DEF Resized
  <2>2. QED
    BY <1>4, <2>1, CommitResizePages
<1>5. ASSUME FinishWriteback(t) PROVE Goal
  <2>1. \A p \in InCore : Finished(CurrentPages[p]).dirty => CurrentPages[p].dirty
    BY DEF Finished, DataType, PageRecs
  <2>2. QED
    BY <1>2, <1>5, <2>1, FinishPages
<1>6. ASSUME NEW p \in Pages, GetPage(t, p) PROVE Goal
  <2>1. Loaded(p).dirty = FALSE
    BY DEF Loaded
  <2>2. QED
    BY <1>6, <2>1, GetPages
<1>7. ASSUME Destroy(t) PROVE Goal
  <2>1. CurrentPages' = CurrentPages \/ InCore' = {}
    BY <1>7, DestroyPages
  <2>2. QED
    BY <2>1 DEF InCore
<1>8. QED
  BY <1>0, <1>1, <1>3, <1>4, <1>5, <1>6, <1>7, DataKinds, PagesKept DEF Changes

\* The copy that a write-back works on is its own.
LEMMA CopyKept ==
    ASSUME PagerInv, DOMAIN owed = Threads, DataInv, NEW t \in Threads, Step(t) \/ Choice(t),
           NEW u \in Threads, u # t, pc[u] \in {"syncWrite", "syncFinish"}
    PROVE  /\ snap'.page = snap.page
           /\ snap' = snap \/ (snap'.fresh = FALSE /\ \E c \in Cells, v \in Values : Store(t, c, v))
<1> USE DEF PagerInv
<1>1. /\ pc[u] \in Locked
      /\ snap = [page |-> snap.page, bytes |-> snap.bytes, fresh |-> snap.fresh]
  BY CopiedPage
<1>2. ASSUME NEW c \in Cells, NEW v \in Values, Store(t, c, v)
      PROVE  snap' = snap \/ (snap'.fresh = FALSE /\ snap'.page = snap.page)
  <2>1. snap' = snap \/ snap' = [snap EXCEPT !.fresh = FALSE]
    BY <1>2 DEF Store
  <2>2. QED
    BY <1>1, <2>1
<1>3. ASSUME \/ Steady(t) \/ Destroy(t) \/ InstallPager(t)
             \/ \E kind \in {"fsync", "fdatasync"} : StartSync(t, kind)
      PROVE  snap' = snap
  BY <1>3 DEF Steady, Destroy, InstallPager, StartSync
<1>4. QED
  BY <1>1, <1>2, <1>3, OthersSteady DEF HoldInv

\* When a page comes to be finished.
LEMMA FinishingNext ==
    ASSUME PagerInv, DOMAIN owed = Threads, DataInv, NEW t \in Threads, Step(t) \/ Choice(t),
           NEW p, Finishing(p)'
    PROVE  Finishing(p) \/ (WritePage(t) /\ snap.fresh /\ snap.page = p)
<1>0. TypeInv
  BY DEF PagerInv, HoldInv
<1>1. PICK x \in Threads : pc'[x] = "syncFinish" /\ snap'.fresh /\ snap'.page = p
  BY DEF Finishing
<1>2. CASE x # t
  <2>1. pc[x] = "syncFinish"
    BY <1>0, <1>1, <1>2, OtherThreads
  <2>2. snap' = snap
    BY <1>1, <1>2, <2>1, CopyKept
  <2>3. QED
    BY <1>1, <2>1, <2>2 DEF Finishing
<1>3. CASE x = t
  <2>1. ASSUME Changes(t), ~WritePage(t) PROVE pc'[t] # "syncFinish"
    <3>1. /\ DOMAIN pc = Threads /\ after[t] \in {"idle", "synced", "hostSync"}
      BY <1>0 DEF TypeInv
    <3>2. CASE \/ HostWrite(t) \/ HostResize(t) \/ CommitWrite(t) \/ CommitResize(t) \/ Destroy(t)
      BY <3>1, <3>2 DEF HostWrite, HostResize, CommitWrite, CommitResize, Destroy
    <3>3. CASE \/ WritePageFails(t) \/ FinishWriteback(t) \/ InstallPager(t) \/ CopyDirty(t)
               \/ \E kind \in {"fsync", "fdatasync"} : StartSync(t, kind)
      BY <3>1, <3>3 DEF WritePageFails, SyncReturn, FinishWriteback, InstallPager, DropCandidate,
         StartSync, CopyDirty
    <3>4. CASE \/ \E q \in Pages : GetPage(t, q)
               \/ \E c \in Cells, v \in Values : Store(t, c, v)
      BY <3>1, <3>4 DEF GetPage, Store
    <3>5. QED
      BY <2>1, <3>2, <3>3, <3>4 DEF Changes
  <2>2. WritePage(t)
    BY <1>0, <1>1, <1>3, <2>1, DataKinds DEF Steady
  <2>3. snap' = snap
    BY <2>2 DEF WritePage
  <2>4. QED
    BY <1>1, <2>2, <2>3
<1>4. QED
  BY <1>2, <1>3

\* What can still be found stays so, unless it is replaced, cut off or written back.
LEMMA InPageKept ==
    ASSUME PagerInv, PagerInv', DOMAIN owed = Threads, DataInv, HolderInv',
           NEW t \in Threads, Step(t) \/ Choice(t), DrainOf(t), NEW c, InPage(c),
           HostWrite(t) => c \notin op'[t].first .. op'[t].last,
           HostResize(t) /\ pc'[t] = "commit" => c < size',
           ~(WritePage(t) /\ snap.fresh /\ snap.page = PageOf(c))
    PROVE  InPage(c)'
<1> USE DEF PagerInv
<1> DEFINE p == PageOf(c)
<1>0. /\ TypeInv /\ HolderInv /\ DataType /\ c \in Cells /\ c \in CellsOf(p) /\ c \in Nat /\ size \in Nat
      /\ c < size /\ p \in InCore /\ CurrentPages[p].dirty /\ ~Pending(c) /\ ~Finishing(p)
      /\ PageSize \in Nat /\ p \in Nat /\ p * PageSize <= c
  <2>1. c \in Cells
    BY DEF InPage
  <2>2. QED
    BY <2>1, CellPage, SizesAssumption DEF InPage, HoldInv, DataInv, DataType, Cells, Pages
<1>1. ~Finishing(p)'
  BY <1>0, FinishingNext
<1>2. ASSUME c < size', p \in InCore', CurrentPages'[p].dirty, ~Pending(c)' PROVE InPage(c)'
  BY <1>0, <1>1, <1>2 DEF InPage
<1>3. ASSUME HostWrite(t) PROVE InPage(c)'
  <2>0. PICK first \in Cells, last \in Cells, v \in Values : Writes(t, first, last, v)
    BY <1>0, <1>3, WriteEffect
  <2>1. c \notin first .. last
    BY <1>3, <2>0 DEF Writes
  <2>2. PagesSame
    BY <1>3, PagesKept
  <2>3. c < size'
    <3>1. last \in Nat /\ size' = IF last >= size THEN last + 1 ELSE size
      BY <2>0 DEF Writes, Cells
    <3>2. QED
      BY <1>0, <3>1
  <2>4. op'[t].kind = "write" /\ op'[t].first = first /\ op'[t].last = last /\ Working(t)'
    BY <2>0 DEF Writes, Working
  <2>5. c \notin PendingOf(t)'
    BY <1>0, <2>1, <2>4, PendingCellsNext
  <2>6. ~Pending(c)'
    BY <1>0, <2>4, <2>5, PendingIsNext, PendingCellsNext DEF Working, Locked
  <2>7. QED
    BY <1>0, <1>2, <2>2, <2>3, <2>6 DEF PagesSame
<1>4. ASSUME HostResize(t), pc'[t] = "commit" PROVE InPage(c)'
  <2>0. PICK new \in 0 .. FileCells : Cuts(t, new)
    BY <1>0, <1>4, ResizeEffect
  <2>1. c < new /\ size' = new
    BY <1>4, <2>0 DEF Cuts
  <2>2. PagesSame
    BY <1>4, PagesKept
  <2>3. op'[t].kind = "resize" /\ op'[t].new = new /\ op'[t].old = size /\ Working(t)'
    BY <1>4, <2>0 DEF Cuts, Working
  <2>4. c \notin PendingOf(t)'
    BY <1>0, <2>1, <2>3, PendingCellsNext
  <2>5. ~Pending(c)'
    BY <1>0, <2>3, <2>4, PendingIsNext, PendingCellsNext DEF Working, Locked
  <2>6. QED
    BY <1>0, <1>2, <2>1, <2>2, <2>5 DEF PagesSame
<1>5. ASSUME CommitWrite(t) PROVE InPage(c)'
  <2> DEFINE q == Min(todo[t])
             r == Merged(CurrentPages[q], q, op[t].first, op[t].last, op[t].value)
  <2>1. Only(q, r)
    BY <1>0, <1>5, CommitWritePages
  <2>2. /\ Working(t) /\ op[t].kind = "write" /\ UNCHANGED <<disk, size, op>> /\ pc[t] \in Locked
        /\ todo'[t] = todo[t] \ {q} /\ todo[t] # {}
    BY <1>0, <1>5 DEF CommitWrite, Working, Locked, TypeInv
  <2>3. todo[t] \in SUBSET Nat
    BY <2>2 DEF DataInv, WorkInv, WriteOf, Pages
  <2>4. q \in todo[t]
    BY <2>2, <2>3, MinMember
  <2> HIDE DEF q
  <2>5. ~(c \in op[t].first .. op[t].last /\ p \in todo[t])
    BY <1>0, <2>2, PendingCells DEF Pending
  <2>6. CurrentPages'[p].dirty /\ p \in InCore'
    <3>1. CASE p # q
      BY <1>0, <2>1, <3>1 DEF Only
    <3>2. CASE p = q
      <4>1. CurrentPages'[p] = r /\ p \in InCore'
        BY <1>0, <2>1, <3>2 DEF Only
      <4>2. c \notin op[t].first .. op[t].last
        BY <2>4, <2>5, <3>2
      <4>3. r.dirty
        BY <1>0, <3>2, <4>2 DEF Merged
      <4>4. QED
        BY <4>1, <4>3
    <3>3. QED
      BY <3>1, <3>2
  <2>7. ~Pending(c)'
    <3> SUFFICES ASSUME Pending(c)' PROVE FALSE
      OBVIOUS
    <3>1. PICK u \in Threads : Working(u)' /\ c \in PendingOf(u)'
      BY <1>0, PendingCellsNext
    <3>2. CASE u # t
      <4>1. Working(u)
        BY <1>0, <3>1, <3>2, OtherThreads DEF Working
      <4>2. QED
        BY <1>0, <2>2, <3>2, <4>1, PendingIs
    <3>3. CASE u = t
      BY <1>0, <2>2, <2>5, <3>1, <3>3, PendingCellsNext
    <3>4. QED
      BY <3>2, <3>3
  <2>8. QED
    BY <1>0, <1>2, <2>2, <2>6, <2>7
<1>6. ASSUME CommitResize(t) PROVE InPage(c)'
  <2>1. /\ Working(t) /\ op[t].kind = "resize" /\ UNCHANGED <<disk, size>> /\ pc[t] \in Locked
        /\ ~Working(t)'
    BY <1>0, <1>6 DEF CommitResize, Working, Locked, TypeInv
  <2>2. op[t].new = size
    BY <2>1 DEF DataInv, WorkInv, ResizeOf
  <2>3. p * PageSize < op[t].new
    BY <1>0, <2>2
  <2>4. p \in InCore' /\ CurrentPages'[p] = Resized(CurrentPages[p], p, op[t].old, op[t].new)
    BY <1>0, <1>6, <2>3, CommitResizePages
  <2>5. CurrentPages'[p].dirty
    BY <1>0, <2>4 DEF Resized
  <2>6. ASSUME NEW u \in Threads PROVE ~Working(u)'
    <3>1. CASE u # t
      BY <1>0, <2>1, <3>1, OtherThreads, PendingIs DEF Working
    <3>2. QED
      BY <2>1, <3>1
  <2>7. ~Pending(c)'
    BY <1>0, <2>6, PendingCellsNext
  <2>8. QED
    BY <1>0, <1>2, <2>1, <2>4, <2>5, <2>7
<1>7. ASSUME Bystander(t) PROVE InPage(c)'
  <2>1. size' = size /\ ~Pending(c)'
    BY <1>0, <1>7, BystanderIdle, PendingKept
  <2>2. ASSUME p \in InCore', CurrentPages'[p].dirty PROVE InPage(c)'
    BY <1>0, <1>2, <2>1, <2>2
  <2>3. ASSUME FinishWriteback(t) PROVE InPage(c)'
    <3>1. pc[t] = "syncFinish"
      BY <2>3 DEF FinishWriteback
    <3>2. Only(snap.page, Finished(CurrentPages[snap.page]))
      BY <2>3, FinishPages
    <3>3. p = snap.page => ~snap.fresh
      BY <1>0, <3>1 DEF Finishing
    <3>4. CASE p # snap.page
      BY <1>0, <2>2, <3>2, <3>4 DEF Only
    <3>5. CASE p = snap.page
      <4>1. CurrentPages'[p] = Finished(CurrentPages[p]) /\ p \in InCore' /\ CurrentPages[p] \in PageRecs(p)
        BY <1>0, <3>2, <3>5 DEF Only, DataType
      <4>2. CurrentPages'[p].dirty
        BY <1>0, <3>3, <3>5, <4>1 DEF Finished, PageRecs
      <4>3. QED
        BY <2>2, <4>1, <4>2
    <3>6. QED
      BY <3>4, <3>5
  <2>4. ASSUME NEW q \in Pages, GetPage(t, q) PROVE InPage(c)'
    BY <1>0, <2>2, <2>4, GetPages
  <2>5. ASSUME NEW d \in Cells, NEW v \in Values, Store(t, d, v) PROVE InPage(c)'
    <3>1. Only(PageOf(d), [bytes |-> [CurrentPages[PageOf(d)].bytes EXCEPT ![d] = v], dirty |-> TRUE])
      BY <2>5, StorePages
    <3>2. QED
      BY <1>0, <2>2, <3>1 DEF Only
  <2>6. ASSUME Destroy(t) PROVE InPage(c)'
    <3>1. pc[t] = "dead"
      BY <2>6 DEF Destroy
    <3>2. held[t] # slot
      BY <1>0, <3>1 DEF DrainOf
    <3>3. CurrentPages' = CurrentPages
      BY <2>6, <3>2, DestroyPages
    <3>4. QED
      BY <1>0, <2>2, <3>3 DEF InCore
  <2>7. ASSUME PagesSame PROVE InPage(c)'
    BY <1>0, <2>2, <2>7 DEF PagesSame
  <2>8. QED
    BY <1>7, <2>3, <2>4, <2>5, <2>6, <2>7, PagesKept DEF Bystander
<1>8. QED
  BY <1>0, <1>3, <1>4, <1>5, <1>6, <1>7, WorkKinds

\* Where the entries of owed after a step come from.
LEMMA OwedFrom ==
    ASSUME PagerInv, DOMAIN owed = Threads, NEW t \in Threads, Step(t) \/ Choice(t)
    PROVE  /\ DOMAIN owed' = Threads
           /\ \A u \in Threads :
                 \/ u = t /\ (\E kind \in {"fsync", "fdatasync"} : StartSync(t, kind))
                 \/ /\ owed[u] = {} => owed'[u] = {}
                    /\ \A x \in owed'[u] : x[2] # "disk" =>
                          \E w \in owed[u] : /\ w[1] = x[1] /\ w[2] # "disk"
                                             /\ x[2] \in {w[2], "copied"}
<1>0. TypeInv
  BY DEF PagerInv, HoldInv
<1> DEFINE From(u) == /\ owed[u] = {} => owed'[u] = {}
                      /\ \A x \in owed'[u] : x[2] # "disk" =>
                            \E w \in owed[u] : /\ w[1] = x[1] /\ w[2] # "disk"
                                               /\ x[2] \in {w[2], "copied"}
<1>1. ASSUME NEW u \in Threads, owed'[u] \subseteq owed[u] PROVE From(u)
  BY <1>1
<1>2. ASSUME HostWrite(t) PROVE DOMAIN owed' = Threads /\ \A u \in Threads : From(u)
  <2>1. \E S : owed' = OwedWithout(S)
    BY <1>2 DEF HostWrite
  <2>2. DOMAIN owed' = Threads /\ \A u \in Threads : owed'[u] \subseteq owed[u]
    BY <2>1 DEF OwedWithout
  <2>3. QED
    BY <1>1, <2>2
<1>3. ASSUME HostResize(t) PROVE DOMAIN owed' = Threads /\ \A u \in Threads : From(u)
  <2>1. owed' = owed \/ \E S : owed' = OwedWithout(S)
    BY <1>3 DEF HostResize
  <2>2. DOMAIN owed' = Threads /\ \A u \in Threads : owed'[u] \subseteq owed[u]
    BY <2>1 DEF OwedWithout
  <2>3. QED
    BY <1>1, <2>2
<1>4. ASSUME CopyDirty(t) PROVE DOMAIN owed' = Threads /\ \A u \in Threads : From(u)
  <2>1. \/ owed' = owed
        \/ owed' = [u \in Threads |->
                      {IF w[2] = "page" /\ PageOf(w[1]) = Min(todo[t]) THEN <<w[1], "copied">> ELSE w :
                          w \in owed[u]}]
    BY <1>4 DEF CopyDirty
  <2>2. CASE owed' = owed
    BY <1>1, <2>2
  <2>3. ASSUME NEW p, owed' = [u \in Threads |->
                             {IF w[2] = "page" /\ PageOf(w[1]) = p THEN <<w[1], "copied">> ELSE w :
                                 w \in owed[u]}]
        PROVE  DOMAIN owed' = Threads /\ \A u \in Threads : From(u)
    <3>1. ASSUME NEW u \in Threads PROVE From(u)
      <4>1. owed'[u] = {IF w[2] = "page" /\ PageOf(w[1]) = p THEN <<w[1], "copied">> ELSE w : w \in owed[u]}
        BY <2>3
      <4>2. ASSUME NEW x \in owed'[u], x[2] # "disk"
            PROVE  \E w \in owed[u] : w[1] = x[1] /\ w[2] # "disk" /\ x[2] \in {w[2], "copied"}
        <5>1. PICK w \in owed[u] : x = IF w[2] = "page" /\ PageOf(w[1]) = p THEN <<w[1], "copied">> ELSE w
          BY <4>1, <4>2
        <5>2. QED
          BY <4>2, <5>1
      <4>3. QED
        BY <4>1, <4>2
    <3>2. QED
      BY <2>3, <3>1
  <2>4. QED
    BY <2>1, <2>2, <2>3
<1>5. ASSUME WritePage(t) PROVE DOMAIN owed' = Threads /\ \A u \in Threads : From(u)
  <2> DEFINE Reached(w) == /\ w[1] \in {c \in CellsOf(snap.page) : c < size}
                           /\ \/ w[2] = "copied"
                              \/ cache[held[t]][snap.page].bytes[w[1]] = snap.bytes[w[1]]
  <2>1. owed' = [u \in Threads |-> {IF Reached(w) THEN <<w[1], "disk">> ELSE w : w \in owed[u]}]
    BY <1>5 DEF WritePage
  <2> HIDE DEF Reached
  <2>2. ASSUME NEW u \in Threads PROVE From(u)
    <3>1. owed'[u] = {IF Reached(w) THEN <<w[1], "disk">> ELSE w : w \in owed[u]}
      BY <2>1
    <3>2. ASSUME NEW x \in owed'[u], x[2] # "disk"
          PROVE  \E w \in owed[u] : w[1] = x[1] /\ w[2] # "disk" /\ x[2] \in {w[2], "copied"}
      <4>1. PICK w \in owed[u] : x = IF Reached(w) THEN <<w[1], "disk">> ELSE w
        BY <3>1, <3>2
      <4>2. QED
        BY <3>2, <4>1
    <3>3. QED
      BY <3>1, <3>2
  <2>3. QED
    BY <2>1, <2>2
<1>6. ASSUME WritePageFails(t) PROVE DOMAIN owed' = Threads /\ \A u \in Threads : From(u)
  <2>1. DOMAIN owed' = Threads /\ \A u \in Threads : owed'[u] \subseteq owed[u]
    BY <1>6 DEF WritePageFails
  <2>2. QED
    BY <1>1, <2>1
<1>7. ASSUME NEW kind \in {"fsync", "fdatasync"}, StartSync(t, kind)
      PROVE  DOMAIN owed' = Threads /\ \A u \in Threads : u # t => From(u)
  <2>1. DOMAIN owed' = Threads /\ \A u \in Threads : u # t => owed'[u] = owed[u]
    BY <1>7 DEF StartSync
  <2>2. QED
    BY <1>1, <2>1
<1>8. ASSUME \/ CommitWrite(t) \/ CommitResize(t) \/ Destroy(t) \/ FinishWriteback(t) \/ InstallPager(t)
             \/ \E p \in Pages : GetPage(t, p)
             \/ \E c \in Cells, v \in Values : Store(t, c, v)
      PROVE  DOMAIN owed' = Threads /\ \A u \in Threads : From(u)
  <2>1. owed' = owed
    BY <1>8 DEF CommitWrite, CommitResize, Destroy, FinishWriteback, InstallPager, GetPage, Store
  <2>2. QED
    BY <1>1, <2>1
<1>9. ASSUME Steady(t) PROVE DOMAIN owed' = Threads /\ \A u \in Threads : From(u)
  BY <1>1, <1>9 DEF Steady
<1> HIDE DEF From
<1>10. /\ DOMAIN owed' = Threads
       /\ \A u \in Threads : \/ u = t /\ (\E kind \in {"fsync", "fdatasync"} : StartSync(t, kind))
                             \/ From(u)
  BY <1>0, <1>2, <1>3, <1>4, <1>5, <1>6, <1>7, <1>8, <1>9, DataKinds DEF Changes
<1>11. QED
  BY <1>10 DEF From

\* What an fsync finds modified is in a page.
LEMMA ModifiedInPage ==
    ASSUME DataInv, NEW c \in Modified
    PROVE  InPage(c)
<1>1. /\ c \in Cells /\ c < size /\ PageOf(c) \in InCore /\ ~Pending(c)
      /\ CurrentPages[PageOf(c)].bytes[c] # disk[c]
  BY DEF Modified, InCore, Pending
<1>2. CurrentPages[PageOf(c)].dirty
  BY <1>1 DEF DataInv, CleanInv
<1>3. ~Finishing(PageOf(c))
  <2>1. c \in CellsOf(PageOf(c))
    BY <1>1, CellPage
  <2>2. QED
    BY <1>1, <2>1 DEF Finishing, DataInv, CopyInv, CopyOf
<1>4. QED
  BY <1>1, <1>2, <1>3 DEF InPage

\* A write-back of a page as it is leaves nothing owed on it.
LEMMA ReachedDisk ==
    ASSUME PagerInv, DataInv, NEW t \in Threads, WritePage(t), NEW u \in Threads,
           NEW x \in owed'[u], x[2] # "disk", x[1] \in Cells, x[1] < size, PageOf(x[1]) = snap.page
    PROVE  ~snap.fresh /\ x[2] # "copied"
<1> DEFINE Reached(w) == /\ w[1] \in {c \in CellsOf(snap.page) : c < size}
                         /\ \/ w[2] = "copied"
                            \/ cache[held[t]][snap.page].bytes[w[1]] = snap.bytes[w[1]]
<1>1. owed' = [v \in Threads |-> {IF Reached(w) THEN <<w[1], "disk">> ELSE w : w \in owed[v]}]
  BY DEF WritePage
<1>2. \E w \in owed[u] : x = IF Reached(w) THEN <<w[1], "disk">> ELSE w
  <2> HIDE DEF Reached
  <2>1. owed'[u] = {IF Reached(w) THEN <<w[1], "disk">> ELSE w : w \in owed[u]}
    BY <1>1
  <2>2. QED
    BY <2>1
<1>3. ~Reached(x)
  <2> HIDE DEF Reached
  <2>1. QED
    BY <1>2
<1>4. x[1] \in {c \in CellsOf(snap.page) : c < size}
  BY DEF CellsOf
<1>5. pc[t] = "syncWrite"
  BY DEF WritePage
<1>6. held[t] = slot /\ CurrentPages = cache[slot]
  BY <1>5, CopiedPage DEF PagerInv
<1>7. snap.fresh => CurrentPages[snap.page].bytes = snap.bytes
  BY <1>5 DEF DataInv, CopyInv, CopyOf
<1>8. QED
  BY <1>3, <1>4, <1>6, <1>7

\* Every step of a thread leaves what is owed where it can be found.
LEMMA OwedThread ==
    ASSUME PagerInv, PagerInv', DataInv, HolderInv', OwedInv,
           NEW t \in Threads, Step(t) \/ Choice(t), NEW u \in Threads
    PROVE  OwedOf(u)'
<1>0. TypeInv /\ DOMAIN owed = Threads /\ DrainOf(t) /\ OwedOf(u) /\ DataType
  BY DEF PagerInv, HoldInv, OwedInv, DataInv
<1> SUFFICES ASSUME NEW x \in owed'[u], x[2] # "disk" PROVE x[2] \in {"page", "copied"} /\ InPage(x[1])'
  BY DEF OwedOf
<1>1. ASSUME NEW kind \in {"fsync", "fdatasync"}, StartSync(t, kind), u = t
      PROVE  x[2] \in {"page", "copied"} /\ InPage(x[1])'
  <2>1. ~HostWrite(t) /\ ~HostResize(t) /\ ~WritePage(t)
    BY <1>1 DEF StartSync, HostWrite, HostResize, WritePage
  <2>2. owed'[t] = {<<c, "page">> : c \in Modified} \union {<<c, "disk">> : c \in unsynced}
    BY <1>0, <1>1 DEF StartSync
  <2>3. x[1] \in Modified /\ x[2] = "page"
    BY <1>1, <2>2
  <2>4. InPage(x[1])
    BY <2>3, ModifiedInPage
  <2>5. QED
    BY <1>0, <2>1, <2>3, <2>4, InPageKept
<1>2. ASSUME NEW w \in owed[u], w[1] = x[1], w[2] # "disk", x[2] \in {w[2], "copied"}
      PROVE  x[2] \in {"page", "copied"} /\ InPage(x[1])'
  <2>1. InPage(x[1]) /\ x[2] \in {"page", "copied"}
    BY <1>0, <1>2 DEF OwedOf
  <2>2. x[1] \in Cells /\ x[1] < size /\ x[1] \in Nat /\ FileCells \in Nat
    BY <2>1, SizesAssumption DEF InPage, Cells, FileCells
  <2>3. ASSUME HostWrite(t) PROVE x[1] \notin op'[t].first .. op'[t].last
    <3>1. PICK first \in Cells, last \in Cells, v \in Values : Writes(t, first, last, v)
      BY <1>0, <2>3, WriteEffect
    <3>2. op'[t].first = first /\ op'[t].last = last /\ owed' = OwedWithout(first .. last)
      BY <3>1 DEF Writes
    <3>3. QED
      BY <3>2 DEF OwedWithout
  <2>4. ASSUME HostResize(t), pc'[t] = "commit" PROVE x[1] < size'
    <3>1. PICK new \in 0 .. FileCells : Cuts(t, new)
      BY <1>0, <2>4, ResizeEffect
    <3>2. size' = new /\ owed' = OwedWithout({c \in Cells : c >= new})
      BY <3>1 DEF Cuts
    <3>3. ~(x[1] >= new)
      BY <2>2, <3>2 DEF OwedWithout
    <3>4. QED
      BY <2>2, <3>2, <3>3
  <2>5. ~(WritePage(t) /\ snap.fresh /\ snap.page = PageOf(x[1]))
    BY <2>2, ReachedDisk
  <2>6. QED
    BY <1>0, <2>1, <2>3, <2>4, <2>5, InPageKept
<1>3. QED
  BY <1>0, <1>1, <1>2, OwedFrom

----------------------------------------------------------------------------
(* Drains *)

\* A drain is left alone by the others: nobody stores through a draining pager.
LEMMA DrainOther ==
    ASSUME PagerInv, DataInv, DOMAIN owed = Threads, NEW t \in Threads, Step(t) \/ Choice(t),
           NEW u \in Threads, u # t, DrainOf(u)
    PROVE  DrainOf(u)'
<1> USE DEF PagerInv
<1>0. TypeInv
  BY DEF HoldInv
<1>1. pc'[u] = pc[u] /\ op'[u] = op[u] /\ held'[u] = held[u] /\ todo'[u] = todo[u]
  BY <1>0, OtherThreads
<1>2. pc[u] = "syncHost" => todo'[u] = {}
  BY <1>1 DEF DrainOf
<1>3. CASE ~(held'[u] = slot' /\ (pc[u] = "dead" \/ (pc[u] \in Syncing /\ op[u].by = "drain")))
  BY <1>1, <1>2, <1>3 DEF DrainOf
<1>4. CASE held'[u] = slot' /\ (pc[u] = "dead" \/ (pc[u] \in Syncing /\ op[u].by = "drain"))
  <2>1. Ending(u) /\ held[u] \in Pagers /\ pager[held[u]].life = "draining"
    BY <1>4, <1>0 DEF Ending, Ends, HoldInv, SeatInv, SeatOf, Holding, LifeInv, LifeOf, TypeInv
  <2>2. CASE held[u] # slot
    <3>1. slot' # slot
      BY <1>1, <1>4, <2>2
    <3>2. InCore' = {}
      BY <3>1, SlotMoves
    <3>3. pc[u] \notin {"syncWrite", "syncFinish"}
      BY <2>2, CopiedPage
    <3>4. QED
      BY <1>1, <1>2, <3>2, <3>3 DEF DrainOf
  <2>3. CASE held[u] = slot
    <3>1. ~\E c \in Cells, v \in Values : Store(t, c, v)
      BY <2>1, <2>3, StorePages DEF Live
    <3>2. \A p \in InCore' : CurrentPages'[p].dirty => p \in InCore /\ CurrentPages[p].dirty
      BY <3>1, DirtyShrinks
    <3>3. pc[u] \in {"syncWrite", "syncFinish"} => snap' = snap
      BY <3>1, CopyKept
    <3>4. QED
      BY <1>1, <1>2, <1>4, <2>3, <3>2, <3>3 DEF DrainOf
  <2>4. QED
    BY <2>2, <2>3
<1>5. QED
  BY <1>3, <1>4

----------------------------------------------------------------------------
(* The way of a sync *)

\* What is shown of the steps of the syncing thread itself.
SyncSelf(t) == SyncOpOf(t) /\ DrainOf(t) /\ FsyncOf(t)

\* A step that is not of a sync.
Aside(t) ==
    /\ pc'[t] \notin Syncing \union {"dead", "syncLock", "hostSync", "synced", "retain"}
    /\ after'[t] \in {after[t], "idle"}
    /\ after[t] # "idle" => held'[t] # None
    /\ owed[t] = {} => owed'[t] = {}

\* It leaves nothing to show.
LEMMA AsideSelf ==
    ASSUME NEW t \in Threads, SyncSelf(t), Aside(t)
    PROVE  SyncSelf(t)'
<1>1. SyncOpOf(t)'
  BY DEF SyncSelf, SyncOpOf, Aside
<1>2. DrainOf(t)'
  BY DEF DrainOf, Aside, Syncing
<1>3. FsyncOf(t)'
  BY DEF SyncSelf, FsyncOf, Aside
<1>4. QED
  BY <1>1, <1>2, <1>3 DEF SyncSelf

\* The steps of a sync.
SyncStep(t) ==
    \/ Release(t) \/ Destroy(t) \/ Drain(t) \/ SyncLock(t) \/ CopyDirty(t) \/ WritePage(t)
    \/ FinishWriteback(t) \/ HostSyncRange(t) \/ RetainForSync(t) \/ HostSync(t)
    \/ \E kind \in {"fsync", "fdatasync"} : StartSync(t, kind)
    \/ \E p \in Pages : Msync(t, p)

\* Every step of a thread is one of these.
LEMMA SyncKinds ==
    ASSUME HoldInv, DOMAIN owed = Threads, NEW t \in Threads, Step(t) \/ Choice(t), SyncOpOf(t)
    PROVE  SyncStep(t) \/ Aside(t)
<1> USE DEF HoldInv
<1>a. /\ DOMAIN op = Threads /\ DOMAIN pc = Threads /\ DOMAIN held = Threads /\ DOMAIN after = Threads
      /\ None \notin Pagers /\ slot \in Pagers \union {None} /\ DOMAIN owed = Threads
  BY SizesAssumption DEF TypeInv, Pagers
<1>b. /\ after[t] # "idle" => held[t] # None
      /\ pc[t] \in Free => held[t] = None
      /\ pc[t] = "install" => cand[t] # None
  BY DEF SyncOpOf, SeatInv, SeatOf
<1>c. \A g \in Pagers : pager[g].orphan => g # None
  BY <1>a
<1> USE DEF Aside, Syncing, Free, Mapping
<1>1. ASSUME BeginIo(t) PROVE Aside(t)
  BY <1>a, <1>b, <1>c, <1>1 DEF BeginIo
<1>2. ASSUME LockIo(t) PROVE Aside(t)
  BY <1>a, <1>b, <1>c, <1>2 DEF LockIo
<1>3. ASSUME LockIoBare(t) PROVE Aside(t)
  BY <1>a, <1>b, <1>c, <1>3 DEF LockIoBare
<1>4. ASSUME HostRead(t) PROVE Aside(t)
  BY <1>a, <1>b, <1>c, <1>4 DEF HostRead
<1>5. ASSUME HostWrite(t) PROVE Aside(t)
  BY <1>a, <1>b, <1>c, <1>5 DEF HostWrite, OwedWithout
<1>6. ASSUME HostResize(t) PROVE Aside(t)
  BY <1>a, <1>b, <1>c, <1>6 DEF HostResize, OwedWithout
<1>7. ASSUME HostFails(t) PROVE Aside(t)
  BY <1>a, <1>b, <1>c, <1>7 DEF HostFails
<1>8. ASSUME CommitRead(t) PROVE Aside(t)
  BY <1>a, <1>b, <1>c, <1>8 DEF CommitRead
<1>9. ASSUME CommitWrite(t) PROVE Aside(t)
  BY <1>a, <1>b, <1>c, <1>9 DEF CommitWrite, Resident
<1>10. ASSUME CommitResize(t) PROVE Aside(t)
  BY <1>a, <1>b, <1>c, <1>10 DEF CommitResize, Resident
<1>11. ASSUME EndIo(t) PROVE Aside(t)
  BY <1>a, <1>b, <1>c, <1>11 DEF EndIo
<1>12. ASSUME FailedDrain(t) PROVE Aside(t)
  BY <1>a, <1>b, <1>c, <1>12 DEF FailedDrain
<1>13. ASSUME NotifyFailedDrain(t) PROVE Aside(t)
  BY <1>a, <1>b, <1>c, <1>13 DEF NotifyFailedDrain
<1>14. ASSUME WritePageFails(t) PROVE Aside(t)
  BY <1>a, <1>b, <1>c, <1>14 DEF WritePageFails, SyncReturn, AfterSync
<1>15. ASSUME HostSyncRangeFails(t) PROVE Aside(t)
  BY <1>a, <1>b, <1>c, <1>15 DEF HostSyncRangeFails, SyncReturn, AfterSync
<1>16. ASSUME HostSyncFails(t) PROVE Aside(t)
  BY <1>a, <1>b, <1>c, <1>16 DEF HostSyncFails
<1>17. ASSUME SyncReturns(t) PROVE Aside(t)
  BY <1>a, <1>b, <1>c, <1>17 DEF SyncReturns
<1>18. ASSUME MapFails(t) PROVE Aside(t)
  BY <1>a, <1>b, <1>c, <1>18 DEF MapFails
<1>19. ASSUME CreatePager(t) PROVE Aside(t)
  BY <1>a, <1>b, <1>c, <1>19 DEF CreatePager
<1>20. ASSUME JoinPager(t) PROVE Aside(t)
  BY <1>a, <1>b, <1>c, <1>20 DEF JoinPager, DropCandidate
<1>21. ASSUME InstallPager(t) PROVE Aside(t)
  BY <1>a, <1>b, <1>c, <1>21 DEF InstallPager, DropCandidate
<1>22. ASSUME UpgradeWriter(t) PROVE Aside(t)
  BY <1>a, <1>b, <1>c, <1>22 DEF UpgradeWriter, DropCandidate
<1>23. ASSUME Unmap(t) PROVE Aside(t)
  BY <1>a, <1>b, <1>c, <1>23 DEF Unmap
<1>24. ASSUME RetryOrphans(t) PROVE Aside(t)
  BY <1>a, <1>b, <1>c, <1>24 DEF RetryOrphans
<1>25. ASSUME NEW kind \in {"read", "write", "resize", "grow"}, StartIo(t, kind) PROVE Aside(t)
  BY <1>a, <1>b, <1>c, <1>25 DEF StartIo
<1>26. ASSUME NEW w \in BOOLEAN, StartMap(t, w) PROVE Aside(t)
  BY <1>a, <1>b, <1>c, <1>26 DEF StartMap
<1>27. ASSUME NEW p \in Pages, GetPage(t, p) PROVE Aside(t)
  BY <1>a, <1>b, <1>c, <1>27 DEF GetPage
<1>28. ASSUME NEW c \in Cells, NEW v \in Values, Store(t, c, v) PROVE Aside(t)
  BY <1>a, <1>b, <1>c, <1>28 DEF Store
<1>29. QED
  BY <1>1, <1>2, <1>3, <1>4, <1>5, <1>6, <1>7, <1>8, <1>9, <1>10, <1>11,
     <1>12, <1>13, <1>14, <1>15, <1>16, <1>17, <1>18, <1>19, <1>20, <1>21,
     <1>22, <1>23, <1>24, <1>25, <1>26, <1>27, <1>28 DEF Step, Choice, SyncStep

\* CopyDirty passes over a clean page.
LEMMA CopySkips ==
    ASSUME HoldInv, SnapInv, DataType, NEW t \in Threads, CopyDirty(t), pc'[t] # "syncWrite", todo[t] # {}
    PROVE  /\ UNCHANGED <<pc, snap, owed>>
           /\ \E p \in todo[t] : /\ todo'[t] = todo[t] \ {p}
                                 /\ p \in InCore => ~CurrentPages[p].dirty
<1> USE DEF HoldInv
<1> DEFINE p == Min(todo[t])
<1>1. pc[t] = "syncPage"
  BY DEF CopyDirty
<1>2. ~cache[held[t]][p].dirty /\ UNCHANGED <<pc, snap, owed>> /\ todo'[t] = todo[t] \ {p}
  BY DEF CopyDirty, TypeInv
<1>3. held[t] \in Pagers /\ todo[t] \subseteq DOMAIN cache[held[t]]
  BY <1>1 DEF TypeInv, SeatInv, SeatOf, Holding, Syncing, SnapInv, SnapOf
<1>4. todo[t] \in SUBSET Nat
  BY <1>3 DEF TypeInv, Pages
<1>5. p \in todo[t]
  BY <1>4, MinMember
<1> HIDE DEF p
<1>6. held[t] = slot /\ slot # None
  BY <1>3, <1>5, SizesAssumption DEF OneCache, Pagers
<1>7. CurrentPages = cache[held[t]]
  BY <1>6 DEF CurrentPages
<1>8. QED
  BY <1>2, <1>5, <1>7

\* A step of a sync leads to the next one.
LEMMA SyncStepSelf ==
    ASSUME PagerInv, DataInv, OwedInv, NEW t \in Threads, SyncStep(t), Step(t) \/ Choice(t)
    PROVE  SyncSelf(t)'
<1> USE DEF PagerInv, HoldInv
<1>a. /\ TypeInv /\ DataType /\ SeatOf(t) /\ OpOf(t) /\ HolderOf(t)
      /\ DOMAIN op = Threads /\ DOMAIN pc = Threads /\ DOMAIN held = Threads /\ DOMAIN after = Threads
      /\ DOMAIN owed = Threads /\ DOMAIN todo = Threads
      /\ after[t] \in {"idle", "synced", "hostSync"} /\ pc[t] \in Labels
  BY DEF TypeInv, SeatInv, DataInv, HolderInv, OwedInv
<1>b. SyncOpOf(t) /\ DrainOf(t) /\ OwedOf(t) /\ FsyncOf(t)
  BY DEF OwedInv
<1>c. pc[t] \in Free => held[t] = None /\ after[t] = "idle"
  BY <1>a, <1>b DEF SeatOf, SyncOpOf
<1>d. pc[t] \in Holding => held[t] \in Pagers /\ held[t] # None
  BY <1>a DEF SeatOf, TypeInv
<1>e. held[t] = slot /\ held[t] \in Pagers /\ held[t] # None => CurrentPages = cache[slot] /\ InCore = DOMAIN cache[slot]
  BY DEF CurrentPages, InCore
<1> USE DEF Syncing, Free, Mapping, Holding, Ends
<1>1. CASE Release(t)
  <2>1. CASE pager[held[t]].refs > 1
    <3>1. /\ pc'[t] = after[t] /\ after'[t] = "idle" /\ owed' = owed
      BY <1>a, <1>1, <2>1 DEF Release
    <3>2. after[t] # "idle" => owed[t] = {}
      BY <1>b DEF FsyncOf
    <3>3. SyncOpOf(t)' /\ DrainOf(t)'
      BY <1>a, <3>1 DEF SyncOpOf, DrainOf
    <3>4. FsyncOf(t)'
      BY <1>a, <3>1, <3>2 DEF FsyncOf
    <3>5. QED
      BY <3>3, <3>4 DEF SyncSelf
  <2>2. CASE ~(pager[held[t]].refs > 1)
    <3>1. Aside(t)
      BY <1>a, <1>d, <1>1, <2>2 DEF Release, Aside
    <3>2. QED
      BY <1>b, <3>1, AsideSelf DEF SyncSelf
  <2>3. QED
    BY <2>1, <2>2
<1>2. CASE Destroy(t)
  <2>1. pc'[t] = after[t] /\ after'[t] = "idle" /\ owed' = owed
    BY <1>a, <1>2 DEF Destroy
  <2>2. after[t] # "idle" => owed[t] = {}
    BY <1>b DEF FsyncOf
  <2>3. SyncOpOf(t)' /\ DrainOf(t)'
    BY <1>a, <2>1 DEF SyncOpOf, DrainOf
  <2>4. FsyncOf(t)'
    BY <1>a, <2>1, <2>2 DEF FsyncOf
  <2>5. QED
    BY <2>3, <2>4 DEF SyncSelf
<1>3. CASE Drain(t)
  <2>1. pc[t] = "drain" /\ UNCHANGED <<slot, cache, held, after, owed>>
    BY <1>3 DEF Drain
  <2>2. \/ pc'[t] = "syncLock" /\ op'[t].by = "drain" /\ op'[t].range = Pages
        \/ pc'[t] = "dead" /\ ~RequiresDrain(held[t])
    BY <1>a, <1>3 DEF Drain
  <2>3. SyncOpOf(t)'
    BY <1>b, <2>1, <2>2 DEF SyncOpOf
  <2>4. FsyncOf(t)'
    BY <1>b, <2>1, <2>2 DEF FsyncOf
  <2>5. DrainOf(t)'
    <3>1. CurrentPages' = CurrentPages /\ InCore' = InCore
      BY <2>1 DEF CurrentPages, InCore
    <3>2. QED
      BY <1>d, <1>e, <2>1, <2>2, <3>1 DEF DrainOf, RequiresDrain
  <2>6. QED
    BY <2>3, <2>4, <2>5 DEF SyncSelf
<1>4. CASE SyncLock(t)
  <2>1. /\ pc[t] = "syncLock" /\ pc'[t] = "syncPage" /\ UNCHANGED <<slot, cache, held, op, after, owed>>
        /\ todo'[t] = DOMAIN cache[held[t]] \intersect op[t].range
    BY <1>a, <1>4 DEF SyncLock
  <2>2. SyncOpOf(t)'
    BY <1>b, <2>1 DEF SyncOpOf
  <2>3. CurrentPages' = CurrentPages /\ InCore' = InCore
    BY <2>1 DEF CurrentPages, InCore
  <2>4. held[t] = slot /\ op[t].by # "msync" => todo'[t] = InCore
    <3>1. op[t].by # "msync" => op[t].range = Pages
      BY <1>b, <2>1 DEF SyncOpOf
    <3>2. QED
      BY <1>d, <1>e, <2>1, <3>1, DOMAIN cache[held[t]] \subseteq Pages DEF TypeInv
  <2>5. DrainOf(t)'
    BY <2>1, <2>3, <2>4 DEF DrainOf
  <2>6. FsyncOf(t)'
    <3>1. op[t].by \in {"fsync", "fdatasync"} => held[t] = slot
      BY <1>a, <2>1 DEF HolderOf
    <3>2. \A w \in owed[t] : w[2] # "disk" => PageOf(w[1]) \in InCore
      BY <1>b DEF OwedOf, InPage
    <3>3. QED
      BY <1>b, <2>1, <2>4, <3>1, <3>2 DEF FsyncOf
  <2>7. QED
    BY <2>2, <2>5, <2>6 DEF SyncSelf
<1>5. CASE CopyDirty(t)
  <2>1. pc[t] = "syncPage" /\ UNCHANGED <<slot, cache, held, op, after>> /\ pc'[t] \in Syncing
    BY <1>a, <1>5 DEF CopyDirty
  <2>2. SyncOpOf(t)'
    BY <1>b, <2>1 DEF SyncOpOf
  <2>3. CurrentPages' = CurrentPages /\ InCore' = InCore
    BY <2>1 DEF CurrentPages, InCore
  <2>4. after'[t] # "idle" => owed'[t] = {}
    <3>1. ~\E kind \in {"fsync", "fdatasync"} : StartSync(t, kind)
      BY <2>1 DEF StartSync
    <3>2. owed[t] = {} => owed'[t] = {}
      BY <1>a, <3>1, OwedFrom
    <3>3. QED
      BY <1>b, <2>1, <3>2 DEF FsyncOf
  <2>5. CASE todo[t] = {}
    <3>1. pc'[t] = "syncHost" /\ todo'[t] = {} /\ owed' = owed
      BY <1>a, <1>5, <2>5 DEF CopyDirty
    <3>2. DrainOf(t)'
      BY <1>b, <2>1, <2>3, <2>5, <3>1 DEF DrainOf
    <3>3. FsyncOf(t)'
      BY <1>b, <2>1, <2>4, <2>5, <3>1 DEF FsyncOf
    <3>4. QED
      BY <2>2, <3>2, <3>3 DEF SyncSelf
  <2>6. CASE todo[t] # {} /\ pc'[t] # "syncWrite"
    <3>1. UNCHANGED <<pc, snap, owed>>
      BY <1>a, <1>5, <2>6, CopySkips
    <3>2. PICK p \in todo[t] : todo'[t] = todo[t] \ {p} /\ (p \in InCore => ~CurrentPages[p].dirty)
      BY <1>a, <1>5, <2>6, CopySkips
    <3>3. DrainOf(t)'
      BY <1>b, <2>1, <2>3, <3>1, <3>2 DEF DrainOf
    <3>4. FsyncOf(t)'
      <4>1. \A w \in owed[t] : w[2] # "disk" => PageOf(w[1]) # p
        BY <1>b, <3>2 DEF OwedOf, InPage
      <4>2. QED
        BY <1>b, <2>1, <2>4, <3>1, <3>2, <4>1 DEF FsyncOf
    <3>5. QED
      BY <2>2, <3>3, <3>4 DEF SyncSelf
  <2>7. CASE pc'[t] = "syncWrite"
    <3>1. PICK p \in todo[t] :
              /\ snap' = [page |-> p, bytes |-> CurrentPages[p].bytes, fresh |-> TRUE]
              /\ todo'[t] = todo[t] \ {p}
              /\ owed' = [u \in Threads |->
                             {IF w[2] = "page" /\ PageOf(w[1]) = p THEN <<w[1], "copied">> ELSE w :
                                 w \in owed[u]}]
      BY <1>5, <2>7, CopyEffect
    <3>2. snap'.fresh /\ snap'.page = p
      BY <3>1
    <3>3. DrainOf(t)'
      BY <1>b, <2>1, <2>3, <2>7, <3>1, <3>2 DEF DrainOf
    <3>4. ASSUME op[t].by \in {"fsync", "fdatasync"}, NEW x \in owed'[t], x[2] # "disk"
          PROVE  PageOf(x[1]) \in todo'[t] \/ (PageOf(x[1]) = p /\ x[2] = "copied")
      <4>1. owed'[t] = {IF w[2] = "page" /\ PageOf(w[1]) = p THEN <<w[1], "copied">> ELSE w : w \in owed[t]}
        BY <3>1
      <4>2. PICK w \in owed[t] : x = IF w[2] = "page" /\ PageOf(w[1]) = p THEN <<w[1], "copied">> ELSE w
        BY <3>4, <4>1
      <4>3. w[2] # "disk" /\ x[1] = w[1] /\ (w[2] = "copied" \/ PageOf(w[1]) = p => x[2] = "copied" \/ w[2] # "page")
        BY <3>4, <4>2
      <4>4. w[2] \in {"page", "copied"}
        BY <1>b, <4>3 DEF OwedOf
      <4>5. PageOf(w[1]) \in todo[t]
        BY <1>b, <2>1, <3>4, <4>3 DEF FsyncOf
      <4>6. QED
        BY <3>1, <4>2, <4>3, <4>4, <4>5
    <3>5. FsyncOf(t)'
      BY <2>1, <2>4, <2>7, <3>2, <3>4 DEF FsyncOf
    <3>6. QED
      BY <2>2, <3>3, <3>5 DEF SyncSelf
  <2>8. QED
    BY <2>5, <2>6, <2>7
<1>6. CASE WritePage(t)
  <2>1. /\ pc[t] = "syncWrite" /\ pc'[t] = "syncFinish"
        /\ UNCHANGED <<slot, cache, held, op, after, snap, todo>>
    BY <1>a, <1>6 DEF WritePage
  <2>2. SyncOpOf(t)'
    BY <1>b, <2>1 DEF SyncOpOf
  <2>3. CurrentPages' = CurrentPages /\ InCore' = InCore
    BY <2>1 DEF CurrentPages, InCore
  <2>4. DrainOf(t)'
    BY <1>b, <2>1, <2>3 DEF DrainOf
  <2>5. /\ owed[t] = {} => owed'[t] = {}
        /\ \A x \in owed'[t] : x[2] # "disk" =>
              \E w \in owed[t] : w[1] = x[1] /\ w[2] # "disk" /\ x[2] \in {w[2], "copied"}
    <3>1. ~\E kind \in {"fsync", "fdatasync"} : StartSync(t, kind)
      BY <2>1 DEF StartSync
    <3>2. QED
      BY <1>a, <3>1, OwedFrom
  <2>6. ASSUME op[t].by \in {"fsync", "fdatasync"}, NEW x \in owed'[t], x[2] # "disk"
        PROVE  PageOf(x[1]) \in todo[t]
    <3>1. PICK w \in owed[t] : w[1] = x[1] /\ w[2] # "disk" /\ x[2] \in {w[2], "copied"}
      BY <2>5, <2>6
    <3>2. PageOf(w[1]) \in todo[t] \/ (PageOf(w[1]) = snap.page /\ w[2] = "copied")
      BY <1>b, <2>1, <2>6, <3>1 DEF FsyncOf
    <3>3. x[1] \in Cells /\ x[1] < size
      BY <1>b, <3>1 DEF OwedOf, InPage
    <3>4. QED
      BY <1>6, <2>6, <3>1, <3>2, <3>3, ReachedDisk
  <2>7. FsyncOf(t)'
    BY <1>b, <2>1, <2>5, <2>6 DEF FsyncOf
  <2>8. QED
    BY <2>2, <2>4, <2>7 DEF SyncSelf
<1>7. CASE FinishWriteback(t)
  <2>1. /\ pc[t] = "syncFinish" /\ pc'[t] = "syncPage" /\ snap.page \in InCore
        /\ UNCHANGED <<slot, held, op, after, todo, owed>>
    BY <1>a, <1>7, CopiedPage DEF FinishWriteback
  <2>2. SyncOpOf(t)'
    BY <1>b, <2>1 DEF SyncOpOf
  <2>3. FsyncOf(t)'
    BY <1>b, <2>1 DEF FsyncOf
  <2>4. Only(snap.page, Finished(CurrentPages[snap.page]))
    BY <1>7, FinishPages
  <2>5. ASSUME snap.fresh, NEW p \in InCore', CurrentPages'[p].dirty
        PROVE  p \in InCore /\ p # snap.page /\ CurrentPages[p].dirty
    <3>1. snap.fresh => ~Finished(CurrentPages[snap.page]).dirty
      BY <2>1, <1>a DEF Finished, DataType, PageRecs
    <3>2. QED
      BY <2>1, <2>4, <2>5, <3>1 DEF Only
  <2>6. DrainOf(t)'
    BY <1>b, <2>1, <2>5 DEF DrainOf
  <2>7. QED
    BY <2>2, <2>3, <2>6 DEF SyncSelf
<1>8. CASE HostSyncRange(t)
  <2>1. /\ pc[t] = "syncHost" /\ UNCHANGED <<slot, cache, held, snap, todo>>
        /\ pc'[t] = (IF op[t].by = "drain" THEN "dead" ELSE "release")
        /\ after'[t] = AfterSync(t, TRUE)
        /\ owed'[t] = {w \in owed[t] : w[2] # "disk"}
    BY <1>a, <1>8 DEF HostSyncRange, SyncReturn, HostSynced
  <2>2. held'[t] # None /\ SyncOpOf(t)'
    BY <1>d, <2>1 DEF SyncOpOf
  <2>3. CurrentPages' = CurrentPages /\ InCore' = InCore
    BY <2>1 DEF CurrentPages, InCore
  <2>4. DrainOf(t)'
    BY <1>b, <2>1, <2>3 DEF DrainOf
  <2>5. op[t].by \in {"fsync", "fdatasync"} => owed'[t] = {}
    BY <1>b, <2>1 DEF FsyncOf
  <2>6. after'[t] # "idle" => owed'[t] = {}
    <3>1. CASE op[t].by = "drain"
      BY <1>b, <2>1, <3>1 DEF AfterSync, FsyncOf
    <3>2. CASE op[t].by = "msync"
      BY <2>1, <3>2 DEF AfterSync
    <3>3. QED
      BY <1>a, <2>1, <2>5, <3>1, <3>2 DEF OpOf
  <2>7. FsyncOf(t)'
    BY <2>1, <2>6 DEF FsyncOf
  <2>8. QED
    BY <2>2, <2>4, <2>7 DEF SyncSelf
<1>9. CASE RetainForSync(t)
  <2>1. pc[t] = "retain" /\ UNCHANGED <<owed, after, slot>>
    BY <1>9 DEF RetainForSync
  <2>2. \/ pc'[t] = "syncLock" /\ op' = op
        \/ pc'[t] = "retain" /\ op' = op
        \/ pc'[t] = "hostSync" /\ slot = None
    BY <1>a, <1>9, <2>1 DEF RetainForSync
  <2>3. after'[t] = "idle"
    BY <1>c, <2>1
  <2>4. SyncOpOf(t)'
    BY <1>b, <2>1, <2>2, <2>3 DEF SyncOpOf
  <2>5. DrainOf(t)'
    BY <2>2 DEF DrainOf
  <2>6. slot = None => \A w \in owed[t] : w[2] = "disk"
    BY <1>b DEF OwedOf, InPage, InCore, CurrentPages, NoCache
  <2>7. FsyncOf(t)'
    BY <2>1, <2>2, <2>3, <2>6 DEF FsyncOf
  <2>8. QED
    BY <2>4, <2>5, <2>7 DEF SyncSelf
<1>10. CASE HostSync(t)
  <2>1. pc[t] = "hostSync" /\ pc'[t] = "synced" /\ after' = after
        /\ owed'[t] = {w \in owed[t] : w[2] # "disk"}
    BY <1>a, <1>10 DEF HostSync, HostSynced
  <2>2. owed'[t] = {} /\ after'[t] = "idle"
    BY <1>b, <1>c, <2>1 DEF FsyncOf
  <2>3. QED
    BY <2>1, <2>2 DEF SyncSelf, SyncOpOf, DrainOf, FsyncOf
<1>11. CASE \E kind \in {"fsync", "fdatasync"} : StartSync(t, kind)
  <2>1. pc[t] = "idle" /\ pc'[t] = "retain" /\ op'[t].range = Pages /\ after' = after
    BY <1>a, <1>11 DEF StartSync
  <2>2. after'[t] = "idle"
    BY <1>c, <2>1
  <2>3. QED
    BY <2>1, <2>2 DEF SyncSelf, SyncOpOf, DrainOf, FsyncOf
<1>12. CASE \E p \in Pages : Msync(t, p)
  <2>1. pc[t] = "idle" /\ pc'[t] = "syncLock" /\ op'[t].by = "msync" /\ after' = after
    BY <1>a, <1>12 DEF Msync
  <2>2. after'[t] = "idle"
    BY <1>c, <2>1
  <2>3. QED
    BY <2>1, <2>2 DEF SyncSelf, SyncOpOf, DrainOf, FsyncOf
<1>13. QED
  BY <1>1, <1>2, <1>3, <1>4, <1>5, <1>6, <1>7, <1>8, <1>9, <1>10, <1>11, <1>12 DEF SyncStep

\* Only the thread itself sets where it goes on after a release.
LEMMA AfterOther ==
    ASSUME TypeInv, NEW t \in Threads, Step(t) \/ Choice(t), NEW u \in Threads, u # t
    PROVE  after'[u] = after[u]
<1>1. after' = after \/ \E l : after' = [after EXCEPT ![t] = l]
  <2>1. ASSUME Step(t) PROVE after' = after \/ \E l : after' = [after EXCEPT ![t] = l]
    BY <2>1 DEF Step, BeginIo, LockIo, LockIoBare, HostRead, HostWrite, HostResize, HostFails,
         CommitRead, CommitWrite, CommitResize, EndIo, Release, Drain, Destroy, FailedDrain,
         NotifyFailedDrain, SyncLock, CopyDirty, WritePage, WritePageFails, FinishWriteback,
         HostSyncRange, HostSyncRangeFails, RetainForSync, HostSync, HostSyncFails, SyncReturns,
         MapFails, CreatePager, JoinPager, InstallPager, UpgradeWriter
  <2>2. ASSUME Choice(t) PROVE after' = after
    BY <2>2 DEF Choice, StartIo, StartSync, StartMap, GetPage, Msync, Store, Unmap, RetryOrphans
  <2>3. QED
    BY <2>1, <2>2
<1>2. QED
  BY <1>1 DEF TypeInv

\* The syncs of the others go on as before.
LEMMA SyncOther ==
    ASSUME PagerInv, DataInv, OwedInv, NEW t \in Threads, Step(t) \/ Choice(t),
           NEW u \in Threads, u # t
    PROVE  SyncSelf(u)'
<1>0. TypeInv /\ DOMAIN owed = Threads /\ SyncOpOf(u) /\ DrainOf(u) /\ FsyncOf(u)
  BY DEF PagerInv, HoldInv, OwedInv
<1>1. /\ pc'[u] = pc[u] /\ op'[u] = op[u] /\ held'[u] = held[u] /\ todo'[u] = todo[u]
      /\ after'[u] = after[u]
  BY <1>0, OtherThreads, AfterOther
<1>2. SyncOpOf(u)'
  BY <1>0, <1>1 DEF SyncOpOf
<1>3. DrainOf(u)'
  BY <1>0, DrainOther
<1>4. /\ owed[u] = {} => owed'[u] = {}
      /\ \A x \in owed'[u] : x[2] # "disk" =>
            \E w \in owed[u] : w[1] = x[1] /\ w[2] # "disk" /\ x[2] \in {w[2], "copied"}
  BY <1>0, OwedFrom
<1>5. pc[u] = "syncWrite" => snap'.page = snap.page
  BY <1>0, CopyKept
<1>6. FsyncOf(u)'
  BY <1>0, <1>1, <1>4, <1>5 DEF FsyncOf
<1>7. QED
  BY <1>2, <1>3, <1>6 DEF SyncSelf

\* Every step of a thread keeps account of what is owed.
LEMMA AccountThread ==
    ASSUME PagerInv, PagerInv', DataInv, HolderInv', OwedInv, NEW t \in Threads, Step(t) \/ Choice(t)
    PROVE  OwedInv'
<1>0. HoldInv /\ DOMAIN owed = Threads /\ SyncOpOf(t) /\ SyncSelf(t)
  BY DEF PagerInv, OwedInv, SyncSelf
<1>1. DOMAIN owed' = Threads
  BY <1>0, OwedFrom
<1>2. \A u \in Threads : OwedOf(u)'
  BY OwedThread
<1>3. SyncSelf(t)'
  BY <1>0, SyncKinds, SyncStepSelf, AsideSelf
<1>4. \A u \in Threads : SyncSelf(u)'
  BY <1>3, SyncOther
<1>5. QED
  BY <1>1, <1>2, <1>4 DEF OwedInv, SyncSelf

\* Steps that touch none of it.
LEMMA AccountUnchanged ==
    ASSUME OwedInv, UNCHANGED <<size, slot, cache, pc, op, held, todo, snap, after, owed>>
    PROVE  OwedInv'
<1>1. CurrentPages' = CurrentPages /\ InCore' = InCore
  BY DEF CurrentPages, InCore
<1>2. \A c : (Pending(c)' <=> Pending(c))
  BY DEF Pending, PendingOf, Resident
<1>3. \A p : (Finishing(p)' <=> Finishing(p))
  BY DEF Finishing
<1>4. \A c : InPage(c) => InPage(c)'
  BY <1>1, <1>2, <1>3 DEF InPage
<1>5. \A t \in Threads : OwedOf(t)'
  BY <1>4 DEF OwedInv, OwedOf
<1>6. \A t \in Threads : SyncOpOf(t)' /\ DrainOf(t)' /\ FsyncOf(t)'
  BY <1>1 DEF OwedInv, SyncOpOf, DrainOf, FsyncOf
<1>7. QED
  BY <1>5, <1>6 DEF OwedInv

\* The contents and what is owed at every step.
LEMMA DataStep ==
    ASSUME PagerInv, PagerInv', DataInv, OwedInv, ~HoleWrites, [Next]_vars
    PROVE  DataInv' /\ OwedInv'
<1>1. ASSUME NEW t \in Threads, Step(t) \/ Choice(t) PROVE DataInv' /\ OwedInv'
  <2>1. DataInv'
    BY <1>1, DataThread DEF OwedInv
  <2>2. OwedInv'
    BY <1>1, <2>1, AccountThread DEF DataInv
  <2>3. QED
    BY <2>1, <2>2
<1>2. ASSUME NEW c \in Cells, NEW v \in Values, HostStore(c, v) PROVE DataInv' /\ OwedInv'
  <2>1. OwedInv'
    BY <1>2, AccountUnchanged DEF HostStore
  <2>2. QED
    BY <1>2, <2>1, DataHostStore
<1>3. ASSUME BeginHostMap \/ EndHostMap \/ Quiet \/ UNCHANGED vars PROVE DataInv' /\ OwedInv'
  BY <1>3, DataUnchanged, AccountUnchanged DEF BeginHostMap, EndHostMap, Quiet, vars
<1>4. QED
  BY <1>1, <1>2, <1>3 DEF Next

\* Nothing is owed at the start.
LEMMA AccountInit == Init => OwedInv
<1> SUFFICES ASSUME Init PROVE OwedInv
  OBVIOUS
<1>1. /\ pc = [t \in Threads |-> "idle"] /\ owed = [t \in Threads |-> {}]
      /\ after = [t \in Threads |-> "idle"]
  BY DEF Init
<1>2. QED
  BY <1>1 DEF OwedInv, SyncOpOf, DrainOf, OwedOf, FsyncOf, Syncing

----------------------------------------------------------------------------
(* The theorems on contents *)

\* The inductive invariant of contents, for programs that leave no hole.
THEOREM DataInvariant == ASSUME ~HoleWrites PROVE Spec => [](DataInv /\ OwedInv)
<1>1. Init => DataInv /\ OwedInv
  BY DataInit, AccountInit
<1>2. PagerInv /\ PagerInv' /\ (DataInv /\ OwedInv) /\ [Next]_vars => (DataInv /\ OwedInv)'
  BY DataStep
<1>3. QED
  BY <1>1, <1>2, PagerInvariant, PTL DEF Spec

\* For every number of threads, pages and failures, as long as no write leaves a hole: when
\* fsync or fdatasync returns success, every store and every write-back before the call has
\* reached the host file, and the host has made it durable.
THEOREM FsyncDurableHolds == ASSUME ~HoleWrites PROVE Spec => []FsyncDurable
<1>1. DataInv /\ OwedInv => FsyncDurable
  BY DEF OwedInv, FsyncOf, FsyncDurable
<1>2. QED
  BY <1>1, DataInvariant, PTL

\* For every number of threads, pages and failures, as long as no write leaves a hole: a
\* resident page that counts as clean is what the host file holds whenever nobody has
\* file_io_lock.
THEOREM CleanPageIsFileHolds == ASSUME ~HoleWrites PROVE Spec => []CleanPageIsFile
<1>1. PagerInv /\ DataInv => CleanPageIsFile
  <2> SUFFICES ASSUME PagerInv, DataInv, ioLock = None, NEW p \in InCore, ~CurrentPages[p].dirty,
                      NEW c \in CellsOf(p), c < size
               PROVE  CurrentPages[p].bytes[c] = disk[c]
    BY DEF CleanPageIsFile, InCore
  <2>1. c \in Cells /\ PageOf(c) = p
    BY DEF CellsOf
  <2>2. \A t \in Threads : pc[t] # "commit"
    BY SizesAssumption DEF PagerInv, LockInv, LockOf, Locked
  <2>3. ~Pending(c)
    BY <2>2, NotPending DEF Pending, Working
  <2>4. QED
    BY <2>1, <2>3 DEF DataInv, CleanInv
<1>2. QED
  BY <1>1, PagerInvariant, DataInvariant, PTL

----------------------------------------------------------------------------
(* The refinement of CoherentFile *)

\* What a thread has called, what its read has found, and what it returns.
CallOf(t) ==
    /\ pc[t] \in {"begin", "lock", "bare", "host"} => op[t].kind \in {"read", "write", "resize", "grow"}
    /\ pc[t] = "commit" /\ op[t].kind = "read" =>
          op[t].cell \in Cells /\ op[t].cell < size /\ PageOf(op[t].cell) \in InCore
    /\ pc[t] # "end" => out[t] = None

Budgets == [ops : Nat, stores : Nat, fails : Nat]

CallInv == out = [t \in Threads |-> out[t]] /\ budget \in Budgets /\ \A t \in Threads : CallOf(t)

----------------------------------------------------------------------------
(* Calls *)

\* Spending.
LEMMA Spending ==
    ASSUME budget \in Budgets
    PROVE  /\ Spend("ops") \/ Spend("fails") => budget' \in Budgets /\ budget'.stores = budget.stores
           /\ Spend("stores") => budget' \in Budgets /\ budget'.stores = budget.stores - 1
BY DEF Budgets, Spend


\* Labels of an operation that has had no effect yet.
Asking == {"begin", "lock", "bare", "host"}

\* A step that neither calls, nor takes effect, nor returns.
Plain(t) ==
    /\ pc[t] \notin {"commit", "end"} /\ pc'[t] \notin {"commit", "end"}
    /\ pc'[t] \in Asking <=> pc[t] \in Asking
    /\ pc[t] \in Asking => op' = op
    /\ out' = out /\ budget' \in Budgets /\ budget'.stores = budget.stores

\* The other steps.
Visible(t) ==
    \/ \E kind \in {"read", "write", "resize", "grow"} : StartIo(t, kind)
    \/ HostRead(t) \/ HostWrite(t) \/ HostResize(t) \/ HostFails(t)
    \/ CommitRead(t) \/ CommitWrite(t) \/ CommitResize(t) \/ EndIo(t)
    \/ \E c \in Cells, v \in Values : Store(t, c, v)

\* Every step of a thread is one of these.
LEMMA CallKinds ==
    ASSUME TypeInv, budget \in Budgets, NEW t \in Threads, Step(t) \/ Choice(t)
    PROVE  Plain(t) \/ Visible(t)
<1>a. /\ DOMAIN op = Threads /\ DOMAIN pc = Threads /\ budget \in Budgets
      /\ after[t] \in {"idle", "synced", "hostSync"}
  BY DEF TypeInv
<1>b. Spend("ops") \/ Spend("fails") => budget' \in Budgets /\ budget'.stores = budget.stores
  BY Spending
<1> USE DEF Plain, Asking
<1>1. ASSUME BeginIo(t) PROVE Plain(t)
  BY <1>a, <1>1 DEF BeginIo
<1>2. ASSUME LockIo(t) PROVE Plain(t)
  BY <1>a, <1>2 DEF LockIo
<1>3. ASSUME LockIoBare(t) PROVE Plain(t)
  BY <1>a, <1>3 DEF LockIoBare
<1>4. ASSUME Release(t) PROVE Plain(t)
  BY <1>a, <1>4 DEF Release
<1>5. ASSUME Drain(t) PROVE Plain(t)
  BY <1>a, <1>5 DEF Drain
<1>6. ASSUME Destroy(t) PROVE Plain(t)
  BY <1>a, <1>6 DEF Destroy
<1>7. ASSUME FailedDrain(t) PROVE Plain(t)
  BY <1>a, <1>7 DEF FailedDrain
<1>8. ASSUME NotifyFailedDrain(t) PROVE Plain(t)
  BY <1>a, <1>8 DEF NotifyFailedDrain
<1>9. ASSUME SyncLock(t) PROVE Plain(t)
  BY <1>a, <1>9 DEF SyncLock
<1>10. ASSUME CopyDirty(t) PROVE Plain(t)
  BY <1>a, <1>10 DEF CopyDirty
<1>11. ASSUME WritePage(t) PROVE Plain(t)
  BY <1>a, <1>11 DEF WritePage
<1>12. ASSUME WritePageFails(t) PROVE Plain(t)
  BY <1>a, <1>12, <1>b DEF WritePageFails, SyncReturn
<1>13. ASSUME FinishWriteback(t) PROVE Plain(t)
  BY <1>a, <1>13 DEF FinishWriteback
<1>14. ASSUME HostSyncRange(t) PROVE Plain(t)
  BY <1>a, <1>14 DEF HostSyncRange, SyncReturn
<1>15. ASSUME HostSyncRangeFails(t) PROVE Plain(t)
  BY <1>a, <1>15, <1>b DEF HostSyncRangeFails, SyncReturn
<1>16. ASSUME RetainForSync(t) PROVE Plain(t)
  BY <1>a, <1>16 DEF RetainForSync
<1>17. ASSUME HostSync(t) PROVE Plain(t)
  BY <1>a, <1>17 DEF HostSync
<1>18. ASSUME HostSyncFails(t) PROVE Plain(t)
  BY <1>a, <1>18, <1>b DEF HostSyncFails
<1>19. ASSUME SyncReturns(t) PROVE Plain(t)
  BY <1>a, <1>19 DEF SyncReturns
<1>20. ASSUME MapFails(t) PROVE Plain(t)
  BY <1>a, <1>20, <1>b DEF MapFails
<1>21. ASSUME CreatePager(t) PROVE Plain(t)
  BY <1>a, <1>21 DEF CreatePager
<1>22. ASSUME JoinPager(t) PROVE Plain(t)
  BY <1>a, <1>22 DEF JoinPager, DropCandidate
<1>23. ASSUME InstallPager(t) PROVE Plain(t)
  BY <1>a, <1>23 DEF InstallPager, DropCandidate
<1>24. ASSUME UpgradeWriter(t) PROVE Plain(t)
  BY <1>a, <1>24 DEF UpgradeWriter, DropCandidate
<1>25. ASSUME Unmap(t) PROVE Plain(t)
  BY <1>a, <1>25 DEF Unmap
<1>26. ASSUME RetryOrphans(t) PROVE Plain(t)
  BY <1>a, <1>26, <1>b DEF RetryOrphans
<1>27. ASSUME NEW kind \in {"fsync", "fdatasync"}, StartSync(t, kind) PROVE Plain(t)
  BY <1>a, <1>27, <1>b DEF StartSync
<1>28. ASSUME NEW w \in BOOLEAN, StartMap(t, w) PROVE Plain(t)
  BY <1>a, <1>28, <1>b DEF StartMap
<1>29. ASSUME NEW p \in Pages, GetPage(t, p) PROVE Plain(t)
  BY <1>a, <1>29 DEF GetPage
<1>30. ASSUME NEW p \in Pages, Msync(t, p) PROVE Plain(t)
  BY <1>a, <1>30, <1>b DEF Msync
<1>31. QED
  BY <1>1, <1>2, <1>3, <1>4, <1>5, <1>6, <1>7, <1>8, <1>9, <1>10, <1>11, <1>12, <1>13,
     <1>14, <1>15, <1>16, <1>17, <1>18, <1>19, <1>20, <1>21, <1>22, <1>23, <1>24, <1>25,
     <1>26, <1>27, <1>28, <1>29, <1>30
     DEF Step, Choice, Visible

\* Only the thread itself sets what it returns.
LEMMA OutOther ==
    ASSUME TypeInv, CallInv, NEW t \in Threads, Step(t) \/ Choice(t)
    PROVE  /\ out' = [u \in Threads |-> out'[u]] /\ \A u \in Threads : u # t => out'[u] = out[u]
           /\ budget' \in Budgets
           /\ budget'.stores = budget.stores \/ \E c \in Cells, v \in Values : Store(t, c, v)
<1>0. out = [u \in Threads |-> out[u]] /\ DOMAIN out = Threads /\ budget \in Budgets
  BY DEF CallInv
<1>1. Spend("ops") \/ Spend("fails") => budget' \in Budgets /\ budget'.stores = budget.stores
  BY <1>0, Spending
<1>2. Spend("stores") => budget' \in Budgets
  BY <1>0, Spending
<1>3. ASSUME NEW kind \in {"read", "write", "resize", "grow"}, StartIo(t, kind)
      PROVE  out' = out /\ budget' \in Budgets /\ budget'.stores = budget.stores
  BY <1>1, <1>3 DEF StartIo
<1>4. ASSUME NEW c \in Cells, NEW v \in Values, Store(t, c, v)
      PROVE  out' = out /\ budget' \in Budgets
  BY <1>2, <1>4 DEF Store
<1>5. ASSUME \/ HostRead(t) \/ HostWrite(t) \/ HostResize(t) \/ HostFails(t)
             \/ CommitRead(t) \/ CommitWrite(t) \/ CommitResize(t) \/ EndIo(t)
      PROVE  /\ out' = [u \in Threads |-> out'[u]] /\ \A u \in Threads : u # t => out'[u] = out[u]
             /\ budget' \in Budgets /\ budget'.stores = budget.stores
  <2>1. budget' \in Budgets /\ budget'.stores = budget.stores
    BY <1>0, <1>1, <1>5 DEF HostRead, HostWrite, HostResize, HostFails, CommitRead, CommitWrite,
       CommitResize, EndIo
  <2>2. out' = out \/ \E x : out' = [out EXCEPT ![t] = x]
    BY <1>5 DEF HostRead, HostWrite, HostResize, HostFails, CommitRead, CommitWrite,
       CommitResize, EndIo
  <2>3. QED
    BY <1>0, <2>1, <2>2
<1>6. QED
  BY <1>0, <1>3, <1>4, <1>5, CallKinds DEF Visible, Plain

\* A thread's own step.
LEMMA CallSelf ==
    ASSUME PagerInv, HolderInv, CallInv, NEW t \in Threads, Step(t) \/ Choice(t)
    PROVE  CallOf(t)'
<1> USE DEF PagerInv, HoldInv
<1>0. /\ TypeInv /\ CallOf(t) /\ DOMAIN op = Threads /\ DOMAIN pc = Threads /\ DOMAIN out = Threads
      /\ budget \in Budgets
  BY DEF CallInv, TypeInv
<1>1. CASE Plain(t)
  BY <1>0, <1>1 DEF Plain, Asking, CallOf
<1>2. CASE \E kind \in {"read", "write", "resize", "grow"} : StartIo(t, kind)
  BY <1>0, <1>2 DEF StartIo, CallOf
<1>3. CASE HostRead(t)
  <2>1. InCore' = InCore /\ size' = size
    BY <1>3 DEF HostRead, InCore, CurrentPages
  <2>2. Resident(t) = InCore
    BY <1>3, PendingIs DEF HostRead
  <2>3. \/ pc'[t] = "end"
        \/ /\ pc'[t] = "commit" /\ out' = out /\ pc[t] = "host"
           /\ \E c \in Cells : op'[t] = [kind |-> "read", cell |-> c] /\ c < size /\ PageOf(c) \in InCore
    BY <1>0, <1>3, <2>2 DEF HostRead
  <2>4. CASE pc'[t] = "end"
    BY <2>4 DEF CallOf
  <2>5. CASE pc'[t] # "end"
    <3>1. PICK c \in Cells : op'[t] = [kind |-> "read", cell |-> c] /\ c < size /\ PageOf(c) \in InCore
      BY <2>3, <2>5
    <3>2. op'[t].cell = c /\ pc'[t] = "commit" /\ out'[t] = None
      BY <1>0, <2>3, <2>5, <3>1 DEF CallOf
    <3>3. QED
      BY <2>1, <3>1, <3>2 DEF CallOf
  <2>6. QED
    BY <2>4, <2>5
<1>4. CASE HostWrite(t) \/ HostResize(t) \/ HostFails(t)
  <2>1. pc[t] = "host" /\ out' = out
    BY <1>4 DEF HostWrite, HostResize, HostFails
  <2>2. pc'[t] = "end" \/ (pc'[t] = "commit" /\ op'[t].kind # "read")
    <3>1. CASE HostWrite(t)
      <4>1. PICK first \in Cells, last \in Cells, v \in Values : Writes(t, first, last, v)
        BY <1>0, <3>1, WriteEffect
      <4>2. QED
        BY <4>1 DEF Writes
    <3>2. CASE HostResize(t)
      <4>1. pc'[t] \in {"commit", "end"}
        BY <1>0, <3>2 DEF HostResize
      <4>2. ASSUME pc'[t] = "commit" PROVE op'[t].kind = "resize"
        <5>1. PICK new \in 0 .. FileCells : Cuts(t, new)
          BY <1>0, <3>2, <4>2, ResizeEffect
        <5>2. QED
          BY <5>1 DEF Cuts
      <4>3. QED
        BY <4>1, <4>2
    <3>3. CASE HostFails(t)
      BY <1>0, <3>3 DEF HostFails
    <3>4. QED
      BY <1>4, <3>1, <3>2, <3>3
  <2>3. QED
    BY <1>0, <2>1, <2>2 DEF CallOf
<1>5. CASE CommitRead(t) \/ CommitWrite(t) \/ CommitResize(t) \/ EndIo(t)
  BY <1>0, <1>5 DEF CommitRead, CommitWrite, CommitResize, EndIo, CallOf
<1>6. CASE \E c \in Cells, v \in Values : Store(t, c, v)
  BY <1>0, <1>6 DEF Store, CallOf
<1>7. QED
  BY <1>0, <1>1, <1>2, <1>3, <1>4, <1>5, <1>6, CallKinds DEF Visible

\* Every step of a thread.
LEMMA CallThread ==
    ASSUME PagerInv, HolderInv, DOMAIN owed = Threads, CallInv, NEW t \in Threads, Step(t) \/ Choice(t)
    PROVE  CallInv'
<1>0. TypeInv
  BY DEF PagerInv, HoldInv
<1>1. ASSUME NEW u \in Threads, u # t PROVE CallOf(u)'
  <2>1. pc'[u] = pc[u] /\ op'[u] = op[u] /\ out'[u] = out[u]
    BY <1>0, <1>1, OtherThreads, OutOther
  <2>2. pc[u] = "commit" => InCore' = InCore /\ size' = size
    BY <1>1, CommitCore
  <2>3. CallOf(u)
    BY DEF CallInv
  <2>4. QED
    BY <2>1, <2>2, <2>3 DEF CallOf
<1>2. CallOf(t)'
  BY CallSelf
<1>3. QED
  BY <1>0, <1>1, <1>2, OutOther DEF CallInv

\* The calls at every step.
LEMMA CallStep ==
    ASSUME PagerInv, HolderInv, DOMAIN owed = Threads, CallInv, [Next]_vars
    PROVE  CallInv'
<1>1. ASSUME NEW t \in Threads, Step(t) \/ Choice(t) PROVE CallInv'
  BY <1>1, CallThread
<1>2. ASSUME \/ \E c \in Cells, v \in Values : HostStore(c, v)
             \/ BeginHostMap \/ EndHostMap \/ Quiet \/ UNCHANGED vars
      PROVE  CallInv'
  <2>1. UNCHANGED <<size, slot, cache, pc, op, out>>
    BY <1>2 DEF HostStore, BeginHostMap, EndHostMap, Quiet, vars
  <2>2. InCore' = InCore
    BY <2>1 DEF InCore, CurrentPages
  <2>3. budget' = budget \/ Spend("ops") \/ Spend("stores")
    BY <1>2 DEF HostStore, BeginHostMap, EndHostMap, Quiet, vars
  <2>4. budget' \in Budgets
    BY <2>3, Spending DEF CallInv
  <2>5. QED
    BY <2>1, <2>2, <2>4 DEF CallInv, CallOf
<1>3. QED
  BY <1>1, <1>2 DEF Next

\* The calls at the start.
LEMMA CallInit == Init => CallInv
<1> SUFFICES ASSUME Init PROVE CallInv
  OBVIOUS
<1>1. /\ pc = [t \in Threads |-> "idle"] /\ out = [t \in Threads |-> None]
      /\ budget = [ops |-> MaxOps, stores |-> MaxStores, fails |-> MaxFailures]
  BY DEF Init
<1>2. QED
  BY <1>1, SizesAssumption DEF CallInv, CallOf, Budgets

----------------------------------------------------------------------------
(* The content of the file *)

ValueOf(c) == IF PageOf(c) \in InCore THEN CurrentPages[PageOf(c)].bytes[c] ELSE disk[c]

\* Which cells the file has.
LEMMA ExistsIs ==
    ASSUME HoldInv, LockInv, HolderInv, NEW c \in Cells
    PROVE  /\ ~Pending(c) => (Exists(c) <=> c < size)
           /\ \A t \in Threads : Working(t) /\ c \in PendingOf(t) => (Exists(c) <=> c < op[t].old)
<1>1. ~Pending(c) => (Exists(c) <=> c < size)
  BY DEF Pending, Exists
<1>2. ASSUME NEW t \in Threads, Working(t), c \in PendingOf(t) PROVE Exists(c) <=> c < op[t].old
  <2>1. \A u \in Threads : u # t => PendingOf(u) = {}
    BY <1>2, PendingIs, NotPending DEF Working, Locked
  <2>2. QED
    BY <1>2, <2>1 DEF Exists
<1>3. QED
  BY <1>1, <1>2

LEMMA ExistsIsNext ==
    ASSUME HoldInv', LockInv', HolderInv', NEW c \in Cells
    PROVE  /\ ~Pending(c)' => (Exists(c)' <=> c < size')
           /\ \A t \in Threads : Working(t)' /\ c \in PendingOf(t)' => (Exists(c)' <=> c < op'[t].old)
<1>1. ~Pending(c)' => (Exists(c)' <=> c < size')
  BY DEF Pending, Exists
<1>2. ASSUME NEW t \in Threads, Working(t)', c \in PendingOf(t)' PROVE Exists(c)' <=> c < op'[t].old
  <2>1. \A u \in Threads : u # t => PendingOf(u)' = {}
    BY <1>2, PendingIsNext, NotPendingNext DEF Working, Locked
  <2>2. QED
    BY <1>2, <2>1 DEF Exists
<1>3. QED
  BY <1>1, <1>2

\* The content cell by cell.
LEMMA ContentIs ==
    /\ DOMAIN Content = {c \in Cells : Exists(c)}
    /\ \A c \in DOMAIN Content : Content[c] = ValueOf(c)
BY DEF Content, ValueOf, InCore

LEMMA ContentIsNext ==
    /\ DOMAIN Content' = {c \in Cells : Exists(c)'}
    /\ \A c \in DOMAIN Content' : Content'[c] = ValueOf(c)'
BY DEF Content, ValueOf, InCore

\* The same cells with the same values.
LEMMA ContentSame ==
    ASSUME \A c \in Cells : Exists(c)' <=> Exists(c),
           \A c \in Cells : Exists(c) => ValueOf(c)' = ValueOf(c)
    PROVE  Content' = Content
<1>1. DOMAIN Content' = DOMAIN Content
  BY ContentIs, ContentIsNext
<1>2. \A c \in DOMAIN Content : Content'[c] = Content[c]
  BY <1>1, ContentIs, ContentIsNext
<1>3. Content = [c \in DOMAIN Content |-> Content[c]] /\ Content' = [c \in DOMAIN Content' |-> Content'[c]]
  BY DEF Content
<1>4. QED
  BY <1>1, <1>2, <1>3

\* A bystander leaves the file the cells it has.
LEMMA ExistsKept ==
    ASSUME PagerInv, PagerInv', HolderInv, HolderInv', DOMAIN owed = Threads,
           NEW t \in Threads, Step(t) \/ Choice(t), Bystander(t), NEW c \in Cells
    PROVE  Exists(c)' <=> Exists(c)
<1>0. TypeInv /\ ~Working(t) /\ size' = size
  BY BystanderIdle DEF PagerInv, HoldInv
<1>1. \A u \in Threads : c \in PendingOf(u)' <=> c \in PendingOf(u)
  BY PendingKept
<1>2. \A u \in Threads : u # t => op'[u] = op[u]
  BY <1>0, OtherThreads
<1>3. c \notin PendingOf(t)
  BY <1>0, NotPending
<1>4. QED
  BY <1>0, <1>1, <1>2, <1>3 DEF Exists

\* Page-in, write-back, the end of a pager and its return are invisible.
LEMMA ContentKept ==
    ASSUME PagerInv, PagerInv', DataInv, HolderInv', OwedInv, NEW t \in Threads, Step(t) \/ Choice(t),
           Bystander(t), ~\E c \in Cells, v \in Values : Store(t, c, v)
    PROVE  Content' = Content
<1> USE DEF PagerInv
<1>0. /\ TypeInv /\ DOMAIN owed = Threads /\ HolderInv /\ DataType /\ CleanInv /\ DrainOf(t)
      /\ ~Working(t) /\ ~Working(t)' /\ size' = size
  BY BystanderIdle DEF HoldInv, OwedInv, DataInv
<1>1. ASSUME NEW c \in Cells
      PROVE  (Pending(c)' <=> Pending(c)) /\ (Exists(c)' <=> Exists(c))
  BY <1>0, PendingKept, ExistsKept
<1>2. ASSUME NEW c \in Cells, Exists(c) PROVE ValueOf(c)' = ValueOf(c)
  <2> DEFINE p == PageOf(c)
  <2>0. c \in CellsOf(p) /\ p \in Pages
    BY CellPage
  <2>1. CASE Steady(t) \/ CopyDirty(t) \/ InstallPager(t) \/ \E kind \in {"fsync", "fdatasync"} : StartSync(t, kind)
    <3>1. PagesSame
      BY <2>1, PagesKept
    <3>2. disk' = disk
      BY <2>1 DEF Steady, CopyDirty, InstallPager, StartSync
    <3>3. QED
      BY <3>1, <3>2 DEF PagesSame, ValueOf
  <2>2. CASE WritePage(t) \/ WritePageFails(t)
    <3>1. PagesSame
      BY <2>2, PagesKept
    <3>2. snap.page \in InCore
      BY <2>2, CopiedPage DEF WritePage, WritePageFails
    <3>3. p # snap.page => disk'[c] = disk[c]
      BY <2>2 DEF WritePage, WritePageFails, CellsOf
    <3>4. QED
      BY <3>1, <3>2, <3>3 DEF PagesSame, ValueOf
  <2>3. CASE FinishWriteback(t)
    <3>1. Only(snap.page, Finished(CurrentPages[snap.page])) /\ disk' = disk
      BY <2>3, FinishPages DEF FinishWriteback
    <3>2. \A q \in InCore : Finished(CurrentPages[q]).bytes = CurrentPages[q].bytes
      BY <1>0 DEF Finished, DataType, PageRecs
    <3>3. QED
      BY <3>1, <3>2 DEF Only, ValueOf
  <2>4. ASSUME NEW q \in Pages, GetPage(t, q) PROVE ValueOf(c)' = ValueOf(c)
    <3>1. disk' = disk /\ ioLock = None
      BY <2>4 DEF GetPage
    <3>2. /\ InCore' = InCore \union {q} /\ q \notin InCore
          /\ \A r \in InCore' : CurrentPages'[r] = IF r = q THEN Loaded(q) ELSE CurrentPages[r]
      BY <2>4, GetPages
    <3>3. ~Pending(c)
      BY <1>0, <3>1, PendingIs, NotPending DEF Pending
    <3>4. c < size
      BY <1>0, <1>2, <3>3, ExistsIs
    <3>5. p = q => Loaded(q).bytes[c] = disk[c]
      BY <2>0, <3>4 DEF Loaded
    <3>6. QED
      BY <3>1, <3>2, <3>5 DEF ValueOf
  <2>5. CASE Destroy(t)
    <3>1. disk' = disk /\ pc[t] = "dead"
      BY <2>5 DEF Destroy
    <3>2. CASE held[t] # slot
      <4>1. CurrentPages' = CurrentPages
        BY <2>5, <3>2, DestroyPages
      <4>2. QED
        BY <3>1, <4>1 DEF ValueOf, InCore
    <3>3. CASE held[t] = slot
      <4>1. InCore' = {}
        BY <2>5, <3>3, DestroyPages
      <4>2. ~Pending(c)
        BY <1>0, <1>1, <4>1, PendingCellsNext
      <4>3. c < size
        BY <1>0, <1>2, <4>2, ExistsIs
      <4>4. p \in InCore => ~CurrentPages[p].dirty
        BY <1>0, <3>1, <3>3 DEF DrainOf
      <4>5. p \in InCore => CurrentPages[p].bytes[c] = disk[c]
        BY <1>0, <4>2, <4>3, <4>4 DEF CleanInv
      <4>6. QED
        BY <3>1, <4>1, <4>5 DEF ValueOf
    <3>4. QED
      BY <3>2, <3>3
  <2>6. QED
    BY <2>1, <2>2, <2>3, <2>4, <2>5 DEF Bystander
<1>3. QED
  BY <1>1, <1>2, ContentSame

\* What other operations have still to change is left alone.
LEMMA ChangingKept ==
    ASSUME PagerInv, PagerInv', HolderInv, HolderInv', DOMAIN owed = Threads,
           NEW t \in Threads, Step(t) \/ Choice(t), Bystander(t)
    PROVE  Changing' = Changing
<1>0. TypeInv /\ ~Working(t) /\ ~Working(t)'
  BY BystanderIdle DEF PagerInv, HoldInv
<1>1. ASSUME NEW u \in Threads PROVE ChangeOf(u)' = ChangeOf(u)
  <2>1. PendingOf(u) \subseteq Cells /\ PendingOf(u)' \subseteq Cells
    BY DEF PendingOf
  <2>2. \A c \in Cells : c \in PendingOf(u)' <=> c \in PendingOf(u)
    BY PendingKept
  <2>3. PendingOf(u)' = PendingOf(u)
    BY <2>1, <2>2
  <2>4. op'[u] = op[u] \/ PendingOf(u) = {}
    BY <1>0, OtherThreads, NotPending
  <2>5. QED
    BY <2>3, <2>4 DEF ChangeOf
<1>2. QED
  BY <1>1 DEF Changing

----------------------------------------------------------------------------
(* Calls, reads and returns *)

\* Only the thread itself changes what it has called.
LEMMA CallsFrame ==
    ASSUME TypeInv, NEW t \in Threads, Step(t) \/ Choice(t)
    PROVE  /\ DOMAIN Calls = Threads /\ Calls[t] = Asked(t)
           /\ Calls' = [Calls EXCEPT ![t] = Asked(t)']
<1>1. \A u \in Threads : u # t => Asked(u)' = Asked(u)
  BY OtherThreads DEF Asked
<1>2. QED
  BY <1>1 DEF Calls

\* A thread that does not work has nothing to change.
LEMMA NothingToChange ==
    ASSUME NEW t \in Threads, ~Working(t)
    PROVE  Changing[t] = File!NoChange
<1>1. PendingOf(t) = {}
  BY NotPending
<1>2. QED
  BY <1>1 DEF Changing, ChangeOf, File!NoChange

\* Steps that change neither the content nor what is to be changed, nor count as a store.
LEMMA Uneventful ==
    ASSUME PagerInv, PagerInv', DataInv, HolderInv', OwedInv, CallInv, NEW t \in Threads,
           Step(t) \/ Choice(t), Bystander(t), ~\E c \in Cells, v \in Values : Store(t, c, v)
    PROVE  /\ UNCHANGED <<Content, Changing, Stored>> /\ Changing[t] = File!NoChange
           /\ DOMAIN Calls = Threads /\ Calls[t] = Asked(t)
           /\ Calls' = [Calls EXCEPT ![t] = Asked(t)']
<1>0. TypeInv /\ HolderInv /\ DOMAIN owed = Threads
  BY DEF PagerInv, HoldInv, DataInv, OwedInv
<1>1. Content' = Content
  BY ContentKept
<1>2. Changing' = Changing
  BY <1>0, ChangingKept
<1>3. Changing[t] = File!NoChange
  BY <1>0, BystanderIdle, NothingToChange
<1>4. Stored' = Stored
  BY <1>0, OutOther DEF Stored
<1>5. QED
  BY <1>0, <1>1, <1>2, <1>3, <1>4, CallsFrame

\* The other steps are invisible.
LEMMA PlainRefines ==
    ASSUME PagerInv, PagerInv', DataInv, HolderInv', OwedInv, CallInv, NEW t \in Threads,
           Step(t) \/ Choice(t), Plain(t)
    PROVE  UNCHANGED File!fileVars
<1>0. TypeInv /\ DOMAIN owed = Threads /\ CallOf(t)
  BY DEF PagerInv, HoldInv, OwedInv, CallInv
<1>1. Bystander(t)
  <2>1. ~HostWrite(t) /\ ~CommitWrite(t) /\ ~CommitResize(t) /\ ~(HostResize(t) /\ pc'[t] = "commit")
    BY <1>0 DEF Plain, HostWrite, CommitWrite, CommitResize, TypeInv
  <2>2. QED
    BY <1>0, <2>1, WorkKinds
<1>2. ~\E c \in Cells, v \in Values : Store(t, c, v)
  <2>1. Stored' = Stored /\ budget.stores \in Nat
    BY DEF Plain, Stored, CallInv, Budgets
  <2>2. Spend("stores") => budget'.stores = budget.stores - 1
    BY Spending DEF CallInv
  <2>3. ~Spend("stores")
    BY <2>1, <2>2 DEF Plain
  <2>4. QED
    BY <2>3 DEF Store
<1>3. Asked(t)' = Asked(t)
  BY DEF Plain, Asking, Asked
<1>4. Calls' = Calls
  <2>1. Calls = [u \in Threads |-> Calls[u]]
    BY DEF Calls
  <2>2. Calls[t] = Asked(t) /\ Calls' = [Calls EXCEPT ![t] = Asked(t)'] /\ DOMAIN Calls = Threads
    BY <1>0, CallsFrame
  <2>3. QED
    BY <1>3, <2>1, <2>2
<1>5. UNCHANGED <<Content, Changing, Stored>>
  BY <1>1, <1>2, Uneventful
<1>6. out' = out
  BY DEF Plain
<1>7. QED
  BY <1>4, <1>5, <1>6 DEF File!fileVars

\* A call.
LEMMA CallRefines ==
    ASSUME PagerInv, PagerInv', DataInv, HolderInv', OwedInv, CallInv, NEW t \in Threads,
           NEW kind \in {"read", "write", "resize", "grow"}, StartIo(t, kind)
    PROVE  \E k \in {"read", "write", "resize"} : File!Call(t, k)
<1> DEFINE k == IF kind = "grow" THEN "resize" ELSE kind
<1>0. Step(t) \/ Choice(t)
  BY DEF Choice
<1>1. /\ pc[t] = "idle" /\ pc'[t] = "begin" /\ op'[t].kind = kind /\ out' = out
      /\ DOMAIN owed = Threads /\ TypeInv
  BY DEF StartIo, PagerInv, HoldInv, TypeInv, OwedInv
<1>2. Bystander(t)
  BY <1>0, <1>1, WorkKinds DEF HostWrite, HostResize, CommitWrite, CommitResize
<1>3. ~\E c \in Cells, v \in Values : Store(t, c, v)
  BY <1>1 DEF Store, TypeInv
<1>4. Asked(t) = "none" /\ Asked(t)' = k
  BY <1>1 DEF Asked
<1>5. /\ UNCHANGED <<Content, Changing, Stored>> /\ Changing[t] = File!NoChange
      /\ Calls[t] = Asked(t) /\ Calls' = [Calls EXCEPT ![t] = Asked(t)']
  BY <1>0, <1>2, <1>3, Uneventful
<1>6. File!Call(t, k)
  BY <1>1, <1>4, <1>5 DEF File!Call
<1>7. QED
  BY <1>6

\* A read, a failure, the end of an operation.
LEMMA ReturnRefines ==
    ASSUME PagerInv, PagerInv', DataInv, HolderInv', OwedInv, CallInv, NEW t \in Threads,
           \/ HostRead(t) \/ HostFails(t) \/ CommitRead(t) \/ EndIo(t)
           \/ HostResize(t) /\ pc'[t] # "commit"
    PROVE  File!Read(t) \/ File!Return(t) \/ UNCHANGED File!fileVars
<1>0. Step(t) \/ Choice(t)
  BY DEF Step
<1>1. /\ DOMAIN owed = Threads /\ TypeInv /\ HolderInv /\ HoldInv /\ LockInv /\ CallOf(t)
      /\ out = [u \in Threads |-> out[u]] /\ DOMAIN pc = Threads /\ DOMAIN op = Threads
  BY DEF PagerInv, HoldInv, TypeInv, OwedInv, DataInv, CallInv
<1>2. Steady(t)
  <2>1. CASE HostRead(t)
    BY <1>1, <2>1 DEF HostRead, Steady, Working
  <2>2. CASE HostFails(t) \/ CommitRead(t) \/ EndIo(t)
    BY <1>1, <2>2 DEF HostFails, CommitRead, EndIo, Steady, Working
  <2>3. CASE HostResize(t) /\ pc'[t] # "commit"
    BY <1>1, <2>3 DEF HostResize, Steady, Working
  <2>4. QED
    BY <2>1, <2>2, <2>3
<1>3. ~\E c \in Cells, v \in Values : Store(t, c, v)
  BY <1>1 DEF Store, HostRead, HostFails, CommitRead, EndIo, HostResize
<1>4. /\ UNCHANGED <<Content, Changing, Stored>> /\ Changing[t] = File!NoChange
      /\ Calls[t] = Asked(t) /\ Calls' = [Calls EXCEPT ![t] = Asked(t)']
      /\ DOMAIN Calls = Threads
  BY <1>0, <1>2, <1>3, Uneventful DEF Bystander
<1>5. ASSUME pc'[t] \notin Asking \union {"commit"}, out'[t] = None, out' = out \/ EndIo(t) PROVE File!Return(t)
  <2>1. Asked(t)' = "none"
    BY <1>5 DEF Asked, Asking
  <2>2. out' = [out EXCEPT ![t] = None]
    BY <1>1, <1>5 DEF EndIo
  <2>3. QED
    BY <1>4, <2>1, <2>2 DEF File!Return
<1>6. ASSUME Asked(t) = "read", pc'[t] = "end", NEW c \in Cells, c < size,
             out' = [out EXCEPT ![t] = ValueOf(c)], pc[t] \in {"host", "commit"}
      PROVE  File!Read(t)
  <2>1. Asked(t)' = "none"
    BY <1>6 DEF Asked
  <2>2. ~Working(t)
    BY <1>2 DEF Steady
  <2>3. ~Pending(c)
    BY <1>1, <1>6, <2>2, PendingIs, NotPending DEF Pending, Locked
  <2>4. Exists(c)
    BY <1>1, <1>6, <2>3, ExistsIs
  <2>5. c \in DOMAIN Content /\ Content[c] = ValueOf(c)
    BY <2>4, ContentIs
  <2>6. QED
    BY <1>4, <1>6, <2>1, <2>5 DEF File!Read
<1>7. CASE HostFails(t) \/ EndIo(t) \/ (HostResize(t) /\ pc'[t] # "commit")
  <2>1. pc'[t] \notin Asking \union {"commit"} /\ (out' = out \/ EndIo(t))
    BY <1>1, <1>7 DEF HostFails, EndIo, HostResize, Asking
  <2>2. out'[t] = None
    BY <1>1, <1>7 DEF HostFails, EndIo, HostResize, CallOf
  <2>3. QED
    BY <1>5, <2>1, <2>2
<1>8. CASE CommitRead(t)
  <2>1. /\ pc[t] = "commit" /\ op[t].kind = "read" /\ pc'[t] = "end"
        /\ op[t].cell \in Cells /\ op[t].cell < size /\ PageOf(op[t].cell) \in InCore
        /\ out' = [out EXCEPT ![t] = cache[held[t]][PageOf(op[t].cell)].bytes[op[t].cell]]
    BY <1>1, <1>8 DEF CommitRead, CallOf
  <2>2. Asked(t) = "read"
    BY <2>1 DEF Asked
  <2>3. held[t] = slot /\ CurrentPages = cache[slot]
    BY <1>1, <2>1 DEF HolderInv, HolderOf, CurrentPages, InCore, NoCache
  <2>4. out' = [out EXCEPT ![t] = ValueOf(op[t].cell)]
    BY <2>1, <2>3 DEF ValueOf
  <2>5. QED
    BY <1>6, <2>1, <2>2, <2>4
<1>9. CASE HostRead(t)
  <2>1. pc[t] = "host" /\ op[t].kind = "read" /\ Resident(t) = InCore /\ Asked(t) = "read"
    BY <1>1, <1>9, PendingIs DEF HostRead, Asked
  <2>2. \/ pc'[t] = "commit" /\ out' = out /\ op'[t].kind = "read"
        \/ pc'[t] = "end" /\ out' = out
        \/ pc'[t] = "end" /\ \E c \in Cells : c < size /\ PageOf(c) \notin InCore /\ out' = [out EXCEPT ![t] = disk[c]]
    BY <1>1, <1>9, <2>1 DEF HostRead
  <2>3. CASE pc'[t] = "commit" /\ out' = out /\ op'[t].kind = "read"
    <3>1. Asked(t)' = Asked(t)
      BY <2>1, <2>3 DEF Asked
    <3>2. Calls = [u \in Threads |-> Calls[u]]
      BY DEF Calls
    <3>3. Calls' = Calls
      BY <1>4, <3>1, <3>2
    <3>4. QED
      BY <1>4, <2>3, <3>3 DEF File!fileVars
  <2>4. CASE pc'[t] = "end" /\ out' = out
    <3>1. out'[t] = None
      BY <1>1, <2>1, <2>4 DEF CallOf
    <3>2. QED
      BY <1>5, <2>4, <3>1 DEF Asking
  <2>5. ASSUME pc'[t] = "end", NEW c \in Cells, c < size, PageOf(c) \notin InCore,
               out' = [out EXCEPT ![t] = disk[c]]
        PROVE  File!Read(t)
    <3>1. ValueOf(c) = disk[c]
      BY <2>5 DEF ValueOf
    <3>2. QED
      BY <1>6, <2>1, <2>5, <3>1
  <2>6. QED
    BY <2>2, <2>3, <2>4, <2>5
<1>10. QED
  BY <1>7, <1>8, <1>9

----------------------------------------------------------------------------
(* Writes and truncations *)

\* Some cells change, some come and some go.
LEMMA ContentChanges ==
    ASSUME NEW w, NEW S \in SUBSET Cells,
           \A c \in Cells : Exists(c)' <=> \/ Exists(c) /\ ~(c \in S /\ w[c] = Gone)
                                           \/ c \in S /\ w[c] # Gone,
           \A c \in Cells : Exists(c)' => ValueOf(c)' = IF c \in S THEN w[c] ELSE ValueOf(c)
    PROVE  Content' = File!WithChanges(Content, w, S)
<1> DEFINE D == (DOMAIN Content \ {d \in S : w[d] = Gone}) \union {d \in S : w[d] # Gone}
<1>1. DOMAIN Content' = D
  BY ContentIs, ContentIsNext
<1>2. ASSUME NEW c \in D PROVE Content'[c] = IF c \in S THEN w[c] ELSE Content[c]
  <2>1. c \in Cells /\ Exists(c)' /\ Content'[c] = ValueOf(c)'
    BY <1>1, ContentIsNext
  <2>2. c \notin S => c \in DOMAIN Content
    OBVIOUS
  <2>3. QED
    BY <2>1, <2>2, ContentIs
<1>3. Content' = [c \in DOMAIN Content' |-> Content'[c]]
  BY DEF Content
<1> HIDE DEF D
<1>4. Content' = [c \in D |-> IF c \in S THEN w[c] ELSE Content[c]]
  BY <1>1, <1>2, <1>3
<1>5. QED
  BY <1>4 DEF File!WithChanges, D

\* While a thread has file_io_lock nobody else has anything to change.
LEMMA ChangingFrame ==
    ASSUME PagerInv, HolderInv, NEW t \in Threads, Step(t) \/ Choice(t), pc[t] \in Locked
    PROVE  /\ Changing' = [Changing EXCEPT ![t] = ChangeOf(t)'] /\ Changing[t] = ChangeOf(t)
           /\ DOMAIN Changing = Threads /\ Changing = [u \in Threads |-> Changing[u]]
           /\ \A u \in Threads : u # t => PendingOf(u) = {} /\ PendingOf(u)' = {}
<1>1. ASSUME NEW u \in Threads, u # t
      PROVE  PendingOf(u) = {} /\ PendingOf(u)' = {} /\ ChangeOf(u)' = ChangeOf(u)
  <2>1. ~Working(u) /\ pc'[u] = pc[u] /\ op'[u] = op[u]
    BY <1>1, PendingIs, OtherThreads DEF PagerInv, HoldInv
  <2>2. ~Working(u)'
    BY <2>1 DEF Working
  <2>3. PendingOf(u) = {} /\ PendingOf(u)' = {}
    BY <2>1, <2>2, NotPending, NotPendingNext
  <2>4. QED
    BY <2>3 DEF ChangeOf
<1>2. QED
  BY <1>1 DEF Changing

\* A write takes effect on the cells that are not resident.
LEMMA WriteRefines ==
    ASSUME PagerInv, PagerInv', DataInv, HolderInv', OwedInv, CallInv, ~HoleWrites,
           NEW t \in Threads, HostWrite(t)
    PROVE  File!Begin(t)
<1>0. Step(t) \/ Choice(t)
  BY DEF Step
<1>1. /\ TypeInv /\ HoldInv /\ LockInv /\ HolderInv /\ HoldInv' /\ LockInv' /\ DataType
      /\ pc[t] = "host" /\ op[t].kind = "write" /\ pc[t] \in Locked /\ out' = out
  BY DEF PagerInv, HoldInv, DataInv, HostWrite, Locked
<1>2. PICK first \in Cells, last \in Cells, v \in Values : Writes(t, first, last, v)
  BY <1>1, WriteEffect
<1>3. /\ Working(t)' /\ op'[t].kind = "write" /\ op'[t].first = first /\ op'[t].last = last
      /\ op'[t].value = v /\ op'[t].old = size /\ pc'[t] = "commit"
      /\ first <= size /\ first .. last \subseteq Cells
      /\ todo'[t] = {PageOf(c) : c \in first .. last}
      /\ size' = IF last >= size THEN last + 1 ELSE size
      /\ disk' = [c \in Cells |-> IF c \in first .. last THEN v ELSE disk[c]]
  BY <1>2 DEF Writes, Working
<1>4. first \in Nat /\ last \in Nat /\ size \in Nat /\ Cells \subseteq Nat /\ Gone \notin Values
  BY <1>1, SizesAssumption DEF Cells, DataType, FileCells
<1>5. InCore' = InCore /\ \A q \in InCore : CurrentPages'[q] = CurrentPages[q]
  BY <1>1, PagesKept DEF PagesSame
<1>6. \A c \in Cells : ~Pending(c)
  BY <1>1, PendingIs, NotPending DEF Pending, Working
<1>7. \A c \in Cells : Exists(c) <=> c < size
  BY <1>1, <1>6, ExistsIs
<1> DEFINE w == [c \in first .. last |-> v]
           S == {c \in first .. last : PageOf(c) \notin InCore}
<1>8. File!WriteChanges(first, last, v) = w
  <2>1. \A d \in Cells : d < first => d \in DOMAIN Content
    <3>1. \A d \in Cells : d < first => d < size
      BY <1>3, <1>4
    <3>2. QED
      BY <1>7, <3>1, ContentIs
  <2>2. (first .. last) \union {d \in Cells : d < first /\ d \notin DOMAIN Content} = first .. last
    BY <2>1
  <2>3. \A c \in first .. last : c >= first
    BY <1>4
  <2>4. QED
    BY <2>2, <2>3 DEF File!WriteChanges
<1>9. \A c \in Cells : /\ c \in PendingOf(t)' <=> PageOf(c) \in InCore /\ c \in first .. last
                       /\ \A u \in Threads : u # t => c \notin PendingOf(u)'
  <2>1. \A c \in first .. last : PageOf(c) \in todo'[t]
    BY <1>3
  <2>2. QED
    BY <1>0, <1>1, <1>3, <1>5, <2>1, PendingCellsNext, ChangingFrame
<1>10. PendingOf(t)' = (first .. last) \ S
  <2>1. PendingOf(t)' \subseteq Cells
    BY DEF PendingOf
  <2>2. QED
    BY <1>3, <1>9, <2>1
<1>11. ChangeOf(t)' = File!Rest(w, S)
  <2>1. ChangeOf(t)' = [c \in (first .. last) \ S |-> v]
    BY <1>3, <1>10 DEF ChangeOf
  <2>2. QED
    BY <2>1 DEF File!Rest
<1>12. ASSUME NEW c \in Cells
       PROVE  /\ Exists(c)' <=> Exists(c) \/ c \in S
              /\ Exists(c)' => ValueOf(c)' = IF c \in S THEN v ELSE ValueOf(c)
  <2>1. Exists(c)' <=> c < size \/ c \in S
    <3>1. CASE c \in PendingOf(t)'
      <4>1. Exists(c)' <=> c < size
        BY <1>1, <1>3, <3>1, ExistsIsNext
      <4>2. c \notin S
        BY <1>9, <3>1
      <4>3. QED
        BY <4>1, <4>2
    <3>2. CASE c \notin PendingOf(t)'
      <4>1. ~Pending(c)'
        BY <1>9, <3>2 DEF Pending
      <4>2. Exists(c)' <=> c < size'
        BY <1>1, <4>1, ExistsIsNext
      <4>3. c < size' <=> c < size \/ c \in first .. last
        BY <1>3, <1>4
      <4>4. c \in first .. last => c \in S
        BY <1>9, <3>2
      <4>5. QED
        BY <4>2, <4>3, <4>4
    <3>3. QED
      BY <3>1, <3>2
  <2>2. ValueOf(c)' = IF c \in S THEN v ELSE ValueOf(c)
    BY <1>3, <1>5 DEF ValueOf
  <2>3. QED
    BY <1>7, <2>1, <2>2
<1>13. Content' = File!WithChanges(Content, w, S)
  <2>1. \A c \in S : w[c] = v /\ w[c] # Gone
    BY <1>4
  <2>2. S \in SUBSET Cells
    BY <1>3
  <2> HIDE DEF w, S
  <2>3. QED
    BY <1>12, <2>1, <2>2, ContentChanges
<1>14. Stored' = Stored
  BY <1>0, <1>1, OutOther DEF Stored, Store
<1>15. Calls[t] = "write" /\ Calls' = [Calls EXCEPT ![t] = "none"]
  <2>1. Asked(t) = "write" /\ Asked(t)' = "none"
    BY <1>1, <1>3 DEF Asked
  <2>2. QED
    BY <1>0, <1>1, <2>1, CallsFrame
<1>16. Changing' = [Changing EXCEPT ![t] = File!Rest(w, S)]
  BY <1>0, <1>1, <1>11, ChangingFrame
<1>17. w \in File!Changes("write") /\ S \in SUBSET DOMAIN w
  BY <1>8 DEF File!Changes
<1> HIDE DEF w, S
<1>18. QED
  BY <1>1, <1>13, <1>14, <1>15, <1>16, <1>17 DEF File!Begin

\* So does a truncation.
LEMMA ResizeRefines ==
    ASSUME PagerInv, PagerInv', DataInv, HolderInv', OwedInv, CallInv,
           NEW t \in Threads, HostResize(t), pc'[t] = "commit"
    PROVE  File!Begin(t)
<1>0. Step(t) \/ Choice(t)
  BY DEF Step
<1>1. /\ TypeInv /\ HoldInv /\ LockInv /\ HolderInv /\ HoldInv' /\ LockInv' /\ DataType /\ TailInv
      /\ pc[t] = "host" /\ op[t].kind \in {"resize", "grow"} /\ pc[t] \in Locked /\ out' = out
  BY DEF PagerInv, HoldInv, DataInv, HostResize, Locked
<1>2. PICK new \in 0 .. FileCells : Cuts(t, new)
  BY <1>1, ResizeEffect
<1>3. /\ Working(t)' /\ op'[t].kind = "resize" /\ op'[t].new = new /\ op'[t].old = size
      /\ pc'[t] = "commit" /\ size' = new
      /\ disk' = [c \in Cells |-> IF c < new THEN disk[c] ELSE Zero]
  BY <1>2 DEF Cuts, Working
<1>4. /\ new \in Nat /\ size \in Nat /\ Cells \subseteq Nat /\ Gone # Zero
  BY <1>1, SizesAssumption DEF Cells, DataType, FileCells
<1>5. InCore' = InCore /\ \A q \in InCore : CurrentPages'[q] = CurrentPages[q]
  BY <1>1, PagesKept DEF PagesSame
<1>6. \A c \in Cells : ~Pending(c)
  BY <1>1, PendingIs, NotPending DEF Pending, Working
<1>7. \A c \in Cells : Exists(c) <=> c < size
  BY <1>1, <1>6, ExistsIs
<1> DEFINE D == {c \in Cells : (c < new) # (c < size)}
           w == [c \in D |-> IF c < new THEN Zero ELSE Gone]
           S == {c \in D : PageOf(c) \notin InCore}
<1>8. File!ResizeChanges(new) = w
  <2>1. {d \in Cells : (d < new) # (d \in DOMAIN Content)} = D
    BY <1>7, ContentIs
  <2>2. QED
    BY <2>1 DEF File!ResizeChanges
<1>9. \A c \in Cells : /\ c \in PendingOf(t)' <=> PageOf(c) \in InCore /\ c \in D
                       /\ \A u \in Threads : u # t => c \notin PendingOf(u)'
  BY <1>0, <1>1, <1>3, <1>5, PendingCellsNext, ChangingFrame
<1>10. PendingOf(t)' = D \ S
  <2>1. PendingOf(t)' \subseteq Cells
    BY DEF PendingOf
  <2>2. QED
    BY <1>9, <2>1
<1>11. ChangeOf(t)' = File!Rest(w, S)
  <2>1. ChangeOf(t)' = [c \in D \ S |-> IF c < new THEN Zero ELSE Gone]
    BY <1>3, <1>10 DEF ChangeOf
  <2>2. QED
    BY <2>1 DEF File!Rest
<1>12. ASSUME NEW c \in Cells
       PROVE  /\ Exists(c)' <=> (Exists(c) /\ ~(c \in S /\ ~(c < new))) \/ (c \in S /\ c < new)
              /\ Exists(c)' => ValueOf(c)' = IF c \in S THEN Zero ELSE ValueOf(c)
  <2>1. CASE c \in PendingOf(t)'
    <3>1. Exists(c)' <=> c < size
      BY <1>1, <1>3, <2>1, ExistsIsNext
    <3>2. c \notin S /\ PageOf(c) \in InCore
      BY <1>9, <2>1
    <3>3. ValueOf(c)' = ValueOf(c)
      BY <1>5, <3>2 DEF ValueOf
    <3>4. QED
      BY <1>7, <3>1, <3>2, <3>3
  <2>2. CASE c \notin PendingOf(t)'
    <3>1. ~Pending(c)'
      BY <1>9, <2>2 DEF Pending
    <3>2. Exists(c)' <=> c < new
      BY <1>1, <1>3, <3>1, ExistsIsNext
    <3>3. c \in S <=> c \in D
      BY <1>9, <2>2
    <3>4. ASSUME c < new PROVE ValueOf(c)' = IF c \in S THEN Zero ELSE ValueOf(c)
      <4>1. CASE c \in S
        <5>1. c >= size
          BY <1>4, <3>4, <4>1
        <5>2. disk[c] = Zero
          BY <1>1, <5>1 DEF TailInv
        <5>3. QED
          BY <1>3, <1>5, <3>4, <4>1, <5>2 DEF ValueOf
      <4>2. CASE c \notin S
        BY <1>3, <1>5, <3>4, <4>2 DEF ValueOf
      <4>3. QED
        BY <4>1, <4>2
    <3>5. QED
      BY <1>7, <3>2, <3>3, <3>4
  <2>3. QED
    BY <2>1, <2>2
<1>13. Content' = File!WithChanges(Content, w, S)
  <2>1. \A c \in S : w[c] = IF c < new THEN Zero ELSE Gone
    OBVIOUS
  <2>2. S \in SUBSET Cells
    OBVIOUS
  <2> HIDE DEF w, S
  <2>3. \A c \in S : w[c] = Gone <=> ~(c < new)
    BY <1>4, <2>1
  <2>4. \A c \in Cells : Exists(c)' <=> \/ Exists(c) /\ ~(c \in S /\ w[c] = Gone)
                                        \/ c \in S /\ w[c] # Gone
    BY <1>12, <2>3
  <2>5. \A c \in Cells : Exists(c)' => ValueOf(c)' = IF c \in S THEN w[c] ELSE ValueOf(c)
    BY <1>12, <2>1
  <2>6. QED
    BY <2>2, <2>4, <2>5, ContentChanges
<1>14. Stored' = Stored
  BY <1>0, <1>1, OutOther DEF Stored, Store
<1>15. Calls[t] = "resize" /\ Calls' = [Calls EXCEPT ![t] = "none"]
  <2>1. Asked(t) = "resize" /\ Asked(t)' = "none"
    BY <1>1, <1>3 DEF Asked
  <2>2. QED
    BY <1>0, <1>1, <2>1, CallsFrame
<1>16. Changing' = [Changing EXCEPT ![t] = File!Rest(w, S)]
  BY <1>0, <1>1, <1>11, ChangingFrame
<1>17. w \in File!Changes("resize") /\ S \in SUBSET DOMAIN w
  <2>1. new \in File!Sizes
    <3>1. FileCells \in Nat \ {0} /\ Cells = 0 .. FileCells - 1
      BY SizesAssumption DEF FileCells, Cells
    <3>2. new = 0 => new \in Cells
      BY <3>1
    <3>3. new # 0 => new - 1 \in Cells /\ new = (new - 1) + 1
      BY <3>1, <1>4
    <3>4. QED
      BY <3>2, <3>3 DEF File!Sizes
  <2>2. QED
    BY <1>8, <2>1 DEF File!Changes
<1> HIDE DEF w, S
<1>18. QED
  BY <1>1, <1>13, <1>14, <1>15, <1>16, <1>17 DEF File!Begin

\* A step that applies the changes S of a thread, or nothing.
LEMMA AppliesOrNot ==
    ASSUME PagerInv, HolderInv, CallInv, NEW t \in Threads, Step(t) \/ Choice(t), Working(t),
           NEW S \in SUBSET PendingOf(t),
           \A c \in Cells : Exists(c)' <=> \/ Exists(c) /\ ~(c \in S /\ ChangeOf(t)[c] = Gone)
                                           \/ c \in S /\ ChangeOf(t)[c] # Gone,
           \A c \in Cells : Exists(c)' => ValueOf(c)' = IF c \in S THEN ChangeOf(t)[c] ELSE ValueOf(c),
           PendingOf(t)' = PendingOf(t) \ S, op' = op, out' = out, pc'[t] \notin Asking
    PROVE  File!Apply(t) \/ UNCHANGED File!fileVars
<1>0. TypeInv /\ pc[t] = "commit" /\ op[t].kind # "read" /\ pc[t] \in Locked
  BY DEF PagerInv, HoldInv, Working, Locked
<1>1. PendingOf(t) \subseteq Cells /\ DOMAIN ChangeOf(t) = PendingOf(t)
  BY DEF PendingOf, ChangeOf
<1>2. Content' = File!WithChanges(Content, ChangeOf(t), S)
  BY <1>1, ContentChanges
<1>3. ChangeOf(t)' = File!Rest(ChangeOf(t), S)
  <2>1. ChangeOf(t)' = [c \in PendingOf(t) \ S |-> ChangeOf(t)[c]]
    BY DEF ChangeOf
  <2>2. QED
    BY <1>1, <2>1 DEF File!Rest
<1>4. /\ Changing' = [Changing EXCEPT ![t] = ChangeOf(t)'] /\ Changing[t] = ChangeOf(t)
      /\ DOMAIN Changing = Threads /\ Changing = [u \in Threads |-> Changing[u]]
  BY <1>0, ChangingFrame
<1>5. Calls' = Calls
  <2>1. Asked(t) = "none" /\ Asked(t)' = "none"
    BY <1>0 DEF Asked, Asking
  <2>2. Calls = [u \in Threads |-> Calls[u]]
    BY DEF Calls
  <2>3. Calls[t] = Asked(t) /\ Calls' = [Calls EXCEPT ![t] = Asked(t)'] /\ DOMAIN Calls = Threads
    BY <1>0, CallsFrame
  <2>4. QED
    BY <2>1, <2>2, <2>3
<1>6. Stored' = Stored
  BY <1>0, OutOther DEF Stored, Store
<1>7. CASE S # {}
  <2>1. DOMAIN ChangeOf(t)' # DOMAIN ChangeOf(t)
    BY <1>1, <1>7 DEF ChangeOf
  <2>2. Changing'[t] # Changing[t]
    BY <1>4, <2>1
  <2>3. S \in SUBSET DOMAIN Changing[t]
    BY <1>1, <1>4
  <2>4. Content' = File!WithChanges(Content, Changing[t], S) /\ Changing' = [Changing EXCEPT ![t] = File!Rest(Changing[t], S)]
    BY <1>2, <1>3, <1>4
  <2>5. File!Apply(t)
    BY <1>5, <1>6, <2>2, <2>3, <2>4 DEF File!Apply
  <2>6. QED
    BY <2>5
<1>8. CASE S = {}
  <2>1. ChangeOf(t)' = ChangeOf(t)
    BY <1>8 DEF ChangeOf
  <2>2. Changing' = Changing
    BY <1>4, <2>1
  <2>3. Content' = Content
    BY <1>8, ContentSame
  <2>4. QED
    BY <1>5, <1>6, <2>2, <2>3 DEF File!fileVars
<1>9. QED
  BY <1>7, <1>8

\* The write reaches a resident page.
LEMMA CommitWriteRefines ==
    ASSUME PagerInv, PagerInv', DataInv, HolderInv', OwedInv, CallInv,
           NEW t \in Threads, CommitWrite(t)
    PROVE  File!Apply(t) \/ UNCHANGED File!fileVars
<1>0. Step(t) \/ Choice(t)
  BY DEF Step
<1> DEFINE p == Min(todo[t])
           r == Merged(CurrentPages[p], p, op[t].first, op[t].last, op[t].value)
           S == {c \in PendingOf(t) : PageOf(c) = p}
           W == op[t].first .. op[t].last
<1>1. /\ TypeInv /\ HoldInv /\ LockInv /\ HolderInv /\ HoldInv' /\ LockInv' /\ DataType
      /\ Working(t) /\ op[t].kind = "write" /\ pc[t] \in Locked /\ WriteOf(t)
  BY DEF PagerInv, HoldInv, DataInv, WorkInv, CommitWrite, Locked, Working
<1>2. /\ UNCHANGED <<disk, size, op, out>> /\ todo'[t] = todo[t] \ {p} /\ todo[t] # {}
      /\ pc'[t] = IF todo[t] = {p} THEN "end" ELSE "commit"
  BY <1>1 DEF CommitWrite, TypeInv, Working
<1>3. Only(p, r)
  BY <1>1, CommitWritePages
<1>4. /\ op[t].value \in Values /\ op[t].value # Gone /\ todo[t] \subseteq Pages
      /\ \A c \in Cells : c < size <=> c < op[t].old \/ c \in W
  BY <1>1, SizesAssumption DEF WriteOf
<1>5. p \in todo[t]
  <2>1. todo[t] \in SUBSET Nat
    BY <1>4, SizesAssumption DEF Pages
  <2>2. QED
    BY <1>2, <2>1, MinMember
<1> HIDE DEF p
<1>6. InCore' = InCore
  BY <1>3 DEF Only
<1>7. \A c \in Cells : c \in PendingOf(t) <=> PageOf(c) \in InCore /\ c \in W /\ PageOf(c) \in todo[t]
  BY <1>1, PendingCells
<1>8. PendingOf(t) \subseteq Cells /\ PendingOf(t)' \subseteq Cells
  BY DEF PendingOf
<1>9. PendingOf(t)' = PendingOf(t) \ S
  <2>1. CASE todo[t] = {p}
    <3>1. ~Working(t)'
      BY <1>2, <2>1 DEF Working
    <3>2. PendingOf(t)' = {}
      BY <3>1, NotPendingNext
    <3>3. QED
      BY <1>7, <1>8, <2>1, <3>2
  <2>2. CASE todo[t] # {p}
    <3>1. Working(t)'
      BY <1>1, <1>2, <2>2 DEF Working
    <3>2. \A c \in Cells : c \in PendingOf(t)' <=> PageOf(c) \in InCore /\ c \in W /\ PageOf(c) \in todo'[t]
      BY <1>1, <1>2, <1>6, <3>1, PendingCellsNext
    <3>3. QED
      BY <1>2, <1>7, <1>8, <3>2
  <2>3. QED
    BY <2>1, <2>2
<1>10. \A u \in Threads : u # t => PendingOf(u) = {} /\ PendingOf(u)' = {}
  BY <1>0, <1>1, ChangingFrame
<1>11. \A c \in S : ChangeOf(t)[c] = op[t].value
  BY <1>1 DEF ChangeOf
<1>12. ASSUME NEW c \in Cells
       PROVE  /\ Exists(c)' <=> Exists(c) \/ c \in S
              /\ ValueOf(c)' = IF c \in S THEN op[t].value ELSE ValueOf(c)
  <2>0. c \in CellsOf(PageOf(c))
    BY CellPage
  <2>1. Exists(c)' <=> Exists(c) \/ c \in S
    <3>1. CASE c \in PendingOf(t)'
      <4>1. Working(t)' /\ c \in PendingOf(t) /\ c \notin S
        BY <1>9, <3>1, NotPendingNext
      <4>2. Exists(c)' <=> c < op[t].old
        BY <1>1, <1>2, <3>1, <4>1, ExistsIsNext
      <4>3. Exists(c) <=> c < op[t].old
        BY <1>1, <4>1, ExistsIs
      <4>4. QED
        BY <4>1, <4>2, <4>3
    <3>2. CASE c \notin PendingOf(t)'
      <4>1. ~Pending(c)'
        BY <1>10, <3>2 DEF Pending
      <4>2. Exists(c)' <=> c < size
        BY <1>1, <1>2, <4>1, ExistsIsNext
      <4>3. CASE c \in S
        BY <1>4, <1>7, <4>2, <4>3
      <4>4. CASE c \notin S
        <5>1. ~Pending(c)
          BY <1>9, <1>10, <3>2, <4>4 DEF Pending
        <5>2. QED
          BY <1>1, <4>2, <4>4, <5>1, ExistsIs
      <4>5. QED
        BY <4>3, <4>4
    <3>3. QED
      BY <3>1, <3>2
  <2>2. ValueOf(c)' = IF c \in S THEN op[t].value ELSE ValueOf(c)
    <3>1. CASE PageOf(c) \notin InCore
      BY <1>2, <1>6, <1>7, <3>1 DEF ValueOf
    <3>2. CASE PageOf(c) \in InCore /\ PageOf(c) # p
      BY <1>3, <1>6, <3>2 DEF ValueOf, Only
    <3>3. CASE PageOf(c) \in InCore /\ PageOf(c) = p
      <4>1. c \in S <=> c \in W
        BY <1>5, <1>7, <3>3
      <4>2. r.bytes[c] = IF c \in W THEN op[t].value ELSE CurrentPages[p].bytes[c]
        BY <2>0, <3>3 DEF Merged
      <4> HIDE DEF r
      <4>3. CurrentPages'[p] = r
        BY <1>3, <3>3 DEF Only
      <4>4. QED
        BY <1>6, <3>3, <4>1, <4>2, <4>3 DEF ValueOf
    <3>4. QED
      BY <3>1, <3>2, <3>3
  <2>3. QED
    BY <2>1, <2>2
<1>13. pc'[t] \notin Asking
  BY <1>2 DEF Asking
<1>14. S \in SUBSET PendingOf(t)
  OBVIOUS
<1> HIDE DEF S
<1>15. \A c \in Cells : Exists(c)' <=> \/ Exists(c) /\ ~(c \in S /\ ChangeOf(t)[c] = Gone)
                                       \/ c \in S /\ ChangeOf(t)[c] # Gone
  BY <1>4, <1>11, <1>12
<1>16. \A c \in Cells : Exists(c)' => ValueOf(c)' = IF c \in S THEN ChangeOf(t)[c] ELSE ValueOf(c)
  BY <1>11, <1>12
<1>17. QED
  BY <1>0, <1>1, <1>2, <1>9, <1>13, <1>14, <1>15, <1>16, AppliesOrNot

\* The truncation reaches the resident pages.
LEMMA CommitResizeRefines ==
    ASSUME PagerInv, PagerInv', DataInv, HolderInv', OwedInv, CallInv,
           NEW t \in Threads, CommitResize(t)
    PROVE  File!Apply(t) \/ UNCHANGED File!fileVars
<1>0. Step(t) \/ Choice(t)
  BY DEF Step
<1> DEFINE old == op[t].old
           S == PendingOf(t)
<1>1. /\ TypeInv /\ HoldInv /\ LockInv /\ HolderInv /\ HoldInv' /\ LockInv' /\ DataType
      /\ Working(t) /\ op[t].kind = "resize" /\ pc[t] \in Locked /\ ResizeOf(t)
  BY DEF PagerInv, HoldInv, DataInv, WorkInv, CommitResize, Locked, Working
<1>2. UNCHANGED <<disk, size, op, out>> /\ pc'[t] = "end"
  BY <1>1 DEF CommitResize, TypeInv
<1>3. /\ old \in Nat /\ size \in Nat /\ op[t].new = size /\ Cells \subseteq Nat /\ Gone # Zero
      /\ PageSize \in Nat \ {0} /\ \A q \in InCore : q * PageSize < old
  BY <1>1, SizesAssumption DEF ResizeOf, DataType, FileCells, Cells
<1>4. /\ InCore' = {q \in InCore : q * PageSize < size}
      /\ \A q \in InCore' : CurrentPages'[q] = Resized(CurrentPages[q], q, old, size)
  BY <1>1, <1>3, CommitResizePages
<1>5. \A c \in Cells : c \in S <=> PageOf(c) \in InCore /\ ~(c < old <=> c < size)
  BY <1>1, <1>3, PendingCells
<1>6. S \subseteq Cells
  BY DEF PendingOf
<1>7. PendingOf(t)' = {}
  <2>1. ~Working(t)'
    BY <1>2 DEF Working
  <2>2. QED
    BY <2>1, NotPendingNext
<1>8. \A u \in Threads : u # t => PendingOf(u) = {} /\ PendingOf(u)' = {}
  BY <1>0, <1>1, ChangingFrame
<1>9. \A c \in S : ChangeOf(t)[c] = IF c < size THEN Zero ELSE Gone
  BY <1>1, <1>3 DEF ChangeOf
<1>10. ASSUME NEW c \in Cells
       PROVE  /\ Exists(c)' <=> c < size
              /\ c \notin S => (Exists(c) <=> c < size)
  <2>1. ~Pending(c)'
    BY <1>7, <1>8 DEF Pending
  <2>2. c \notin S => ~Pending(c)
    BY <1>8 DEF Pending
  <2>3. QED
    BY <1>1, <1>2, <2>1, <2>2, ExistsIs, ExistsIsNext
<1>11. ASSUME NEW c \in Cells, c < size
       PROVE  ValueOf(c)' = IF c \in S THEN Zero ELSE ValueOf(c)
  <2> DEFINE p == PageOf(c)
             cut == {d \in CellsOf(p) :
                       \/ /\ size > old /\ old % PageSize # 0 /\ PageOf(old) = p
                          /\ d >= old /\ d < size
                       \/ size % PageSize # 0 /\ PageOf(size) = p /\ d >= size}
  <2>0. c \in CellsOf(p) /\ p \in Pages /\ c \in Nat /\ p \in Nat /\ p * PageSize <= c
    BY <1>3, CellPage, SizesAssumption DEF Pages
  <2>1. p * PageSize < size
    <3>1. p * PageSize \in Nat
      BY <1>3, <2>0
    <3>2. QED
      BY <1>3, <1>11, <2>0, <3>1
  <2>2. p \in InCore' <=> p \in InCore
    BY <1>4, <2>1
  <2>3. CASE p \notin InCore
    BY <1>2, <1>5, <2>2, <2>3 DEF ValueOf
  <2>4. CASE p \in InCore
    <3>1. CurrentPages'[p] = Resized(CurrentPages[p], p, old, size)
      BY <1>4, <2>2, <2>4
    <3>2. CurrentPages'[p].bytes[c] = IF c \in cut THEN Zero ELSE CurrentPages[p].bytes[c]
      BY <2>0, <3>1 DEF Resized
    <3>3. CASE c >= old
      <4>1. PageOf(old) = p /\ old % PageSize # 0
        BY <1>3, <2>4, <3>3, TailPage
      <4>2. size > old
        BY <1>3, <1>11, <2>0, <3>3
      <4>3. c \in cut
        BY <1>11, <2>0, <3>3, <4>1, <4>2
      <4>4. c \in S
        BY <1>3, <1>5, <1>11, <2>0, <2>4, <3>3
      <4>5. QED
        BY <2>2, <2>4, <3>2, <4>3, <4>4 DEF ValueOf
    <3>4. CASE ~(c >= old)
      <4>1. c < old /\ ~(c >= size)
        BY <1>3, <1>11, <2>0, <3>4
      <4>2. c \notin cut
        BY <3>4, <4>1
      <4>3. c \notin S
        BY <1>5, <1>11, <4>1
      <4>4. QED
        BY <2>2, <2>4, <3>2, <4>2, <4>3 DEF ValueOf
    <3>5. QED
      BY <3>3, <3>4
  <2>5. QED
    BY <2>3, <2>4
<1>12. pc'[t] \notin Asking
  BY <1>2 DEF Asking
<1>13. S \in SUBSET PendingOf(t) /\ PendingOf(t)' = PendingOf(t) \ S
  BY <1>7
<1> HIDE DEF S
<1>14. \A c \in Cells : Exists(c)' <=> \/ Exists(c) /\ ~(c \in S /\ ChangeOf(t)[c] = Gone)
                                       \/ c \in S /\ ChangeOf(t)[c] # Gone
  BY <1>3, <1>9, <1>10
<1>15. \A c \in Cells : Exists(c)' => ValueOf(c)' = IF c \in S THEN ChangeOf(t)[c] ELSE ValueOf(c)
  BY <1>9, <1>10, <1>11
<1>16. QED
  BY <1>0, <1>1, <1>2, <1>12, <1>13, <1>14, <1>15, AppliesOrNot

----------------------------------------------------------------------------
(* Stores *)

\* One value changes, if the file has the cell.
LEMMA StoreChanges ==
    ASSUME NEW c \in Cells, NEW v \in Values,
           \A d \in Cells : Exists(d)' <=> Exists(d),
           \A d \in Cells : Exists(d) => ValueOf(d)' = IF d = c THEN v ELSE ValueOf(d),
           Stored' = Stored + 1, UNCHANGED <<Calls, Changing, out>>
    PROVE  File!Store
<1>1. CASE ~Exists(c)
  <2>1. \A d \in Cells : Exists(d) => ValueOf(d)' = ValueOf(d)
    BY <1>1
  <2>2. Content' = Content
    BY <2>1, ContentSame
  <2>3. QED
    BY <2>2 DEF File!Store
<1>2. CASE Exists(c)
  <2>1. DOMAIN Content' = DOMAIN Content /\ c \in DOMAIN Content
    BY <1>2, ContentIs, ContentIsNext
  <2>2. \A d \in DOMAIN Content : Content'[d] = IF d = c THEN v ELSE Content[d]
    BY <2>1, ContentIs, ContentIsNext
  <2>3. Content = [d \in DOMAIN Content |-> Content[d]] /\ Content' = [d \in DOMAIN Content' |-> Content'[d]]
    BY DEF Content
  <2>4. Content' = [Content EXCEPT ![c] = v]
    BY <2>1, <2>2, <2>3
  <2>5. QED
    BY <2>1, <2>4 DEF File!Store
<1>3. QED
  BY <1>1, <1>2

\* A store into a mapping.
LEMMA StoreRefines ==
    ASSUME PagerInv, PagerInv', DataInv, HolderInv', OwedInv, CallInv,
           NEW t \in Threads, NEW c \in Cells, NEW v \in Values, Store(t, c, v)
    PROVE  File!Store
<1>0. Step(t) \/ Choice(t)
  BY DEF Choice
<1>1. /\ TypeInv /\ HoldInv /\ HolderInv /\ DataType /\ DOMAIN owed = Threads /\ Bystander(t)
      /\ pc[t] = "idle" /\ UNCHANGED <<pc, op, out>>
  BY DEF PagerInv, HoldInv, DataInv, OwedInv, Store, Bystander
<1>2. /\ Only(PageOf(c), [bytes |-> [CurrentPages[PageOf(c)].bytes EXCEPT ![c] = v], dirty |-> TRUE])
      /\ PageOf(c) \in InCore /\ disk' = disk
  BY <1>1, StorePages
<1>3. \A d \in Cells : Exists(d)' <=> Exists(d)
  BY <1>0, <1>1, ExistsKept
<1>4. ASSUME NEW d \in Cells PROVE ValueOf(d)' = IF d = c THEN v ELSE ValueOf(d)
  <2> DEFINE b == [CurrentPages[PageOf(c)].bytes EXCEPT ![c] = v]
  <2>1. InCore' = InCore
    BY <1>2 DEF Only
  <2>2. CASE PageOf(d) # PageOf(c)
    BY <1>2, <2>1, <2>2 DEF ValueOf, Only
  <2>3. CASE PageOf(d) = PageOf(c)
    <3>1. CurrentPages[PageOf(c)].bytes \in [CellsOf(PageOf(c)) -> Values]
      BY <1>1, <1>2 DEF DataType, PageRecs
    <3>2. c \in CellsOf(PageOf(c)) /\ d \in CellsOf(PageOf(c))
      BY <2>3, CellPage
    <3>3. b[d] = IF d = c THEN v ELSE CurrentPages[PageOf(c)].bytes[d]
      BY <3>1, <3>2
    <3> HIDE DEF b
    <3>4. CurrentPages'[PageOf(c)] = [bytes |-> b, dirty |-> TRUE]
      BY <1>2 DEF Only, b
    <3>5. CurrentPages'[PageOf(c)].bytes = b
      BY <3>4
    <3>6. QED
      BY <1>2, <2>1, <2>3, <3>3, <3>5 DEF ValueOf
  <2>4. QED
    BY <2>2, <2>3
<1>5. Changing' = Changing
  BY <1>0, <1>1, ChangingKept
<1>6. Calls' = Calls
  BY <1>1 DEF Calls, Asked
<1>7. Stored' = Stored + 1
  <2>1. budget \in Budgets /\ Spend("stores")
    BY DEF CallInv, Store
  <2>2. budget'.stores = budget.stores - 1 /\ budget.stores \in Nat
    BY <2>1, Spending DEF Budgets
  <2>3. QED
    BY <2>2, SizesAssumption DEF Stored
<1>8. QED
  BY <1>1, <1>3, <1>4, <1>5, <1>6, <1>7, StoreChanges

\* A store of an i386 process into the host file.
LEMMA HostStoreRefines ==
    ASSUME PagerInv, DataInv, CallInv, NEW c \in Cells, NEW v \in Values, HostStore(c, v)
    PROVE  File!Store
<1>1. slot = None /\ c < size /\ disk' = [disk EXCEPT ![c] = v] /\ disk \in [Cells -> Values]
  BY DEF HostStore, PagerInv, HoldInv, OneCache, DataInv, DataType
<1>2. UNCHANGED <<size, slot, cache, pc, op, held, todo, out>>
  BY DEF HostStore
<1>3. InCore = {} /\ InCore' = {}
  BY <1>1, <1>2 DEF InCore, CurrentPages, NoCache
<1>4. \A u \in Threads : PendingOf(u)' = PendingOf(u)
  BY <1>2 DEF PendingOf, Resident
<1>5. \A d \in Cells : Exists(d)' <=> Exists(d)
  BY <1>2, <1>4 DEF Exists
<1>6. \A d \in Cells : ValueOf(d)' = IF d = c THEN v ELSE ValueOf(d)
  BY <1>1, <1>3 DEF ValueOf
<1>7. Changing' = Changing
  BY <1>2, <1>4 DEF Changing, ChangeOf
<1>8. Calls' = Calls
  BY <1>2 DEF Calls, Asked
<1>9. Stored' = Stored + 1
  <2>1. budget \in Budgets /\ Spend("stores")
    BY DEF CallInv, HostStore
  <2>2. budget'.stores = budget.stores - 1 /\ budget.stores \in Nat
    BY <2>1, Spending DEF Budgets
  <2>3. QED
    BY <2>2, SizesAssumption DEF Stored
<1>10. QED
  BY <1>2, <1>5, <1>6, <1>7, <1>8, <1>9, StoreChanges

----------------------------------------------------------------------------
(* The refinement *)

\* Every step is one of the file or invisible.
LEMMA FileStep ==
    ASSUME PagerInv, PagerInv', DataInv, DataInv', OwedInv, CallInv, ~HoleWrites, [Next]_vars
    PROVE  [File!FileNext]_(File!fileVars)
<1>0. HolderInv' /\ TypeInv /\ budget \in Budgets
  BY DEF DataInv, PagerInv, HoldInv, CallInv
<1>1. ASSUME NEW t \in Threads, Step(t) \/ Choice(t) PROVE [File!FileNext]_(File!fileVars)
  <2>1. CASE Plain(t)
    BY <1>0, <1>1, <2>1, PlainRefines
  <2>2. ASSUME NEW kind \in {"read", "write", "resize", "grow"}, StartIo(t, kind)
        PROVE  File!FileNext
    BY <1>0, <2>2, CallRefines DEF File!FileNext
  <2>3. ASSUME \/ HostRead(t) \/ HostFails(t) \/ CommitRead(t) \/ EndIo(t)
               \/ HostResize(t) /\ pc'[t] # "commit"
        PROVE  [File!FileNext]_(File!fileVars)
    BY <1>0, <2>3, ReturnRefines DEF File!FileNext
  <2>4. ASSUME HostWrite(t) \/ (HostResize(t) /\ pc'[t] = "commit") PROVE File!FileNext
    BY <1>0, <2>4, WriteRefines, ResizeRefines DEF File!FileNext
  <2>5. ASSUME CommitWrite(t) \/ CommitResize(t) PROVE [File!FileNext]_(File!fileVars)
    BY <1>0, <2>5, CommitWriteRefines, CommitResizeRefines DEF File!FileNext
  <2>6. ASSUME NEW c \in Cells, NEW v \in Values, Store(t, c, v) PROVE File!FileNext
    BY <1>0, <2>6, StoreRefines DEF File!FileNext
  <2>7. QED
    BY <1>0, <1>1, <2>1, <2>2, <2>3, <2>4, <2>5, <2>6, CallKinds DEF Visible
<1>2. ASSUME NEW c \in Cells, NEW v \in Values, HostStore(c, v) PROVE File!FileNext
  BY <1>2, HostStoreRefines DEF File!FileNext
<1>3. ASSUME BeginHostMap \/ EndHostMap \/ Quiet \/ UNCHANGED vars PROVE UNCHANGED File!fileVars
  <2>1. UNCHANGED <<disk, size, slot, cache, pc, op, held, todo, out>>
    BY <1>3 DEF BeginHostMap, EndHostMap, Quiet, vars
  <2>2. \A u \in Threads : PendingOf(u)' = PendingOf(u)
    BY <2>1 DEF PendingOf, Resident
  <2>3. \A c \in Cells : Exists(c)' <=> Exists(c)
    BY <2>1, <2>2 DEF Exists
  <2>4. \A c \in Cells : ValueOf(c)' = ValueOf(c)
    BY <2>1 DEF ValueOf, InCore, CurrentPages
  <2>5. Content' = Content
    BY <2>3, <2>4, ContentSame
  <2>6. Changing' = Changing /\ Calls' = Calls
    BY <2>1, <2>2 DEF Changing, ChangeOf, Calls, Asked
  <2>7. Stored' = Stored
    <3>1. budget' = budget \/ Spend("ops")
      BY <1>3 DEF BeginHostMap, EndHostMap, Quiet, vars
    <3>2. QED
      BY <1>0, <3>1, Spending DEF Stored
  <2>8. QED
    BY <2>1, <2>5, <2>6, <2>7 DEF File!fileVars
<1>4. QED
  BY <1>1, <1>2, <1>3 DEF Next

\* The start is a start of the file.
LEMMA FileStart == Init => File!FileInit
<1> SUFFICES ASSUME Init PROVE File!FileInit
  OBVIOUS
<1>1. PICK x \in Values \ {Zero} : disk = [c \in Cells |-> IF c < InitSize THEN x ELSE Zero]
  BY DEF Init
<1>2. /\ slot = None /\ size = InitSize /\ out = [t \in Threads |-> None]
      /\ pc = [t \in Threads |-> "idle"] /\ budget.stores = MaxStores
  BY DEF Init
<1>3. Zero \in Values /\ InitSize \in Nat /\ FileCells \in Nat \ {0} /\ InitSize <= FileCells
      /\ Cells = 0 .. FileCells - 1 /\ MaxStores \in Nat
  BY SizesAssumption DEF FileCells, Cells
<1>4. \A t \in Threads : PendingOf(t) = {} /\ Asked(t) = "none"
  BY <1>2 DEF PendingOf, Asked
<1>5. \A c \in Cells : Exists(c) <=> c < InitSize
  BY <1>2, <1>4 DEF Exists
<1>6. Content \in [{c \in Cells : c < InitSize} -> Values]
  <2>1. DOMAIN Content = {c \in Cells : c < InitSize} /\ Content = [c \in DOMAIN Content |-> Content[c]]
    BY <1>5, ContentIs DEF Content
  <2>2. InCore = {}
    BY <1>2 DEF InCore, CurrentPages, NoCache
  <2>3. \A c \in DOMAIN Content : Content[c] \in Values
    BY <1>1, <1>3, <2>1, <2>2, ContentIs DEF ValueOf
  <2>4. QED
    BY <2>1, <2>3
<1>7. InitSize \in File!Sizes
  <2>1. InitSize = 0 => InitSize \in Cells
    BY <1>3
  <2>2. InitSize # 0 => InitSize - 1 \in Cells /\ InitSize = (InitSize - 1) + 1
    BY <1>3
  <2>3. QED
    BY <2>1, <2>2 DEF File!Sizes
<1>8. Calls = [t \in Threads |-> "none"]
  BY <1>4 DEF Calls
<1>9. Changing = [t \in Threads |-> File!NoChange]
  BY <1>4 DEF Changing, ChangeOf, File!NoChange
<1>10. Stored = 0
  BY <1>2, <1>3 DEF Stored
<1>11. QED
  BY <1>2, <1>6, <1>7, <1>8, <1>9, <1>10 DEF File!FileInit

\* For every number of threads, pagers, pages and failures, as long as no write leaves a
\* hole: read, write, truncate, shared mappings and host mappings see one file. Page-in,
\* write-back, failed drains, the end of a pager and its return change nothing of it.
THEOREM ImplementsFileHolds == ASSUME ~HoleWrites PROVE Spec => ImplementsFile
<1>1. Init => CallInv /\ File!FileInit
  BY CallInit, FileStart
<1>2. PagerInv /\ (DataInv /\ OwedInv) /\ CallInv /\ [Next]_vars => CallInv'
  BY CallStep DEF DataInv, OwedInv
<1>3. PagerInv /\ PagerInv' /\ (DataInv /\ OwedInv) /\ (DataInv /\ OwedInv)' /\ CallInv /\ [Next]_vars
         => [File!FileNext]_(File!fileVars)
  BY FileStep
<1>4. QED
  BY <1>1, <1>2, <1>3, PagerInvariant, DataInvariant, PTL DEF Spec, ImplementsFile, File!FileSpec
=============================================================================
