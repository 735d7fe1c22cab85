---- MODULE CoherentFile ----
(***************************************************************************)
(* What a regular file promises to the programs that use it through read,  *)
(* write, truncate and shared mappings at the same time: there is ONE      *)
(* content, every path sees it, and nothing but a program's own store,     *)
(* write or truncation changes it.  Caching, write-back, failed            *)
(* write-backs and the end of a cache are invisible.                       *)
(*                                                                         *)
(* A write or a resize is not atomic for a mapping: it takes effect cell   *)
(* by cell, so an operation under way is a set of changes still to be      *)
(* applied.  FilePager is checked and, in FilePager_proofs, proved to      *)
(* implement this specification.                                           *)
(***************************************************************************)
EXTENDS Integers

CONSTANTS Threads, Cells, Values, Zero, Gone, None

VARIABLES content,  \* the file: a function whose domain is the cells that exist
          asked,    \* thread -> the operation it has called and that has had no effect yet
          upd,      \* thread -> changes of its operation still to be applied
          stores,   \* number of stores into mappings so far
          out       \* thread -> the value its read under way returns

fileVars == <<content, asked, upd, stores, out>>

NoChange == [c \in {} |-> Zero]

WithChanges(f, u, S) ==
    [c \in (DOMAIN f \ {d \in S : u[d] = Gone}) \union {d \in S : u[d] # Gone} |->
        IF c \in S THEN u[c] ELSE f[c]]

Rest(u, S) == [c \in DOMAIN u \ S |-> u[c]]

\* A write of v to the cells first..last; a hole before it reads as zero.
WriteChanges(first, last, v) ==
    [c \in (first .. last) \union {d \in Cells : d < first /\ d \notin DOMAIN content} |->
        IF c >= first THEN v ELSE Zero]

\* New cells of a resized file are zero, cells past the new end are gone.
ResizeChanges(n) ==
    [c \in {d \in Cells : (d < n) # (d \in DOMAIN content)} |->
        IF c < n THEN Zero ELSE Gone]

Sizes == Cells \union {c + 1 : c \in Cells}

Changes(kind) ==
    IF kind = "write"
    THEN {WriteChanges(first, last, v) : first \in Cells, last \in Cells, v \in Values}
    ELSE {ResizeChanges(n) : n \in Sizes}

FileInit ==
    /\ \E n \in Sizes : content \in [{c \in Cells : c < n} -> Values]
    /\ asked = [t \in Threads |-> "none"]
    /\ upd = [t \in Threads |-> NoChange]
    /\ stores = 0
    /\ out = [t \in Threads |-> None]

Call(t, kind) ==
    /\ asked[t] = "none" /\ upd[t] = NoChange
    /\ asked' = [asked EXCEPT ![t] = kind]
    /\ UNCHANGED <<content, upd, stores, out>>

\* The operation takes effect on some of its cells, the others follow.
Begin(t) ==
    /\ asked[t] \in {"write", "resize"}
    /\ asked' = [asked EXCEPT ![t] = "none"]
    /\ UNCHANGED <<stores, out>>
    /\ \E u \in Changes(asked[t]) : \E S \in SUBSET DOMAIN u :
          /\ content' = WithChanges(content, u, S)
          /\ upd' = [upd EXCEPT ![t] = Rest(u, S)]

Apply(t) ==
    /\ upd'[t] # upd[t]
    /\ \E S \in SUBSET DOMAIN upd[t] :
          /\ content' = WithChanges(content, upd[t], S)
          /\ upd' = [upd EXCEPT ![t] = Rest(upd[t], S)]
    /\ UNCHANGED <<asked, stores, out>>

\* A store past the end of the file does not change it.
Store ==
    /\ stores' = stores + 1
    /\ \/ \E c \in DOMAIN content, v \in Values : content' = [content EXCEPT ![c] = v]
       \/ UNCHANGED content
    /\ UNCHANGED <<asked, upd, out>>

Read(t) ==
    /\ asked[t] = "read"
    /\ asked' = [asked EXCEPT ![t] = "none"]
    /\ \E c \in DOMAIN content : out' = [out EXCEPT ![t] = content[c]]
    /\ UNCHANGED <<content, upd, stores>>

\* An operation returns: it has no changes left, or it failed and had none.
Return(t) ==
    /\ upd[t] = NoChange
    /\ asked' = [asked EXCEPT ![t] = "none"]
    /\ out' = [out EXCEPT ![t] = None]
    /\ UNCHANGED <<content, upd, stores>>

FileNext ==
    \/ \E t \in Threads :
          \/ \E kind \in {"read", "write", "resize"} : Call(t, kind)
          \/ Begin(t) \/ Apply(t) \/ Read(t) \/ Return(t)
    \/ Store

FileSpec == FileInit /\ [][FileNext]_fileVars

====
