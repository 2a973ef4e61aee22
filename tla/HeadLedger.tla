----------------------------- MODULE HeadLedger -----------------------------
(* Module Head as an implementation of module Ledger.  A reader sees the head only
   while it holds the mutex, so a transaction in progress shows what was committed
   before it: the store's generation and the baseline's registry.  With the mutex free
   the live overlay, the registry and the authored records are what is read. *)
EXTENDS Head

Committing == phase \in {"apply", "persist", "publish"}

BlankRevision == [content |-> EmptyGen, ids |-> EmptyRegistry, notes |-> NoRecords]

VisibleStatus ==
    CASE phase = "closed" -> "closed"
      [] phase = "opening" -> "opening"
      [] OTHER -> "open"
VisibleRevision == IF phase = "closed" THEN 0 ELSE rev
VisibleContent == IF Committing THEN gen ELSE overlay
VisibleIds == IF Committing THEN base.reg ELSE reg
VisibleCurrent ==
    IF phase = "closed" THEN BlankRevision
    ELSE [content |-> VisibleContent, ids |-> VisibleIds, notes |-> authored]
VisibleKept == IF phase = "closed" THEN [r \in {} |-> EmptyGen] ELSE retained

L == INSTANCE Ledger WITH
        Contents <- Generations, Identities <- Registries, Notes <- Records,
        Blank <- BlankRevision, Cap <- RetainCap,
        status <- VisibleStatus, revision <- VisibleRevision,
        current <- VisibleCurrent, kept <- VisibleKept, pins <- snaps

(* The commit funnel is atomic to its readers: whatever files change, steps fail or
   roll back, revisions are evicted and snapshots are held, the head behaves as a
   ledger in which a revision's content, identities and notes appear together in one
   step, numbered in order, and a reader pins only what some revision holds. *)
ImplementsLedger == L!Spec
=============================================================================
