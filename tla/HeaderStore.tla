----------------------------- MODULE HeaderStore -----------------------------
(***************************************************************************)
(* HeaderDB and HeaderCache of headers.go: the store the chain of block    *)
(* headers is kept in.                                                     *)
(*                                                                         *)
(* A header is written twice.  Put changes the memory of the process at    *)
(* once (the bounded cache of recent headers and, for a new best header,   *)
(* bestCache) and starts a goroutine that writes the bolt file later.  The *)
(* goroutines of several Puts are not ordered among themselves; `pending'  *)
(* is the bag of the ones that have not run.  Every operation runs under   *)
(* HeaderDB.lock, so each is one step.                                     *)
(*                                                                         *)
(* A block is identified by its hash, an element of Header; the 80 bytes   *)
(* of its header are the functions Prev, CalcWork and Timestamp of it.     *)
(***************************************************************************)
EXTENDS Integers, Sequences, FiniteSets, Functions, Bags, BagsExt

CONSTANTS
    Header,      \* the hashes of the blocks the network may send
    NoHeader,    \* "No header found", "ChainTip not set", a nil pointer
    Prev,        \* header.PrevBlock; NoHeader stands for a hash nobody sends
    CalcWork,    \* the work blockchain.CalcWork derives from header.Bits
    Timestamp,   \* header.Timestamp
    CacheSize    \* CACHE_SIZE

StoredHeader == [header : Header, height : Nat, totalWork : Nat]

ASSUME HeaderAssumption ==
    /\ NoHeader \notin Header \cup StoredHeader
    /\ Prev \in [Header -> Header \cup {NoHeader}]
    /\ CalcWork \in [Header -> Nat \ {0}]
    /\ Timestamp \in [Header -> Nat]
    /\ CacheSize \in Nat \ {0}

VARIABLES
    cache,       \* HeaderCache.headers: StoredHeaders, oldest first
    bestCache,   \* HeaderDB.bestCache
    bolt,        \* bucket Headers of the bolt file
    boltTip,     \* bucket ChainTip of the bolt file
    pending      \* the goroutines started by Put that have not yet run

storeVars == <<cache, bestCache, bolt, boltTip, pending>>

Write == [sh : StoredHeader, newBestHeader : BOOLEAN]

NoSuch(x) == x = NoHeader \* the lookup returned an error

(***************************************************************************)
(* HeaderCache.  Set drops the oldest entry when the cache holds MORE than *)
(* cacheSize entries, before it knows whether the key is new; a key that   *)
(* is present keeps its place.                                             *)
(***************************************************************************)
CacheSlots(c, h) == {i \in DOMAIN c : c[i].header = h}

CacheSet(c, sh) ==
    LET kept  == IF Len(c) > CacheSize THEN Tail(c) ELSE c
        slots == CacheSlots(kept, sh.header)
    IN  IF slots = {}
        THEN Append(kept, sh)
        ELSE [i \in DOMAIN kept |-> IF i \in slots THEN sh ELSE kept[i]]

Cached(h) == CacheSlots(cache, h) # {}

(* The cache first, the bolt file for what it does not hold.               *)
GetHeader(h) ==
    IF Cached(h) THEN cache[CHOOSE i \in CacheSlots(cache, h) : TRUE]
    ELSE IF h \in Header THEN bolt[h] ELSE NoHeader

GetPreviousHeader(sh) == GetHeader(Prev[sh.header])

GetBestHeader == IF NoSuch(bestCache) THEN boltTip ELSE bestCache

(* Every StoredHeader a lookup by hash can return.                         *)
Readable == {GetHeader(h) : h \in Header} \ {NoHeader}

----------------------------------------------------------------------------
(* Mutant: a header off the best chain is not written to the file.         *)
PutBestOnly(sh, newBestHeader) ==
    /\ cache' = CacheSet(cache, sh)
    /\ bestCache' = IF newBestHeader THEN sh ELSE bestCache
    /\ pending' = IF newBestHeader
                  THEN BagAdd(pending, [sh |-> sh, newBestHeader |-> TRUE])
                  ELSE pending

Put(sh, newBestHeader) ==
    /\ cache' = CacheSet(cache, sh)
    /\ bestCache' = IF newBestHeader THEN sh ELSE bestCache
    /\ pending' = BagAdd(pending, [sh |-> sh, newBestHeader |-> newBestHeader])

(* Mutant: the tip is written to its own bucket only.                      *)
PutTipOnly(w) ==
    /\ bolt' = IF w.newBestHeader THEN bolt ELSE [bolt EXCEPT ![w.sh.header] = w.sh]
    /\ boltTip' = IF w.newBestHeader THEN w.sh ELSE boltTip
    /\ pending' = BagRemove(pending, w)
    /\ UNCHANGED <<cache, bestCache>>

(* One goroutine of `pending' gets the lock: header and tip are written in *)
(* one bolt transaction.                                                   *)
putToDB(w) ==
    /\ bolt' = [bolt EXCEPT ![w.sh.header] = w.sh]
    /\ boltTip' = IF w.newBestHeader THEN w.sh ELSE boltTip
    /\ pending' = BagRemove(pending, w)
    /\ UNCHANGED <<cache, bestCache>>

(* Only the bolt file is touched: the cache, bestCache and the ChainTip    *)
(* bucket keep what they have.                                             *)
DeleteAfter(height) ==
    bolt' = [h \in Header |->
                IF ~NoSuch(bolt[h]) /\ bolt[h].height > height
                THEN NoHeader ELSE bolt[h]]

(* initializeCache reads the parent of the TIP on every turn of its loop,  *)
(* so the cache starts with the tip and at most its parent.                *)
InitialCache ==
    IF NoSuch(boltTip) THEN <<>>
    ELSE IF NoSuch(Prev[boltTip.header]) \/ NoSuch(bolt[Prev[boltTip.header]])
         THEN <<boltTip>>
         ELSE <<bolt[Prev[boltTip.header]], boltTip>>

(* Close keeps HeaderDB.lock for ever, so no goroutine of `pending' writes *)
(* any more; a killed process loses them in the same way.                  *)
CloseStore ==
    /\ cache' = <<>>
    /\ bestCache' = NoHeader
    /\ pending' = EmptyBag
    /\ UNCHANGED <<bolt, boltTip>>
=============================================================================
