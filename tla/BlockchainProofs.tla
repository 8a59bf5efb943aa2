-------------------------- MODULE BlockchainProofs --------------------------
(***************************************************************************)
(* Proofs about module Blockchain, for every tree of blocks, cache size    *)
(* and set of resync requests.                                             *)
(***************************************************************************)
EXTENDS Blockchain, NatLemmas, SequenceTheorems, TLAPS

(* Bolt files a record under the hash of its header.                       *)
Keyed == \A h \in Header : ~NoSuch(bolt[h]) => bolt[h].header = h

(***************************************************************************)
(* The operators of the store.                                             *)
(***************************************************************************)

(* HeaderCache.Set adds the header and nothing else.                       *)
LEMMA CacheSetLemma ==
    ASSUME NEW S, NEW cc \in Seq(S), NEW sh \in S
    PROVE  /\ CacheSet(cc, sh) \in Seq(S)
           /\ Range(CacheSet(cc, sh)) \subseteq Range(cc) \cup {sh}
<1> DEFINE kept == IF Len(cc) > CacheSize THEN Tail(cc) ELSE cc
           slots == CacheSlots(kept, sh.header)
<1>1. kept \in Seq(S) /\ Range(kept) \subseteq Range(cc)
  <2>1. CASE Len(cc) > CacheSize
    <3>1. cc # <<>>
      BY <2>1, HeaderAssumption
    <3>2. Tail(cc) \in Seq(S) /\ Len(Tail(cc)) = Len(cc) - 1
          /\ \A i \in 1..Len(Tail(cc)) : Tail(cc)[i] = cc[i+1]
      BY <3>1, HeadTailProperties
    <3>3. Range(Tail(cc)) \subseteq Range(cc)
      BY <3>1, <3>2 DEF Range
    <3> QED BY <2>1, <3>2, <3>3
  <2>2. CASE ~(Len(cc) > CacheSize)
    BY <2>2
  <2> QED BY <2>1, <2>2
<1> HIDE DEF kept
<1>2. CASE slots = {}
  <2>1. CacheSet(cc, sh) = Append(kept, sh)
    BY <1>2 DEF CacheSet, kept
  <2>2. Append(kept, sh) \in Seq(S) /\ Len(Append(kept, sh)) = Len(kept) + 1
        /\ \A i \in 1..Len(kept) : Append(kept, sh)[i] = kept[i]
        /\ Append(kept, sh)[Len(kept)+1] = sh
    BY <1>1, AppendProperties
  <2>3. Range(Append(kept, sh)) \subseteq Range(kept) \cup {sh}
    <3> SUFFICES ASSUME NEW i \in 1..(Len(kept) + 1)
                 PROVE  Append(kept, sh)[i] \in Range(kept) \cup {sh}
      BY <1>1, <2>2 DEF Range
    <3>1. CASE i \in 1..Len(kept)
      BY <3>1, <2>2, <1>1 DEF Range
    <3>2. CASE i = Len(kept) + 1
      BY <3>2, <2>2
    <3> QED BY <3>1, <3>2, <1>1
  <2> QED BY <1>1, <2>1, <2>2, <2>3
<1>3. CASE slots # {}
  <2>1. CacheSet(cc, sh) = [i \in DOMAIN kept |-> IF i \in slots THEN sh ELSE kept[i]]
    BY <1>3 DEF CacheSet, kept
  <2>2. DOMAIN kept = 1..Len(kept) /\ Len(kept) \in Nat /\ \A i \in DOMAIN kept : kept[i] \in S
    BY <1>1
  <2>3. [i \in DOMAIN kept |-> IF i \in slots THEN sh ELSE kept[i]] \in Seq(S)
    BY <2>2, IsASeq
  <2>4. Range([i \in DOMAIN kept |-> IF i \in slots THEN sh ELSE kept[i]])
           \subseteq Range(kept) \cup {sh}
    BY DEF Range
  <2> QED BY <1>1, <2>1, <2>3, <2>4
<1> QED BY <1>2, <1>3

(* BagAdd and BagRemove, as far as which writes are pending.               *)
LEMMA BagLemma ==
    ASSUME NEW B, NEW w
    PROVE  /\ DOMAIN BagAdd(B, w) = DOMAIN B \cup {w}
           /\ DOMAIN BagRemove(B, w) \subseteq DOMAIN B
           /\ DOMAIN B \subseteq DOMAIN BagRemove(B, w) \cup {w}
  BY DEF BagAdd, BagRemove

(* NoHeader is not a record.                                               *)
LEMMA NotARecord ==
    ASSUME NEW sh \in StoredHeader
    PROVE  sh # NoHeader
  BY HeaderAssumption

(* A lookup returns the record of the hash it was asked for, from the      *)
(* cache or from the bolt file.                                            *)
LEMMA GetHeaderLemma ==
    ASSUME StateOK, Keyed, NEW h \in Header
    PROVE  /\ GetHeader(h) \in StoredHeader \cup {NoHeader}
           /\ ~NoSuch(GetHeader(h)) =>
                 /\ GetHeader(h).header = h
                 /\ GetHeader(h) \in Range(cache) \cup {bolt[h]}
<1>1. CASE Cached(h)
  <2>1. PICK i \in CacheSlots(cache, h) : GetHeader(h) = cache[i]
    BY <1>1 DEF Cached, GetHeader
  <2>2. i \in DOMAIN cache /\ cache[i].header = h
    BY <2>1 DEF CacheSlots
  <2>3. cache[i] \in StoredHeader /\ cache[i] \in Range(cache)
    BY <2>2 DEF StateOK, Range
  <2> QED BY <2>1, <2>2, <2>3
<1>2. CASE ~Cached(h)
  <2>1. GetHeader(h) = bolt[h]
    BY <1>2 DEF GetHeader
  <2> QED BY <2>1 DEF StateOK, Keyed
<1> QED BY <1>1, <1>2

(* NoHeader is not a record, so the two kinds of values do not mix.        *)
LEMMA BestLemma ==
    ASSUME StateOK
    PROVE  /\ Best \in StoredHeader \cup {NoHeader}
           /\ Best \in {bestCache, boltTip}
  BY DEF Best, GetBestHeader, StateOK

(* What CommitHeader computes from the parent it found is well typed, and  *)
(* the parent is the tip or a record a lookup can return.                  *)
LEMMA ParentLemma ==
    ASSUME StateOK, Keyed, NEW h \in Header, Acceptable(h)
    PROVE  /\ Best \in StoredHeader
           /\ Prev[h] \in Header
           /\ ParentHeader(h) \in StoredHeader
           /\ ParentHeader(h).header = Prev[h]
           /\ ParentHeader(h) \in Range(cache) \cup {bolt[Prev[h]], bestCache, boltTip}
           /\ NewStoredHeader(h) \in StoredHeader
<1>1. Best \in StoredHeader
  BY BestLemma DEF Acceptable, NoSuch
<1>2. CASE Prev[h] = Best.header
  <2>1. ParentHeader(h) = Best
    BY <1>2 DEF ParentHeader
  <2>2. Prev[h] \in Header
    BY <1>1, <1>2 DEF StoredHeader
  <2>3. NewStoredHeader(h) \in StoredHeader
    BY <2>1, <1>1, HeaderAssumption DEF NewStoredHeader, StoredHeader
  <2> QED BY <1>1, <1>2, <2>1, <2>2, <2>3, BestLemma
<1>3. CASE Prev[h] # Best.header
  <2>1. ~NoSuch(ParentHeader(h))
    BY DEF Acceptable
  <2>2. ~NoSuch(Prev[h]) /\ ParentHeader(h) = GetHeader(Prev[h])
    BY <1>3, <2>1 DEF ParentHeader, NoSuch
  <2>3. Prev[h] \in Header
    BY <2>2, HeaderAssumption DEF NoSuch
  <2>4. /\ ParentHeader(h) \in StoredHeader
        /\ ParentHeader(h).header = Prev[h]
        /\ ParentHeader(h) \in Range(cache) \cup {bolt[Prev[h]]}
    BY <2>1, <2>2, <2>3, GetHeaderLemma DEF NoSuch
  <2>5. NewStoredHeader(h) \in StoredHeader
    BY <2>4, HeaderAssumption DEF NewStoredHeader, StoredHeader
  <2> QED BY <1>1, <2>3, <2>4, <2>5
<1> QED BY <1>2, <1>3

(* Put keeps the types of what it changes.                                 *)
LEMMA PutType ==
    ASSUME StateOK, NEW sh \in StoredHeader, NEW best \in BOOLEAN, Put(sh, best)
    PROVE  /\ cache' \in Seq(StoredHeader)
           /\ Range(cache') \subseteq Range(cache) \cup {sh}
           /\ bestCache' \in StoredHeader \cup {NoHeader}
           /\ bestCache' \in {bestCache, sh}
           /\ DOMAIN pending' = DOMAIN pending \cup {[sh |-> sh, newBestHeader |-> best]}
           /\ DOMAIN pending' \subseteq Write
<1>1. cache' = CacheSet(cache, sh) /\ cache \in Seq(StoredHeader)
  BY DEF Put, StateOK
<1>2. cache' \in Seq(StoredHeader) /\ Range(cache') \subseteq Range(cache) \cup {sh}
  BY <1>1, CacheSetLemma
<1>3. bestCache' \in {bestCache, sh} /\ bestCache' \in StoredHeader \cup {NoHeader}
  BY DEF Put, StateOK
<1>4. DOMAIN pending' = DOMAIN pending \cup {[sh |-> sh, newBestHeader |-> best]}
  BY BagLemma DEF Put
<1>5. [sh |-> sh, newBestHeader |-> best] \in Write
  BY DEF Write
<1> QED BY <1>2, <1>3, <1>4, <1>5 DEF StateOK

----------------------------------------------------------------------------
(***************************************************************************)
(* The tree of blocks.                                                     *)
(***************************************************************************)

(* A header is in its own lineage, and with a header its parent is.        *)
LEMMA LineageClosed ==
    ASSUME NEW h \in Header
    PROVE  /\ Lineage[h] \subseteq Header
           /\ h \in Lineage[h]
           /\ \A x \in Lineage[h] : Prev[x] \in Header => Prev[x] \in Lineage[h]
  BY DEF Lineage

(* What holds of a header and, if of a header, of its parent, holds of     *)
(* every header in its lineage.                                            *)
LEMMA LineageInduction ==
    ASSUME NEW h \in Header, NEW C \in SUBSET Header, h \in C,
           \A x \in C : Prev[x] \in Header => Prev[x] \in C
    PROVE  Lineage[h] \subseteq C
  BY DEF Lineage

(* The lineage of an ancestor is part of the lineage.                      *)
LEMMA LineageTransitive ==
    ASSUME NEW h \in Header, NEW a \in Lineage[h]
    PROVE  Lineage[a] \subseteq Lineage[h]
<1>1. Lineage[h] \in SUBSET Header /\ a \in Header
  BY LineageClosed
<1>2. \A x \in Lineage[h] : Prev[x] \in Header => Prev[x] \in Lineage[h]
  BY LineageClosed
<1> QED BY <1>1, <1>2, LineageInduction

(* Below the header itself comes the lineage of its parent.                *)
LEMMA LineageParent ==
    ASSUME NEW h \in Header, Prev[h] \in Header
    PROVE  Lineage[h] = {h} \cup Lineage[Prev[h]]
<1> DEFINE C == {h} \cup Lineage[Prev[h]]
<1>1. C \in SUBSET Header /\ h \in C
  BY LineageClosed
<1>2. \A x \in C : Prev[x] \in Header => Prev[x] \in C
  BY LineageClosed
<1>3. Lineage[h] \subseteq C
  <2> HIDE DEF C
  <2> QED BY <1>1, <1>2, LineageInduction
<1>4. Prev[h] \in Lineage[h] /\ h \in Lineage[h]
  BY LineageClosed
<1>5. Lineage[Prev[h]] \subseteq Lineage[h]
  BY <1>4, LineageTransitive
<1> QED BY <1>3, <1>4, <1>5

(* Heights grow along a lineage.                                           *)
LEMMA LineageHeight ==
    ASSUME NEW h \in Header, NEW a \in Lineage[h]
    PROVE  a = h \/ ChainHeight[a] < ChainHeight[h]
<1> DEFINE C == {x \in Header : x = h \/ ChainHeight[x] < ChainHeight[h]}
<1>1. C \in SUBSET Header /\ h \in C
  OBVIOUS
<1>2. \A x \in C : Prev[x] \in Header => Prev[x] \in C
  BY TreeAssumption
<1>3. Lineage[h] \subseteq C
  <2> HIDE DEF C
  <2> QED BY <1>1, <1>2, LineageInduction
<1> QED BY <1>3

(* Two ancestors of one header lie on one chain.                           *)
LEMMA LineageLinear ==
    ASSUME NEW h \in Header, NEW a \in Lineage[h], NEW b \in Lineage[h]
    PROVE  a \in Lineage[b] \/ b \in Lineage[a]
<1> DEFINE C == {x \in Header : x \in Lineage[b] \/ b \in Lineage[x]}
<1>0. b \in Header
  BY LineageClosed
<1>1. C \in SUBSET Header /\ h \in C
  OBVIOUS
<1>2. ASSUME NEW x \in C, Prev[x] \in Header PROVE Prev[x] \in C
  <2>1. CASE x \in Lineage[b]
    BY <1>0, <1>2, <2>1, LineageClosed
  <2>2. CASE b \in Lineage[x]
    <3>1. b = x \/ b \in Lineage[Prev[x]]
      BY <1>2, <2>2, LineageParent
    <3>2. CASE b = x
      BY <1>2, <3>2, <1>0, LineageClosed
    <3> QED BY <1>2, <3>1, <3>2
  <2> QED BY <2>1, <2>2
<1>3. Lineage[h] \subseteq C
  <2> HIDE DEF C
  <2> QED BY <1>1, <1>2, LineageInduction
<1> QED BY <1>3

(* So a lineage has one header of each height.                             *)
LEMMA LineageOneEach ==
    ASSUME NEW h \in Header, NEW a \in Lineage[h], NEW b \in Lineage[h],
           ChainHeight[a] = ChainHeight[b]
    PROVE  a = b
<1>1. a \in Header /\ b \in Header
  BY LineageClosed
<1>2. CASE a \in Lineage[b]
  BY <1>1, <1>2, LineageHeight, TreeAssumption
<1>3. CASE b \in Lineage[a]
  BY <1>1, <1>3, LineageHeight, TreeAssumption
<1> QED BY <1>2, <1>3, LineageLinear

(* Work grows along a lineage, from the checkpoint on.                     *)
LEMMA LineageWork ==
    ASSUME NEW h \in Header, NEW a \in Lineage[h], Checkpoint \in Lineage[a]
    PROVE  a = h \/ ChainWork[a] < ChainWork[h]
<1> DEFINE C == {x \in Header : Checkpoint \in Lineage[x] =>
                                   x = h \/ ChainWork[x] < ChainWork[h]}
<1>1. C \in SUBSET Header /\ h \in C
  OBVIOUS
<1>2. ASSUME NEW x \in C, Prev[x] \in Header PROVE Prev[x] \in C
  <2> SUFFICES ASSUME Checkpoint \in Lineage[Prev[x]]
               PROVE  ChainWork[Prev[x]] < ChainWork[h]
    BY <1>2
  <2>1. Checkpoint \in Lineage[x]
    BY <1>2, LineageParent
  <2>2. ChainHeight[Checkpoint] <= ChainHeight[Prev[x]]
    BY <1>2, LineageHeight, TreeAssumption, ChainAssumption
  <2>3. x # Checkpoint
    BY <1>2, <2>2, TreeAssumption
  <2>4. ChainWork[x] = ChainWork[Prev[x]] + CalcWork[x]
    BY <1>2, <2>3, TreeAssumption
  <2>5. CalcWork[x] \in Nat \ {0} /\ ChainWork[x] \in Nat /\ ChainWork[Prev[x]] \in Nat
        /\ ChainWork[h] \in Nat
    BY <1>2, TreeAssumption, HeaderAssumption
  <2>6. x = h \/ ChainWork[x] < ChainWork[h]
    BY <2>1
  <2> QED BY <2>4, <2>5, <2>6
<1>3. Lineage[h] \subseteq C
  <2> HIDE DEF C
  <2> QED BY <1>1, <1>2, LineageInduction
<1>4. a \in C
  BY <1>3
<1> QED BY <1>4

----------------------------------------------------------------------------
(***************************************************************************)
(* The records are true, and every record is of the checkpoint or of a     *)
(* header above it: otherwise the checkpoint could be committed again as   *)
(* the child of its parent, with a work other than 0.                      *)
(***************************************************************************)
HeldOK(sh) == TrueStored(sh) /\ Checkpoint \in Lineage[sh.header]

IInv == StateOK /\ Keyed /\ \A sh \in Held : HeldOK(sh)

(* The checkpoint's own record.                                            *)
LEMMA CheckpointLemma == CheckpointHeader \in StoredHeader /\ HeldOK(CheckpointHeader)
  BY ChainAssumption, TreeAssumption, LineageClosed
  DEF CheckpointHeader, StoredHeader, HeldOK, TrueStored

(* The record CommitHeader makes from a true record of the parent is true. *)
LEMMA NewHeaderLemma ==
    ASSUME IInv, NEW h \in Header, Acceptable(h)
    PROVE  NewStoredHeader(h) \in StoredHeader /\ HeldOK(NewStoredHeader(h))
<1>1. /\ Prev[h] \in Header /\ ParentHeader(h) \in StoredHeader
      /\ ParentHeader(h).header = Prev[h]
      /\ ParentHeader(h) \in Range(cache) \cup {bolt[Prev[h]], bestCache, boltTip}
      /\ NewStoredHeader(h) \in StoredHeader
  BY ParentLemma DEF IInv
<1>2. ParentHeader(h) # NoHeader
  BY DEF Acceptable, NoSuch
<1>3. ParentHeader(h) \in Held
  BY <1>1, <1>2 DEF Held
<1>4. /\ ParentHeader(h).height = ChainHeight[Prev[h]]
      /\ ParentHeader(h).totalWork = ChainWork[Prev[h]]
      /\ Checkpoint \in Lineage[Prev[h]]
  BY <1>1, <1>3 DEF IInv, HeldOK, TrueStored
<1>5. ChainHeight[h] = ChainHeight[Prev[h]] + 1
  BY <1>1, TreeAssumption
<1>6. h # Checkpoint
  <2>1. ChainHeight[Checkpoint] <= ChainHeight[Prev[h]]
    BY <1>1, <1>4, LineageHeight, TreeAssumption, ChainAssumption
  <2> QED BY <1>1, <1>5, <2>1, TreeAssumption
<1>7. ChainWork[h] = ChainWork[Prev[h]] + CalcWork[h]
  BY <1>1, <1>6, TreeAssumption
<1>8. Checkpoint \in Lineage[h]
  BY <1>1, <1>4, LineageParent
<1>9. HeldOK(NewStoredHeader(h))
  BY <1>1, <1>4, <1>5, <1>7, <1>8, TreeAssumption, ChainAssumption
  DEF HeldOK, TrueStored, NewStoredHeader
<1> QED BY <1>1, <1>9

(* A Put, with a bolt file that at most loses records, holds nothing new   *)
(* but the header put.                                                     *)
LEMMA PutHeld ==
    ASSUME StateOK, NEW sh \in StoredHeader, NEW best \in BOOLEAN, Put(sh, best),
           boltTip' = boltTip, reorg' \in Held \cup {reorg, NoHeader},
           rollback'.sh \in {rollback.sh, NoHeader},
           \A h \in Header : bolt'[h] \in {bolt[h], NoHeader}
    PROVE  Held' \subseteq Held \cup {sh}
<1> SUFFICES ASSUME NEW r \in Held' PROVE r \in Held \cup {sh}
  OBVIOUS
<1>1. r # NoHeader
  BY DEF Held
<1>2. CASE r \in Range(cache')
  BY <1>1, <1>2, PutType DEF Held
<1>3. CASE r \in {bestCache', boltTip', reorg', rollback'.sh}
  BY <1>1, <1>3, PutType DEF Held
<1>4. CASE r \in {bolt'[h] : h \in Header}
  BY <1>1, <1>4 DEF Held
<1>5. CASE r \in {w.sh : w \in DOMAIN pending'}
  <2>0. DOMAIN pending' = DOMAIN pending \cup {[sh |-> sh, newBestHeader |-> best]}
    BY PutType
  <2>1. PICK w \in DOMAIN pending' : r = w.sh
    BY <1>5
  <2>2. w \in DOMAIN pending \/ w = [sh |-> sh, newBestHeader |-> best]
    BY <2>0
  <2>3. CASE w \in DOMAIN pending
    BY <1>1, <2>1, <2>3 DEF Held
  <2>4. CASE w = [sh |-> sh, newBestHeader |-> best]
    BY <2>1, <2>4
  <2> QED BY <2>2, <2>3, <2>4
<1> QED BY <1>2, <1>3, <1>4, <1>5 DEF Held

(* What a lookup returns is held.                                          *)
LEMMA ReadableHeld ==
    ASSUME StateOK, Keyed
    PROVE  Readable \subseteq Held \cap StoredHeader
<1> SUFFICES ASSUME NEW h \in Header, ~NoSuch(GetHeader(h))
             PROVE  GetHeader(h) \in Held /\ GetHeader(h) \in StoredHeader
  BY DEF Readable, NoSuch
<1>1. GetHeader(h) \in StoredHeader /\ GetHeader(h) \in Range(cache) \cup {bolt[h]}
  BY GetHeaderLemma DEF NoSuch
<1> QED BY <1>1 DEF Held, NoSuch

(* A rollback under way holds a record; an idle one holds none.            *)
LEMMA RollbackLemma ==
    ASSUME StateOK
    PROVE  /\ rollback.sh \in StoredHeader \cup {NoHeader}
           /\ rollback.step \in {"walk", "delete", "put"} =>
                 rollback.sh \in StoredHeader /\ rollback.arg \in Nat
  BY DEF StateOK, NoRollback

(* Everything held is a record.                                            *)
LEMMA HeldType ==
    ASSUME StateOK
    PROVE  Held \subseteq StoredHeader
<1> SUFFICES ASSUME NEW r \in Held PROVE r \in StoredHeader
  OBVIOUS
<1>1. CASE r \in Range(cache)
  BY <1>1 DEF StateOK, Range
<1>2. CASE r \in {bestCache, boltTip, reorg}
  BY <1>2 DEF StateOK, Held
<1>5. CASE r = rollback.sh
  BY <1>5, RollbackLemma DEF Held
<1>3. CASE r \in {bolt[h] : h \in Header}
  BY <1>3 DEF StateOK, Held
<1>4. CASE r \in {w.sh : w \in DOMAIN pending}
  BY <1>4 DEF StateOK, Write
<1> QED BY <1>1, <1>2, <1>3, <1>4, <1>5 DEF Held

(* The shape all operations that end in a Put share: the header put is a   *)
(* true record, the bolt file at most loses records.                       *)
LEMMA PutStep ==
    ASSUME IInv, NEW sh \in StoredHeader, HeldOK(sh), NEW best \in BOOLEAN,
           Put(sh, best), boltTip' = boltTip, running' \in BOOLEAN,
           reorg' \in Held \cup {reorg, NoHeader},
           rollback' \in {rollback, NoRollback},
           bolt' \in [Header -> StoredHeader \cup {NoHeader}],
           \A h \in Header : bolt'[h] \in {bolt[h], NoHeader}
    PROVE  IInv'
<1>1. StateOK'
  <2>1. /\ cache' \in Seq(StoredHeader)
        /\ bestCache' \in StoredHeader \cup {NoHeader}
        /\ DOMAIN pending' \subseteq Write
    BY PutType DEF IInv
  <2>2. reorg' \in StoredHeader \cup {NoHeader}
    BY HeldType DEF IInv, StateOK
  <2>3. boltTip' \in StoredHeader \cup {NoHeader}
    BY DEF IInv, StateOK
  <2>4. rollback' \in [step : {"walk", "delete", "put"}, sh : StoredHeader, arg : Nat]
                        \cup {NoRollback}
    BY DEF IInv, StateOK
  <2> QED BY <2>1, <2>2, <2>3, <2>4 DEF StateOK
<1>2. Keyed'
  BY DEF IInv, Keyed, NoSuch
<1>3. Held' \subseteq Held \cup {sh}
  <2>1. rollback'.sh \in {rollback.sh, NoHeader}
    BY DEF NoRollback
  <2> QED BY <2>1, PutHeld DEF IInv
<1>4. \A r \in Held' : HeldOK(r)
  BY <1>3 DEF IInv
<1> QED BY <1>1, <1>2, <1>4 DEF IInv, HeldOK, TrueStored

(* One operation of the chain, whoever calls it.                           *)
Operation == SyncNext \/ Close \/ RollbackNext

LEMMA IInvInit == Init => IInv
<1> SUFFICES ASSUME Init PROVE IInv
  OBVIOUS
<1>1. StateOK
  <2>1. DOMAIN pending = {} /\ cache \in Seq(StoredHeader)
    BY DEF Init, EmptyBag, SetToBag
  <2>2. bolt \in [Header -> StoredHeader \cup {NoHeader}]
    BY DEF Init
  <2> QED BY <2>1, <2>2 DEF Init, StateOK
<1>2. Keyed
  BY DEF Init, Keyed, NoSuch
<1>3. Held = {}
  BY DEF Init, Held, Range, EmptyBag, SetToBag, NoRollback
<1> QED BY <1>1, <1>2, <1>3 DEF IInv

(* One step back finds the record of the parent, or nothing.               *)
LEMMA WalkLemma ==
    ASSUME IInv, NEW sh \in StoredHeader
    PROVE  LET prev == GetPreviousHeader(sh)
           IN  \/ prev = NoHeader
               \/ /\ prev \in Held \cap StoredHeader
                  /\ prev.header = Prev[sh.header] /\ prev.header \in Header
<1>1. sh.header \in Header /\ Prev[sh.header] \in Header \cup {NoHeader}
  BY HeaderAssumption DEF StoredHeader
<1>2. CASE Prev[sh.header] \in Header
  <2>1. GetPreviousHeader(sh) = GetHeader(Prev[sh.header])
    BY DEF GetPreviousHeader
  <2>2. GetPreviousHeader(sh) # NoHeader => GetPreviousHeader(sh) \in Readable
    BY <1>2, <2>1 DEF Readable
  <2> QED BY <1>2, <2>1, <2>2, GetHeaderLemma, ReadableHeld DEF IInv, NoSuch
<1>3. CASE Prev[sh.header] = NoHeader
  <2>1. NoHeader \notin Header
    BY HeaderAssumption
  <2>2. CacheSlots(cache, NoHeader) = {}
    <3>0. \A i \in DOMAIN cache : cache[i] \in StoredHeader
      BY DEF IInv, StateOK
    <3>1. \A i \in DOMAIN cache : cache[i].header \in Header
      BY <3>0 DEF StoredHeader
    <3> QED BY <2>1, <3>1 DEF CacheSlots
  <2> QED BY <1>3, <2>1, <2>2 DEF GetPreviousHeader, GetHeader, Cached
<1> QED BY <1>1, <1>2, <1>3

(* DeleteAfter only takes records away.                                    *)
LEMMA DeleteLemma ==
    ASSUME StateOK, NEW n, DeleteAfter(n)
    PROVE  /\ bolt' \in [Header -> StoredHeader \cup {NoHeader}]
           /\ \A h \in Header : bolt'[h] \in {bolt[h], NoHeader}
  BY DEF StateOK, DeleteAfter

(* NewBlockchain works with records of the bolt file and the checkpoint.   *)
LEMMA OpenLemma ==
    ASSUME IInv
    PROVE  /\ InitialCache \in Seq(StoredHeader)
           /\ Range(InitialCache) \subseteq Held
<1>1. CASE NoSuch(boltTip)
  BY <1>1 DEF InitialCache, Range
<1>2. CASE ~NoSuch(boltTip)
  <2>1. boltTip \in StoredHeader /\ boltTip \in Held
    BY <1>2 DEF IInv, StateOK, NoSuch, Held
  <2> DEFINE p == Prev[boltTip.header]
  <2>2. CASE NoSuch(p) \/ NoSuch(bolt[p])
    <3>1. InitialCache = <<boltTip>>
      BY <1>2, <2>2 DEF InitialCache
    <3> QED BY <2>1, <3>1 DEF Range
  <2>3. CASE ~NoSuch(p) /\ ~NoSuch(bolt[p])
    <3>1. InitialCache = <<bolt[p], boltTip>>
      BY <1>2, <2>3 DEF InitialCache
    <3>2. p \in Header
      BY <2>1, <2>3, HeaderAssumption DEF NoSuch, StoredHeader
    <3>3. bolt[p] \in StoredHeader /\ bolt[p] \in Held
      BY <2>3, <3>2 DEF IInv, StateOK, NoSuch, Held
    <3> QED BY <2>1, <3>1, <3>3 DEF Range
  <2> QED BY <2>2, <2>3
<1> QED BY <1>1, <1>2

(* Every step keeps the records true.                                      *)
LEMMA IInvNext == IInv /\ [Operation]_vars => IInv'
<1> SUFFICES ASSUME IInv, [Operation]_vars PROVE IInv'
  OBVIOUS
<1> USE DEF IInv
<1>0. bolt \in [Header -> StoredHeader \cup {NoHeader}] /\ running \in BOOLEAN
  BY DEF StateOK
<1>1. CASE NewBlockchain
  <2>1. InitialCache \in Seq(StoredHeader) /\ Range(InitialCache) \subseteq Held
    BY OpenLemma
  <2>2. CASE NoSuch(boltTip) \/ boltTip.height = 0
    <3>0. /\ cache' = CacheSet(InitialCache, CheckpointHeader)
          /\ bestCache' = CheckpointHeader
          /\ pending' = BagAdd(pending, [sh |-> CheckpointHeader, newBestHeader |-> TRUE])
          /\ UNCHANGED <<bolt, boltTip, reorg, rollback>> /\ running' = TRUE
      BY <1>1, <2>2 DEF NewBlockchain
    <3>1. cache' \in Seq(StoredHeader) /\ Range(cache') \subseteq Held \cup {CheckpointHeader}
      BY <2>1, <3>0, CacheSetLemma, CheckpointLemma
    <3>2. DOMAIN pending' = DOMAIN pending \cup {[sh |-> CheckpointHeader, newBestHeader |-> TRUE]}
      BY <3>0, BagLemma
    <3>3. [sh |-> CheckpointHeader, newBestHeader |-> TRUE] \in Write
      BY CheckpointLemma DEF Write
    <3>4. StateOK'
      BY <3>0, <3>1, <3>2, <3>3, CheckpointLemma DEF StateOK
    <3>5. Keyed'
      BY <3>0 DEF Keyed
    <3>6. Held' \subseteq Held \cup {CheckpointHeader}
      <4> SUFFICES ASSUME NEW r \in Held' PROVE r \in Held \cup {CheckpointHeader}
        OBVIOUS
      <4>1. r # NoHeader
        BY DEF Held
      <4>2. CASE r \in Range(cache') \cup {bestCache', boltTip', reorg', rollback'.sh}
        BY <4>1, <4>2, <3>0, <3>1 DEF Held
      <4>3. CASE r \in {bolt'[h] : h \in Header}
        BY <4>1, <4>3, <3>0 DEF Held
      <4>4. CASE r \in {w.sh : w \in DOMAIN pending'}
        <5>1. PICK w \in DOMAIN pending' : r = w.sh
          BY <4>4
        <5>2. CASE w \in DOMAIN pending
          BY <4>1, <5>1, <5>2 DEF Held
        <5>3. CASE w = [sh |-> CheckpointHeader, newBestHeader |-> TRUE]
          BY <5>1, <5>3
        <5> QED BY <5>2, <5>3, <3>2
      <4> QED BY <4>2, <4>3, <4>4 DEF Held
    <3> QED BY <3>4, <3>5, <3>6, CheckpointLemma
  <2>3. CASE ~(NoSuch(boltTip) \/ boltTip.height = 0)
    <3>0. /\ cache' = InitialCache /\ bestCache' = boltTip
          /\ UNCHANGED <<bolt, boltTip, reorg, rollback, pending>> /\ running' = TRUE
      BY <1>1, <2>3 DEF NewBlockchain
    <3>1. StateOK' /\ Keyed'
      BY <3>0, <2>1 DEF StateOK, Keyed
    <3>2. Held' \subseteq Held
      BY <3>0, <2>1 DEF Held
    <3> QED BY <3>1, <3>2
  <2> QED BY <2>2, <2>3
<1>2. ASSUME NEW h \in Header, CommitHeader(h) PROVE IInv'
  <2>1. Acceptable(h)
    BY <1>2 DEF CommitHeader, CommitSide, CommitTip, CommitReorg
  <2>2. NewStoredHeader(h) \in StoredHeader /\ HeldOK(NewStoredHeader(h))
    BY <2>1, NewHeaderLemma
  <2>3. PICK best \in BOOLEAN : Put(NewStoredHeader(h), best)
    BY <1>2 DEF CommitHeader, CommitSide, CommitTip, CommitReorg
  <2>4. bolt' = bolt /\ boltTip' = boltTip /\ running' = running /\ rollback' = rollback
    BY <1>2 DEF CommitHeader, CommitSide, CommitTip, CommitReorg
  <2>5. Best \in Held
    BY <2>1, ParentLemma, BestLemma, HeaderAssumption DEF Held, Acceptable, NoSuch
  <2>6. reorg' \in Held \cup {reorg, NoHeader}
    BY <1>2, <2>5, ReadableHeld DEF CommitHeader, CommitSide, CommitTip, CommitReorg
  <2> QED BY <1>0, <2>2, <2>3, <2>4, <2>6, PutStep
<1>3. CASE PutReorg
  <2>1. reorg \in StoredHeader /\ reorg \in Held
    BY <1>3 DEF PutReorg, NoSuch, StateOK, Held
  <2> QED BY <1>0, <1>3, <2>1, PutStep DEF PutReorg
<1>4. CASE IgnoreReorg
  <2>1. StateOK' /\ Keyed'
    BY <1>4 DEF IgnoreReorg, StateOK, Keyed
  <2>2. Held' \subseteq Held
    BY <1>4 DEF IgnoreReorg, Held
  <2> QED BY <2>1, <2>2
<1>5. CASE PutToDB
  <2>1. PICK w \in DOMAIN pending : putToDB(w)
    BY <1>5 DEF PutToDB, BagToSet
  <2>2. UNCHANGED <<cache, bestCache, running, reorg, rollback>>
    BY <1>5, <2>1 DEF PutToDB, putToDB
  <2>3. w.sh \in StoredHeader /\ w.sh.header \in Header /\ w.sh \in Held /\ w.sh # NoHeader
    <3>1. w.sh \in StoredHeader
      BY <2>1 DEF StateOK, Write
    <3>2. w.sh # NoHeader => w.sh \in Held
      BY <2>1 DEF Held
    <3>3. w.sh # NoHeader
      BY <3>1, NotARecord
    <3> QED BY <3>1, <3>2, <3>3 DEF StoredHeader
  <2>4. DOMAIN pending' \subseteq DOMAIN pending
    BY <2>1, BagLemma DEF putToDB
  <2>5. bolt' = [bolt EXCEPT ![w.sh.header] = w.sh] /\ boltTip' \in {boltTip, w.sh}
    BY <2>1 DEF putToDB
  <2>6. StateOK'
    BY <2>2, <2>3, <2>4, <2>5 DEF StateOK
  <2>7. Keyed'
    BY <2>3, <2>5, <1>0 DEF Keyed, NoSuch
  <2>8. Held' \subseteq Held
    BY <1>0, <2>2, <2>3, <2>4, <2>5 DEF Held
  <2> QED BY <2>6, <2>7, <2>8
<1>6. CASE Close
  <2>1. DOMAIN pending' = {} /\ cache' = <<>>
    BY <1>6 DEF Close, CloseStore, EmptyBag, SetToBag
  <2>2. StateOK'
    <3>1. cache' \in Seq(StoredHeader)
      BY <2>1
    <3> QED BY <1>6, <2>1, <3>1 DEF Close, CloseStore, StateOK
  <2>3. Keyed'
    BY <1>6 DEF Close, CloseStore, Keyed
  <2>4. Held' \subseteq Held
    BY <1>6, <2>1 DEF Close, CloseStore, Held, Range, NoRollback
  <2> QED BY <2>2, <2>3, <2>4
<1>7. ASSUME UNCHANGED <<cache, bestCache, bolt, boltTip, pending, running, reorg>>,
             rollback' \in [step : {"walk", "delete", "put"}, sh : StoredHeader, arg : Nat]
                             \cup {NoRollback},
             rollback'.sh \in Held \cup {NoHeader}
      PROVE  IInv'
  <2>1. StateOK' /\ Keyed'
    BY <1>7 DEF StateOK, Keyed
  <2>2. Held' \subseteq Held
    BY <1>7 DEF Held
  <2> QED BY <2>1, <2>2
<1>8. ASSUME Best # NoHeader PROVE Best \in StoredHeader /\ Best \in Held
  BY <1>8, BestLemma DEF Held
<1>10. ASSUME NEW t \in RollbackTimes, Rollback(t) PROVE IInv'
  <2>1. rollback' = [step |-> "walk", sh |-> Best, arg |-> t] /\ Best # NoHeader
    BY <1>10 DEF Rollback, NoSuch
  <2>2. t \in Nat
    BY ChainAssumption
  <2> QED BY <1>7, <1>8, <1>10, <2>1, <2>2 DEF Rollback
<1>11. ASSUME NEW n \in RollbackHeights, RollbackToHeight(n) PROVE IInv'
  <2>1. rollback' = [step |-> "delete", sh |-> Best, arg |-> (n - 1) % UintRange]
        /\ Best # NoHeader
    BY <1>11 DEF RollbackToHeight, NoSuch
  <2>2. (n - 1) % UintRange \in Nat
    BY ChainAssumption
  <2> QED BY <1>7, <1>8, <1>11, <2>1, <2>2 DEF RollbackToHeight
<1>12. CASE RollbackWalk
  <2> DEFINE sh == GetPreviousHeader(rollback.sh)
  <2>1. rollback \in [step : {"walk", "delete", "put"}, sh : StoredHeader, arg : Nat]
    BY <1>12 DEF RollbackWalk, StateOK, NoRollback
  <2>2. sh = NoHeader \/ sh \in Held \cap StoredHeader
    BY <2>1, WalkLemma
  <2> HIDE DEF sh
  <2>3. CASE rollback' = NoRollback
    BY <1>7, <1>12, <2>3 DEF RollbackWalk, NoRollback
  <2>4. CASE sh # NoHeader /\ rollback' = [rollback EXCEPT !.sh = sh]
    BY <1>7, <1>12, <2>1, <2>2, <2>4 DEF RollbackWalk
  <2>5. CASE /\ sh # NoHeader
             /\ rollback' = [step |-> "delete", sh |-> sh,
                             arg |-> IF sh.header = Checkpoint
                                     THEN ChainHeight[Checkpoint] ELSE sh.height]
    <3>1. ChainHeight[Checkpoint] \in Nat /\ sh.height \in Nat
      BY <2>2, <2>5, TreeAssumption, ChainAssumption DEF StoredHeader
    <3> QED BY <1>7, <1>12, <2>2, <2>5, <3>1 DEF RollbackWalk
  <2> QED BY <1>12, <2>3, <2>4, <2>5 DEF RollbackWalk, NoSuch, sh
<1>13. CASE RollbackDelete
  <2>1. /\ UNCHANGED <<cache, bestCache, boltTip, pending, running, reorg>>
        /\ rollback' = [step |-> "put", sh |-> rollback.sh, arg |-> 0]
        /\ rollback.sh \in StoredHeader
        /\ bolt' \in [Header -> StoredHeader \cup {NoHeader}]
        /\ \A h \in Header : bolt'[h] \in {bolt[h], NoHeader}
    BY <1>13, DeleteLemma, RollbackLemma DEF RollbackDelete
  <2>2. StateOK' /\ Keyed'
    BY <2>1 DEF StateOK, Keyed, NoSuch
  <2>3. Held' \subseteq Held
    BY <2>1 DEF Held
  <2> QED BY <2>2, <2>3
<1>14. CASE RollbackPut
  <2>1. rollback.sh \in StoredHeader /\ HeldOK(rollback.sh)
    <3>1. rollback.sh \in StoredHeader
      BY <1>14, RollbackLemma DEF RollbackPut
    <3> QED BY <3>1, NotARecord DEF Held
  <2> QED BY <1>0, <1>14, <2>1, PutStep DEF RollbackPut
<1>9. CASE UNCHANGED vars
  BY <1>9 DEF vars, StateOK, Keyed, Held
<1> QED
  BY <1>1, <1>2, <1>3, <1>4, <1>5, <1>6, <1>9, <1>10, <1>11, <1>12, <1>13, <1>14
  DEF Operation, RollbackNext, SyncNext

(* The history variable takes no part in an operation.                     *)
LEMMA NextOperation ==
    ASSUME [Next]_<<vars, past>>
    PROVE  /\ [Operation]_vars
           /\ past' \in {past, past \cup {"restart"}, past \cup {"rollback"}}
           /\ past' = {} => past = {} /\ [SyncNext]_vars
           /\ "rollback" \notin past' => "rollback" \notin past /\ [SyncNext \/ Close]_vars
<1>1. CASE SyncNext /\ UNCHANGED past
  BY <1>1 DEF Operation
<1>2. CASE Close /\ past' = past \cup {"restart"}
  BY <1>2 DEF Operation
<1>3. CASE RollbackNext /\ past' = past \cup {"rollback"}
  BY <1>3 DEF Operation
<1>4. CASE UNCHANGED <<vars, past>>
  BY <1>4
<1> QED BY <1>1, <1>2, <1>3, <1>4 DEF Next

(* The types of the chain's state, for every instance.                     *)
THEOREM TypeCorrect == Spec => []TypeOK
<1> DEFINE Typed == IInv /\ past \subseteq {"restart", "rollback"}
<1>1. Init => Typed
  BY IInvInit DEF Init
<1>2. ASSUME Typed, [Next]_<<vars, past>> PROVE Typed'
  <2>1. [Operation]_vars /\ past' \in {past, past \cup {"restart"}, past \cup {"rollback"}}
    BY <1>2, NextOperation
  <2> QED BY <1>2, <2>1, IInvNext
<1>3. Typed => TypeOK
  BY DEF IInv, TypeOK
<1> HIDE DEF Typed
<1> QED BY <1>1, <1>2, <1>3, PTL DEF Spec

(* The inductive invariant holds of every behaviour.                       *)
LEMMA IInvAlways == Spec => []IInv
<1>1. IInv /\ [Next]_<<vars, past>> => IInv'
  BY NextOperation, IInvNext
<1> QED BY IInvInit, <1>1, PTL DEF Spec

(* Every record of a header, in memory and on disk, carries the height and *)
(* the work the tree of blocks gives it.                                   *)
THEOREM RecordsTrue == Spec => []StoredTrue
<1>1. IInv => StoredTrue
  BY DEF IInv, StoredTrue, HeldOK
<1> QED BY IInvAlways, <1>1, PTL

(* No commit, rollback, reorganisation or restart leaves a tip, or any     *)
(* other record, that does not build on the checkpoint.                    *)
THEOREM AboveCheckpoint == Spec => []NotBelowCheckpoint
<1>1. IInv => NotBelowCheckpoint
  BY DEF IInv, NotBelowCheckpoint, HeldOK
<1> QED BY IInvAlways, <1>1, PTL

----------------------------------------------------------------------------
(***************************************************************************)
(* The chain is complete while the process only follows the network.  The  *)
(* argument: a header is put only when its parent is the tip, cached or in *)
(* the bolt file, all of which are kept; a put keeps the header from the   *)
(* moment it enters the cache, so eviction loses nothing; putToDB moves a  *)
(* header from `pending' to the file and keeps it.                         *)
(***************************************************************************)
Complete ==
    /\ \A h \in Kept \ {Checkpoint} : Prev[h] \in Kept
    /\ \A sh \in (Range(cache) \cup {bestCache, boltTip, reorg}) \ {NoHeader} :
          sh.header \in Kept

HInv == IInv /\ Complete

(* A Put that leaves the bolt file alone keeps one header more.            *)
LEMMA PutKept ==
    ASSUME NEW w, pending' = BagAdd(pending, w), bolt' = bolt
    PROVE  Kept' = Kept \cup {w.sh.header}
<1>1. DOMAIN pending' = DOMAIN pending \cup {w}
  BY BagLemma
<1> QED BY <1>1 DEF Kept

LEMMA HInvInit == Init => HInv
<1> SUFFICES ASSUME Init PROVE HInv
  OBVIOUS
<1>1. DOMAIN pending = {} /\ Range(cache) = {}
  BY DEF Init, EmptyBag, SetToBag, Range
<1>2. Complete
  BY <1>1 DEF Init, Complete, Kept, NoSuch
<1> QED BY <1>2, IInvInit DEF HInv

(* A Put of a header whose parent is kept leaves no hole.                  *)
LEMMA PutComplete ==
    ASSUME HInv, NEW sh \in StoredHeader, NEW best \in BOOLEAN, Put(sh, best),
           bolt' = bolt, boltTip' = boltTip,
           sh.header = Checkpoint \/ Prev[sh.header] \in Kept,
           reorg' \in {reorg, NoHeader} \/ reorg'.header \in Kept
    PROVE  Complete'
<1>1. Kept' = Kept \cup {sh.header}
  BY PutKept DEF Put
<1>2. \A h \in Kept' \ {Checkpoint} : Prev[h] \in Kept'
  BY <1>1 DEF HInv, Complete
<1>3. /\ Range(cache') \subseteq Range(cache) \cup {sh}
      /\ bestCache' \in {bestCache, sh}
  BY PutType DEF HInv, IInv
<1>4. \A r \in (Range(cache') \cup {bestCache', boltTip', reorg'}) \ {NoHeader} :
         r.header \in Kept'
  BY <1>1, <1>3 DEF HInv, Complete
<1> QED BY <1>2, <1>4 DEF Complete

(* Everything the lookups of CommitHeader return is kept.                  *)
LEMMA ReadableKept ==
    ASSUME HInv
    PROVE  \A sh \in Readable \cup ({Best} \ {NoHeader}) : sh.header \in Kept
<1>1. ASSUME NEW h \in Header, ~NoSuch(GetHeader(h)) PROVE GetHeader(h).header \in Kept
  <2>1. GetHeader(h) \in Range(cache) \cup {bolt[h]} /\ GetHeader(h).header = h
    BY <1>1, GetHeaderLemma DEF HInv, IInv
  <2>2. CASE GetHeader(h) \in Range(cache)
    BY <1>1, <2>2 DEF HInv, Complete, NoSuch
  <2>3. CASE GetHeader(h) = bolt[h]
    BY <1>1, <2>1, <2>3 DEF Kept
  <2> QED BY <2>1, <2>2, <2>3
<1>2. Best # NoHeader => Best.header \in Kept
  BY BestLemma DEF HInv, IInv, Complete
<1> QED BY <1>1, <1>2 DEF Readable, NoSuch

LEMMA HInvNext == HInv /\ [SyncNext]_vars => HInv'
<1> SUFFICES ASSUME HInv, [SyncNext]_vars PROVE HInv'
  OBVIOUS
<1>0. IInv /\ IInv'
  BY IInvNext DEF HInv, Operation
<1>1. CASE NewBlockchain
  <2>1. \A sh \in Range(InitialCache) : sh.header \in Kept /\ sh # NoHeader
    <3> SUFFICES ASSUME NEW sh \in Range(InitialCache) PROVE sh.header \in Kept /\ sh # NoHeader
      OBVIOUS
    <3>1. sh \in Held /\ sh # NoHeader
      BY OpenLemma, <1>0 DEF Held
    <3> DEFINE p == Prev[boltTip.header]
    <3>2. \/ sh = boltTip
          \/ sh = bolt[p] /\ ~NoSuch(p) /\ ~NoSuch(boltTip)
      BY DEF InitialCache, Range
    <3>3. CASE sh = boltTip
      BY <3>1, <3>3 DEF HInv, Complete
    <3>4. CASE sh = bolt[p] /\ ~NoSuch(p) /\ ~NoSuch(boltTip)
      <4>1. boltTip \in StoredHeader
        BY <3>4, <1>0 DEF IInv, StateOK, NoSuch
      <4>2. p \in Header
        BY <3>4, <4>1, HeaderAssumption DEF NoSuch, StoredHeader
      <4>3. bolt[p].header = p
        BY <3>1, <3>4, <4>2, <1>0 DEF IInv, Keyed, NoSuch
      <4> QED BY <3>1, <3>4, <4>2, <4>3 DEF Kept, NoSuch
    <3> QED BY <3>1, <3>2, <3>3, <3>4
  <2>2. CASE NoSuch(boltTip) \/ boltTip.height = 0
    <3>0. /\ cache' = CacheSet(InitialCache, CheckpointHeader)
          /\ bestCache' = CheckpointHeader
          /\ pending' = BagAdd(pending, [sh |-> CheckpointHeader, newBestHeader |-> TRUE])
          /\ UNCHANGED <<bolt, boltTip, reorg>>
      BY <1>1, <2>2 DEF NewBlockchain
    <3>1. Kept' = Kept \cup {Checkpoint}
      <4>1. Kept' = Kept \cup {CheckpointHeader.header}
        BY <3>0, PutKept
      <4> QED BY <4>1 DEF CheckpointHeader
    <3>2. Range(cache') \subseteq Range(InitialCache) \cup {CheckpointHeader}
      BY <3>0, <1>0, OpenLemma, CacheSetLemma, CheckpointLemma
    <3>3. \A h \in Kept' \ {Checkpoint} : Prev[h] \in Kept'
      BY <3>1 DEF HInv, Complete
    <3>4. \A r \in (Range(cache') \cup {bestCache', boltTip', reorg'}) \ {NoHeader} :
             r.header \in Kept'
      BY <2>1, <3>0, <3>1, <3>2 DEF HInv, Complete, CheckpointHeader
    <3> QED BY <1>0, <3>3, <3>4 DEF HInv, Complete
  <2>3. CASE ~(NoSuch(boltTip) \/ boltTip.height = 0)
    <3>0. /\ cache' = InitialCache /\ bestCache' = boltTip
          /\ UNCHANGED <<bolt, boltTip, reorg, pending>>
      BY <1>1, <2>3 DEF NewBlockchain
    <3>1. Kept' = Kept
      BY <3>0 DEF Kept
    <3> QED BY <1>0, <2>1, <3>0, <3>1 DEF HInv, Complete
  <2> QED BY <2>2, <2>3
<1>2. ASSUME NEW h \in Header, CommitHeader(h) PROVE HInv'
  <2>1. Acceptable(h)
    BY <1>2 DEF CommitHeader, CommitSide, CommitTip, CommitReorg
  <2>2. /\ NewStoredHeader(h) \in StoredHeader
        /\ NewStoredHeader(h).header = h
        /\ Prev[h] \in Header
        /\ ParentHeader(h).header = Prev[h] /\ ParentHeader(h) # NoHeader
        /\ ParentHeader(h) \in Range(cache) \cup {bolt[Prev[h]], bestCache, boltTip}
    BY <1>0, <2>1, ParentLemma DEF IInv, NewStoredHeader, Acceptable, NoSuch
  <2>3. Prev[h] \in Kept
    <3>1. CASE ParentHeader(h) \in Range(cache) \cup {bestCache, boltTip}
      BY <2>2, <3>1 DEF HInv, Complete
    <3>2. CASE ParentHeader(h) = bolt[Prev[h]]
      BY <2>2, <3>2 DEF Kept, NoSuch
    <3> QED BY <2>2, <3>1, <3>2
  <2>4. PICK best \in BOOLEAN : Put(NewStoredHeader(h), best)
    BY <1>2 DEF CommitHeader, CommitSide, CommitTip, CommitReorg
  <2>5. bolt' = bolt /\ boltTip' = boltTip
    BY <1>2 DEF CommitHeader, CommitSide, CommitTip, CommitReorg
  <2>6. Best # NoHeader
    BY <2>1 DEF Acceptable, NoSuch
  <2>7. reorg' \in {reorg, NoHeader} \/ reorg'.header \in Kept
    BY <1>2, <2>6, ReadableKept DEF CommitHeader, CommitSide, CommitTip, CommitReorg
  <2>8. Complete'
    BY <2>2, <2>3, <2>4, <2>5, <2>7, PutComplete
  <2> QED BY <1>0, <2>8 DEF HInv
<1>3. CASE PutReorg
  <2>1. reorg \in StoredHeader /\ reorg # NoHeader
    BY <1>0, <1>3 DEF PutReorg, NoSuch, IInv, StateOK
  <2>2. reorg.header \in Kept
    BY <2>1 DEF HInv, Complete
  <2>3. reorg.header = Checkpoint \/ Prev[reorg.header] \in Kept
    BY <2>2 DEF HInv, Complete
  <2>4. Put(reorg, TRUE) /\ bolt' = bolt /\ boltTip' = boltTip /\ reorg' = NoHeader
    BY <1>3 DEF PutReorg
  <2>5. Complete'
    BY <2>1, <2>3, <2>4, PutComplete
  <2> QED BY <1>0, <2>5 DEF HInv
<1>4. CASE IgnoreReorg
  <2>1. Kept' = Kept
    BY <1>4 DEF IgnoreReorg, Kept
  <2> QED BY <1>0, <1>4, <2>1 DEF IgnoreReorg, HInv, Complete
<1>5. CASE PutToDB
  <2>1. PICK w \in DOMAIN pending : putToDB(w)
    BY <1>5 DEF PutToDB, BagToSet
  <2>2. w.sh \in StoredHeader /\ w.sh.header \in Header /\ w.sh # NoHeader
    BY <1>0, <2>1, NotARecord DEF IInv, StateOK, Write, StoredHeader
  <2>3. /\ DOMAIN pending' \subseteq DOMAIN pending
        /\ DOMAIN pending \subseteq DOMAIN pending' \cup {w}
    BY <2>1, BagLemma DEF putToDB
  <2>4. bolt \in [Header -> StoredHeader \cup {NoHeader}]
        /\ bolt' = [bolt EXCEPT ![w.sh.header] = w.sh] /\ boltTip' \in {boltTip, w.sh}
        /\ UNCHANGED <<cache, bestCache, reorg>>
    BY <1>0, <1>5, <2>1 DEF PutToDB, putToDB, IInv, StateOK
  <2>5. w.sh.header \in Kept
    BY <2>1 DEF Kept
  <2>6. {h \in Header : ~NoSuch(bolt'[h])} = {h \in Header : ~NoSuch(bolt[h])} \cup {w.sh.header}
    BY <2>2, <2>4 DEF NoSuch
  <2>7. Kept' = Kept
    BY <2>1, <2>3, <2>6 DEF Kept
  <2> QED BY <1>0, <2>4, <2>5, <2>7 DEF HInv, Complete
<1>6. CASE UNCHANGED vars
  <2>1. Kept' = Kept
    BY <1>6 DEF vars, Kept
  <2> QED BY <1>0, <1>6, <2>1 DEF vars, HInv, Complete
<1> QED BY <1>1, <1>2, <1>3, <1>4, <1>5, <1>6 DEF SyncNext

(* While one run of the process follows the network, no eviction and no    *)
(* order of the background writes breaks the chain from the tip down to    *)
(* the checkpoint.                                                         *)
THEOREM ChainComplete == Spec => []NoHole
<1> DEFINE Followed == IInv /\ (past = {} => Complete)
<1>1. Init => Followed
  BY HInvInit DEF HInv
<1>2. ASSUME Followed, [Next]_<<vars, past>> PROVE Followed'
  <2>1. IInv'
    BY <1>2, NextOperation, IInvNext
  <2>2. past' = {} => Complete'
    BY <1>2, NextOperation, HInvNext DEF HInv
  <2> QED BY <2>1, <2>2
<1>3. Followed => NoHole
  BY DEF NoHole, Complete
<1> HIDE DEF Followed
<1> QED BY <1>1, <1>2, <1>3, PTL DEF Spec

----------------------------------------------------------------------------
(***************************************************************************)
(* Two records of one header are equal because both are true; so a late    *)
(* write of a header that is also the tip cannot make the two disagree.    *)
(***************************************************************************)
TipHasRecord == ~NoSuch(boltTip) => bolt[boltTip.header] = boltTip

LEMMA TipRecordedNext == IInv /\ TipHasRecord /\ [SyncNext \/ Close]_vars => TipHasRecord'
<1> SUFFICES ASSUME IInv, TipHasRecord, [SyncNext \/ Close]_vars PROVE TipHasRecord'
  OBVIOUS
<1>1. CASE PutToDB
  <2>1. PICK w \in DOMAIN pending : putToDB(w)
    BY <1>1 DEF PutToDB, BagToSet
  <2>2. w.sh \in StoredHeader /\ w.sh.header \in Header /\ w.sh # NoHeader
    BY <2>1, NotARecord DEF IInv, StateOK, Write, StoredHeader
  <2>3. w.sh \in Held
    BY <2>1, <2>2 DEF Held
  <2>4. bolt \in [Header -> StoredHeader \cup {NoHeader}]
        /\ bolt' = [bolt EXCEPT ![w.sh.header] = w.sh]
        /\ boltTip' = IF w.newBestHeader THEN w.sh ELSE boltTip
    BY <2>1 DEF putToDB, IInv, StateOK
  <2>5. CASE w.newBestHeader
    BY <2>2, <2>4, <2>5 DEF TipHasRecord
  <2>6. CASE ~w.newBestHeader /\ ~NoSuch(boltTip)
    <3>1. boltTip \in StoredHeader /\ boltTip \in Held
      BY <2>6 DEF IInv, StateOK, NoSuch, Held
    <3>2. CASE boltTip.header = w.sh.header
      <4>1. boltTip.height = w.sh.height /\ boltTip.totalWork = w.sh.totalWork
        BY <2>3, <3>1, <3>2 DEF IInv, HeldOK, TrueStored
      <4>2. boltTip = w.sh
        BY <2>2, <3>1, <3>2, <4>1 DEF StoredHeader
      <4> QED BY <2>2, <2>4, <2>6, <4>2 DEF TipHasRecord
    <3>3. CASE boltTip.header # w.sh.header
      BY <2>2, <2>4, <2>6, <3>1, <3>3 DEF TipHasRecord, StoredHeader
    <3> QED BY <3>2, <3>3
  <2>7. CASE ~w.newBestHeader /\ NoSuch(boltTip)
    BY <2>4, <2>7 DEF TipHasRecord
  <2> QED BY <2>5, <2>6, <2>7
<1>2. CASE UNCHANGED <<bolt, boltTip>>
  BY <1>2 DEF TipHasRecord, NoSuch
<1>3. ASSUME ~PutToDB PROVE UNCHANGED <<bolt, boltTip>>
  BY <1>3 DEF SyncNext, NewBlockchain, CommitHeader, CommitSide, CommitTip,
              CommitReorg, PutReorg, IgnoreReorg, Close, CloseStore, vars
<1> QED BY <1>1, <1>2, <1>3

(* A process that starts again can look up the tip it reads, whatever was  *)
(* lost when it stopped; only a rollback can break this.                   *)
THEOREM TipOnDisk == Spec => []TipRecorded
<1> DEFINE Recorded == IInv /\ ("rollback" \notin past => TipHasRecord)
<1>1. Init => Recorded
  BY IInvInit DEF Init, TipHasRecord, NoSuch
<1>2. ASSUME Recorded, [Next]_<<vars, past>> PROVE Recorded'
  <2>1. IInv'
    BY <1>2, NextOperation, IInvNext
  <2>2. "rollback" \notin past' => TipHasRecord'
    BY <1>2, NextOperation, TipRecordedNext
  <2> QED BY <2>1, <2>2
<1>3. Recorded => TipRecorded
  BY DEF TipRecorded, TipHasRecord
<1> HIDE DEF Recorded
<1> QED BY <1>1, <1>2, <1>3, PTL DEF Spec

----------------------------------------------------------------------------
(***************************************************************************)
(* Walks along the chain.                                                  *)
(***************************************************************************)

(* The least number of a set that has one.                                 *)
LEMMA LeastLemma ==
    ASSUME NEW T \in SUBSET Nat, T # {}
    PROVE  Least(T) \in T /\ \A j \in T : Least(T) <= j
<1>1. \E i \in T : \A j \in T : i <= j
  BY LeastNat
<1> QED BY <1>1 DEF Least

(* One more GetPreviousHeader.                                             *)
StepBack(sh) == IF NoSuch(sh) THEN NoHeader ELSE GetPreviousHeader(sh)

(* f lists the first n steps back from sh.                                 *)
IsWalk(f, sh, n) == f = [i \in 0..n |-> IF i = 0 THEN sh ELSE StepBack(f[i-1])]

LEMMA WalkExists ==
    ASSUME NEW sh, NEW n \in Nat
    PROVE  \E f : IsWalk(f, sh, n)
<1> DEFINE S == {m \in Nat : \E f : IsWalk(f, sh, m)}
<1>1. 0 \in S
  <2>1. IsWalk([i \in 0..0 |-> sh], sh, 0)
    BY DEF IsWalk
  <2> QED BY <2>1
<1>2. ASSUME NEW m \in Nat, m \in S PROVE m + 1 \in S
  <2>1. PICK f : IsWalk(f, sh, m)
    BY <1>2
  <2> DEFINE g == [i \in 0..(m+1) |-> IF i = 0 THEN sh ELSE StepBack(f[i-1])]
  <2>2. \A i \in 0..m : f[i] = IF i = 0 THEN sh ELSE StepBack(f[i-1])
    BY <2>1 DEF IsWalk
  <2>3. \A i \in 0..m : g[i] = f[i]
    BY <2>2
  <2>4. \A i \in 0..(m+1) : i # 0 => g[i] = StepBack(g[i-1])
    <3> SUFFICES ASSUME NEW i \in 0..(m+1), i # 0 PROVE g[i] = StepBack(g[i-1])
      OBVIOUS
    <3>1. i - 1 \in 0..m
      OBVIOUS
    <3> QED BY <3>1, <2>3
  <2>5. g[0] = sh
    OBVIOUS
  <2>6. g = [i \in 0..(m+1) |-> IF i = 0 THEN sh ELSE StepBack(g[i-1])]
    <3>1. g = [i \in 0..(m+1) |-> g[i]]
      OBVIOUS
    <3>2. \A i \in 0..(m+1) : g[i] = IF i = 0 THEN sh ELSE StepBack(g[i-1])
      BY <2>4, <2>5
    <3> HIDE DEF g
    <3> QED BY <3>1, <3>2
  <2> HIDE DEF g
  <2> QED BY <2>6 DEF IsWalk
<1> HIDE DEF S
<1>3. Nat \subseteq S
  BY <1>1, <1>2, NatSetInduction
<1> QED BY <1>3 DEF S

LEMMA WalkUnique ==
    ASSUME NEW sh, NEW m \in Nat, NEW n \in Nat, m <= n,
           NEW f, IsWalk(f, sh, m), NEW g, IsWalk(g, sh, n)
    PROVE  f[m] = g[m]
<1>1. /\ \A i \in 0..m : f[i] = IF i = 0 THEN sh ELSE StepBack(f[i-1])
      /\ \A i \in 0..n : g[i] = IF i = 0 THEN sh ELSE StepBack(g[i-1])
  BY DEF IsWalk
<1> DEFINE S == {i \in Nat : i <= m => f[i] = g[i]}
<1>2. 0 \in S
  BY <1>1
<1>3. ASSUME NEW i \in Nat, i \in S PROVE i + 1 \in S
  <2> SUFFICES ASSUME i + 1 <= m PROVE f[i+1] = g[i+1]
    OBVIOUS
  <2>1. i + 1 \in 0..m /\ i + 1 \in 0..n /\ i + 1 # 0 /\ (i + 1) - 1 = i /\ f[i] = g[i]
    BY <1>3
  <2>2. f[i+1] = StepBack(f[(i+1)-1]) /\ g[i+1] = StepBack(g[(i+1)-1])
    BY <1>1, <2>1
  <2> QED BY <2>1, <2>2
<1> HIDE DEF S
<1>4. Nat \subseteq S
  BY <1>2, <1>3, NatSetInduction
<1> QED BY <1>4 DEF S

(* Back is such a walk.                                                    *)
LEMMA BackWalk ==
    ASSUME NEW sh, NEW n \in Nat
    PROVE  \E f : IsWalk(f, sh, n) /\ Back(sh, n) = f[n]
<1>1. \E f : f = [i \in 0..n |-> IF i = 0 THEN sh
                                 ELSE IF NoSuch(f[i-1]) THEN NoHeader
                                 ELSE GetPreviousHeader(f[i-1])]
  BY WalkExists DEF IsWalk, StepBack
<1> DEFINE back == CHOOSE f : f = [i \in 0..n |-> IF i = 0 THEN sh
                                 ELSE IF NoSuch(f[i-1]) THEN NoHeader
                                 ELSE GetPreviousHeader(f[i-1])]
<1>2. back = [i \in 0..n |-> IF i = 0 THEN sh
                                 ELSE IF NoSuch(back[i-1]) THEN NoHeader
                                 ELSE GetPreviousHeader(back[i-1])]
  BY <1>1
<1>3. Back(sh, n) = back[n]
  BY DEF Back
<1>4. IsWalk(back, sh, n)
  BY <1>2 DEF IsWalk, StepBack
<1> QED BY <1>3, <1>4

LEMMA BackLemma ==
    ASSUME NEW sh
    PROVE  /\ Back(sh, 0) = sh
           /\ \A n \in Nat : Back(sh, n + 1) = StepBack(Back(sh, n))
<1>1. Back(sh, 0) = sh
  BY BackWalk DEF IsWalk
<1>2. ASSUME NEW n \in Nat PROVE Back(sh, n + 1) = StepBack(Back(sh, n))
  <2>1. PICK f : IsWalk(f, sh, n) /\ Back(sh, n) = f[n]
    BY BackWalk
  <2>2. PICK g : IsWalk(g, sh, n + 1) /\ Back(sh, n + 1) = g[n + 1]
    BY BackWalk
  <2>3. f[n] = g[n]
    BY <2>1, <2>2, WalkUnique
  <2>4. g[n + 1] = StepBack(g[(n + 1) - 1])
    BY <2>2 DEF IsWalk
  <2>5. (n + 1) - 1 = n
    OBVIOUS
  <2> QED BY <2>1, <2>2, <2>3, <2>4, <2>5
<1> QED BY <1>1, <1>2
(* GetPreviousHeader finds the record of the parent or nothing.            *)
LEMMA StepBackLemma ==
    ASSUME IInv, NEW sh \in StoredHeader, StepBack(sh) # NoHeader
    PROVE  /\ StepBack(sh) \in StoredHeader
           /\ Prev[sh.header] \in Header
           /\ StepBack(sh).header = Prev[sh.header]
           /\ HeldOK(StepBack(sh))
<1>1. StepBack(sh) = GetPreviousHeader(sh)
  BY NotARecord DEF StepBack, NoSuch
<1> QED BY <1>1, WalkLemma DEF IInv

(* Where a walk that does not fail is after n steps: at the ancestor of    *)
(* the header it started from that is n blocks lower.                      *)
LEMMA BackHeld ==
    ASSUME IInv, NEW sh \in StoredHeader, HeldOK(sh), NEW n \in Nat, Back(sh, n) # NoHeader
    PROVE  /\ Back(sh, n) \in StoredHeader
           /\ HeldOK(Back(sh, n))
           /\ Back(sh, n).header \in Lineage[sh.header]
           /\ Back(sh, n).height = sh.height - n
<1> DEFINE Right(x, i) == /\ x \in StoredHeader
                          /\ HeldOK(x)
                          /\ x.header \in Lineage[sh.header]
                          /\ x.height = sh.height - i
           S == {i \in Nat : Back(sh, i) # NoHeader => Right(Back(sh, i), i)}
<1>0. sh.header \in Header /\ sh.height \in Nat
  BY DEF StoredHeader
<1>1. 0 \in S
  <2>1. Right(sh, 0)
    BY <1>0, LineageClosed
  <2> QED BY <2>1, BackLemma
<1>2. ASSUME NEW i \in Nat, i \in S PROVE i + 1 \in S
  <2> DEFINE x == Back(sh, i)
             y == Back(sh, i + 1)
  <2>1. y = StepBack(x)
    BY BackLemma
  <2> SUFFICES ASSUME y # NoHeader PROVE Right(y, i + 1)
    OBVIOUS
  <2>2. x # NoHeader
    BY <2>1 DEF StepBack, NoSuch
  <2>3. Right(x, i)
    BY <1>2, <2>2
  <2> HIDE DEF x, y
  <2>4. /\ y \in StoredHeader /\ HeldOK(y)
        /\ Prev[x.header] \in Header /\ y.header = Prev[x.header]
    BY <2>1, <2>3, StepBackLemma
  <2>5. y.header \in Lineage[sh.header]
    BY <1>0, <2>3, <2>4, LineageClosed
  <2>6. x.header \in Header
    BY <2>3 DEF StoredHeader
  <2>7. x.height = ChainHeight[x.header] /\ y.height = ChainHeight[y.header]
    BY <2>3, <2>4 DEF HeldOK, TrueStored
  <2>8. ChainHeight[x.header] = ChainHeight[y.header] + 1 /\ ChainHeight[y.header] \in Nat
    BY <2>4, <2>6, TreeAssumption
  <2>9. y.height = sh.height - (i + 1)
    BY <1>0, <2>3, <2>7, <2>8
  <2> QED BY <2>4, <2>5, <2>9
<1> HIDE DEF S
<1>3. Nat \subseteq S
  BY <1>1, <1>2, NatSetInduction
<1> QED BY <1>3 DEF S

(* A walk that has failed does not come back.                              *)
LEMMA BackDown ==
    ASSUME NEW sh, NEW n \in Nat, Back(sh, n) # NoHeader, NEW m \in 0..n
    PROVE  Back(sh, m) # NoHeader
<1> DEFINE S == {i \in Nat : Back(sh, m) = NoHeader => Back(sh, m + i) = NoHeader}
<1>1. 0 \in S
  OBVIOUS
<1>2. ASSUME NEW i \in Nat, i \in S PROVE i + 1 \in S
  <2>1. Back(sh, (m + i) + 1) = StepBack(Back(sh, m + i))
    BY BackLemma
  <2>2. (m + i) + 1 = m + (i + 1)
    OBVIOUS
  <2> QED BY <1>2, <2>1, <2>2 DEF StepBack, NoSuch
<1> HIDE DEF S
<1>3. Nat \subseteq S
  BY <1>1, <1>2, NatSetInduction
<1>4. n - m \in Nat /\ m + (n - m) = n
  OBVIOUS
<1>5. n - m \in S
  BY <1>3, <1>4
<1> QED BY <1>4, <1>5 DEF S
(* What GetCommonAncestor returns is on both chains, and nothing higher    *)
(* is.                                                                     *)
LEMMA CommonAncestorLemma ==
    ASSUME IInv, NEW b \in StoredHeader, HeldOK(b), NEW p \in StoredHeader, HeldOK(p),
           GetCommonAncestor(b, p) # NoHeader
    PROVE  LET a == GetCommonAncestor(b, p).header
           IN  /\ a \in Lineage[b.header] \cap Lineage[p.header]
               /\ \A h \in Lineage[b.header] \cap Lineage[p.header] :
                     ChainHeight[h] <= ChainHeight[a]
<1> DEFINE low == Least({b.height, p.height})
           Majority(i) == Back(b, b.height - low + i)
           Minority(i) == Back(p, p.height - low + i)
           meet == {i \in 0..low : /\ ~NoSuch(Majority(i)) /\ ~NoSuch(Minority(i))
                                   /\ Majority(i).header = Minority(i).header}
           k == Least(meet)
           a == Majority(k)
<1>1. b.height \in Nat /\ p.height \in Nat /\ b.header \in Header /\ p.header \in Header
  BY DEF StoredHeader
<1>2. low \in Nat /\ low <= b.height /\ low <= p.height
  BY <1>1, LeastLemma
<1>3. meet # {} /\ GetCommonAncestor(b, p) = a
  BY DEF GetCommonAncestor
<1>4. meet \in SUBSET Nat
  BY <1>2
<1> HIDE DEF low
<1>5. k \in meet /\ \A j \in meet : k <= j
  <2> HIDE DEF meet
  <2> QED BY <1>3, <1>4, LeastLemma
<1>6. k \in 0..low /\ Majority(k) # NoHeader /\ Minority(k) # NoHeader
      /\ Majority(k).header = Minority(k).header
  BY <1>5 DEF NoSuch
<1> HIDE DEF k
<1>7. ASSUME NEW i \in 0..k
      PROVE  /\ b.height - low + i \in Nat /\ p.height - low + i \in Nat
             /\ Majority(i) \in StoredHeader /\ HeldOK(Majority(i))
             /\ Majority(i).header \in Lineage[b.header]
             /\ Majority(i).height = low - i
             /\ Minority(i) \in StoredHeader /\ HeldOK(Minority(i))
             /\ Minority(i).header \in Lineage[p.header]
             /\ Minority(i).height = low - i
  <2>1. /\ b.height - low + k \in Nat /\ b.height - low + i \in 0..(b.height - low + k)
        /\ p.height - low + k \in Nat /\ p.height - low + i \in 0..(p.height - low + k)
    BY <1>1, <1>2, <1>6
  <2>2. Majority(i) # NoHeader /\ Minority(i) # NoHeader
    BY <1>6, <2>1, BackDown
  <2>3. b.height - low + i \in Nat /\ p.height - low + i \in Nat
    BY <2>1
  <2>4. /\ Majority(i) \in StoredHeader /\ HeldOK(Majority(i))
        /\ Majority(i).header \in Lineage[b.header]
        /\ Majority(i).height = b.height - (b.height - low + i)
    BY <2>2, <2>3, BackHeld
  <2>5. /\ Minority(i) \in StoredHeader /\ HeldOK(Minority(i))
        /\ Minority(i).header \in Lineage[p.header]
        /\ Minority(i).height = p.height - (p.height - low + i)
    BY <2>2, <2>3, BackHeld
  <2>6. /\ b.height - (b.height - low + i) = low - i
        /\ p.height - (p.height - low + i) = low - i
    BY <1>1, <1>2
  <2> QED BY <2>3, <2>4, <2>5, <2>6
<1>8. k \in 0..k
  BY <1>6
<1>9. a.header \in Lineage[b.header] \cap Lineage[p.header]
      /\ ChainHeight[a.header] = low - k
  BY <1>6, <1>7, <1>8 DEF HeldOK, TrueStored
<1>10. ASSUME NEW h \in Lineage[b.header] \cap Lineage[p.header],
              ~(ChainHeight[h] <= ChainHeight[a.header])
       PROVE  FALSE
  <2>1. h \in Header /\ ChainHeight[h] \in Nat
    BY <1>1, LineageClosed, TreeAssumption
  <2>2. ChainHeight[h] <= b.height /\ ChainHeight[h] <= p.height
    <3>1. b.height = ChainHeight[b.header] /\ p.height = ChainHeight[p.header]
      BY DEF HeldOK, TrueStored
    <3> QED BY <1>1, <2>1, <3>1, LineageHeight
  <2>3. ChainHeight[h] <= low
    <3>1. low \in {b.height, p.height}
      BY <1>1, LeastLemma DEF low
    <3> QED BY <2>2, <3>1
  <2> DEFINE j == low - ChainHeight[h]
  <2>4. j \in 0..low /\ j \in 0..k /\ j < k /\ low - j = ChainHeight[h]
    BY <1>2, <1>6, <1>9, <1>10, <2>1, <2>3
  <2> HIDE DEF j
  <2>5. Majority(j).header = h
    <3>1. Majority(j).header \in Lineage[b.header]
          /\ ChainHeight[Majority(j).header] = ChainHeight[h]
      BY <1>7, <2>4 DEF HeldOK, TrueStored
    <3> QED BY <1>1, <3>1, LineageOneEach
  <2>6. Minority(j).header = h
    <3>1. Minority(j).header \in Lineage[p.header]
          /\ ChainHeight[Minority(j).header] = ChainHeight[h]
      BY <1>7, <2>4 DEF HeldOK, TrueStored
    <3> QED BY <1>1, <3>1, LineageOneEach
  <2>7. j \in meet
    BY <1>7, <2>4, <2>5, <2>6, NotARecord DEF NoSuch
  <2> QED BY <1>5, <1>6, <2>4, <2>7
<1> QED BY <1>3, <1>9, <1>10

----------------------------------------------------------------------------
(***************************************************************************)
(* How the tip moves.  Between the commit of a reorganisation and the      *)
(* handler's late PutReorg the user may roll the chain back, below the     *)
(* common ancestor too, and PutReorg may come between any two calls of a   *)
(* rollback.  What keeps the late puts from moving the tip sideways is     *)
(* that the tip, the ancestor and the header the rollback has in hand stay *)
(* on one chain: only CommitHeader starts another one, and it runs with    *)
(* neither of the two under way.                                           *)
(***************************************************************************)
Comparable(p, q) == p.header \in Lineage[q.header] \/ q.header \in Lineage[p.header]

OneChain ==
    \A p, q \in {bestCache, reorg, rollback.sh} \ {NoHeader} : Comparable(p, q)

TInv == /\ IInv
        /\ running => bestCache # NoHeader
        /\ ~running => bestCache = NoHeader /\ reorg = NoHeader /\ rollback.sh = NoHeader
        /\ OneChain

(* A running process works with the tip in memory.                         *)
LEMMA RunningBest ==
    ASSUME TInv, running
    PROVE  /\ Best = bestCache
           /\ bestCache \in StoredHeader \cap Held
           /\ HeldOK(bestCache)
           /\ bestCache.header \in Header
<1>1. bestCache # NoHeader
  BY DEF TInv
<1>2. bestCache \in StoredHeader /\ bestCache \in Held
  BY <1>1 DEF TInv, IInv, StateOK, Held
<1> QED BY <1>1, <1>2 DEF TInv, IInv, Best, GetBestHeader, NoSuch, StoredHeader

(* A header on the chain of the tip has more work than the tip or is an    *)
(* ancestor of it.                                                         *)
LEMMA ComparableMoves ==
    ASSUME NEW p \in StoredHeader, HeldOK(p), NEW q \in StoredHeader, HeldOK(q), Comparable(p, q)
    PROVE  q.totalWork > p.totalWork \/ q.header \in Lineage[p.header]
<1>1. p.header \in Header /\ q.header \in Header /\ Checkpoint \in Lineage[p.header]
  BY DEF StoredHeader, HeldOK
<1>2. CASE p.header \in Lineage[q.header]
  <2>1. p.header = q.header \/ ChainWork[p.header] < ChainWork[q.header]
    BY <1>1, <1>2, LineageWork
  <2>2. CASE p.header = q.header
    BY <1>1, <2>2, LineageClosed
  <2>3. CASE ChainWork[p.header] < ChainWork[q.header]
    BY <1>1, <2>3, TreeAssumption DEF HeldOK, TrueStored
  <2> QED BY <2>1, <2>2, <2>3
<1> QED BY <1>2 DEF Comparable

(* The parent of a header stays on the chain the header is on.             *)
LEMMA ComparableParent ==
    ASSUME NEW p \in StoredHeader, NEW q \in StoredHeader, Comparable(p, q),
           NEW up \in StoredHeader, up.header = Prev[q.header]
    PROVE  Comparable(p, up)
<1>1. p.header \in Header /\ q.header \in Header /\ Prev[q.header] \in Header
  BY DEF StoredHeader
<1>2. q.header \in Lineage[q.header] /\ Prev[q.header] \in Lineage[q.header]
  BY <1>1, LineageClosed
<1>3. CASE p.header \in Lineage[q.header]
  BY <1>1, <1>2, <1>3, LineageLinear DEF Comparable
<1>4. CASE q.header \in Lineage[p.header]
  BY <1>1, <1>4, LineageClosed DEF Comparable
<1> QED BY <1>3, <1>4 DEF Comparable

(* What one operation does to the tip, to the ancestor to be put back and  *)
(* to the header a rollback has in hand.                                   *)
LEMMA TipStep ==
    ASSUME TInv, [Operation]_vars
    PROVE  /\ TInv'
           /\ running /\ running' => \/ bestCache'.totalWork > bestCache.totalWork
                                     \/ bestCache'.header \in Lineage[bestCache.header]
<1>0. IInv /\ IInv'
  BY IInvNext DEF TInv
<1> DEFINE Moves == \/ bestCache'.totalWork > bestCache.totalWork
                    \/ bestCache'.header \in Lineage[bestCache.header]
<1>1. CASE NewBlockchain
  <2>1. /\ ~running /\ running' /\ reorg' = NoHeader /\ rollback'.sh = NoHeader
    BY <1>1 DEF NewBlockchain, TInv
  <2>2. bestCache' # NoHeader
    BY <1>1, CheckpointLemma, NotARecord DEF NewBlockchain, NoSuch
  <2>3. OneChain'
    <3>1. bestCache'.header \in Header
      BY <1>0, <2>2 DEF IInv, StateOK, StoredHeader
    <3> QED BY <2>1, <3>1, LineageClosed DEF OneChain, Comparable
  <2> QED BY <1>0, <2>1, <2>2, <2>3 DEF TInv
<1>2. ASSUME running, running' = running,
             bestCache' # NoHeader,
             {bestCache', reorg', rollback'.sh} \subseteq {bestCache, reorg, rollback.sh, NoHeader}
      PROVE  TInv' /\ Moves
  <2>1. OneChain'
    BY <1>2 DEF TInv, OneChain, Comparable
  <2>2. /\ bestCache \in StoredHeader /\ HeldOK(bestCache)
        /\ bestCache' \in StoredHeader /\ HeldOK(bestCache')
    <3>1. bestCache' \in {reorg, bestCache, rollback.sh}
      BY <1>2
    <3>2. bestCache' \in Held
      BY <1>2, <3>1 DEF Held
    <3> QED BY <1>0, <1>2, <3>2, RunningBest, HeldType DEF IInv
  <2>3. Comparable(bestCache, bestCache')
    BY <1>2, <2>2, NotARecord DEF TInv, OneChain
  <2>4. Moves
    BY <2>2, <2>3, ComparableMoves
  <2> QED BY <1>0, <1>2, <2>1, <2>4 DEF TInv
<1>3. ASSUME NEW h \in Header, CommitHeader(h) PROVE TInv' /\ Moves
  <2>1. /\ Acceptable(h) /\ running /\ running' = running /\ reorg = NoHeader
        /\ rollback.sh = NoHeader /\ rollback' = rollback
    <3>1. Acceptable(h) /\ running' = running /\ rollback' = rollback
      BY <1>3 DEF CommitHeader, CommitSide, CommitTip, CommitReorg
    <3>2. running /\ reorg = NoHeader /\ rollback = NoRollback
      BY <3>1 DEF Acceptable, NoSuch
    <3> QED BY <3>1, <3>2 DEF NoRollback
  <2>2. /\ Best = bestCache /\ bestCache \in StoredHeader /\ HeldOK(bestCache)
        /\ bestCache.header \in Header /\ bestCache # NoHeader
    BY <2>1, RunningBest, NotARecord
  <2>3. NewStoredHeader(h) \in StoredHeader /\ HeldOK(NewStoredHeader(h))
        /\ NewStoredHeader(h).header = h /\ NewStoredHeader(h) # NoHeader
    BY <1>0, <2>1, NewHeaderLemma, NotARecord DEF NewStoredHeader
  <2>4. CASE CommitSide(h)
    <3>1. bestCache' = bestCache /\ reorg' = reorg
      BY <2>4 DEF CommitSide, Put
    <3> QED BY <1>2, <2>1, <2>2, <3>1
  <2>5. CASE CommitTip(h)
    <3>1. /\ bestCache' = NewStoredHeader(h) /\ reorg' = NoHeader
          /\ NewStoredHeader(h).totalWork > bestCache.totalWork
      BY <2>1, <2>2, <2>5 DEF CommitTip, Put, Heavier
    <3>2. OneChain'
      BY <2>1, <2>3, <3>1, LineageClosed DEF OneChain, Comparable
    <3> QED BY <1>0, <2>1, <2>3, <3>1, <3>2 DEF TInv
  <2>6. CASE CommitReorg(h)
    <3>1. /\ bestCache' = NewStoredHeader(h)
          /\ NewStoredHeader(h).totalWork > bestCache.totalWork
          /\ reorg' = GetCommonAncestor(NewStoredHeader(h), bestCache)
      BY <2>2, <2>6 DEF CommitReorg, Put, Heavier
    <3>2. reorg' # NoHeader => reorg'.header \in Lineage[h] /\ reorg'.header \in Header
      BY <1>0, <2>2, <2>3, <3>1, CommonAncestorLemma, LineageClosed
    <3>3. OneChain'
      BY <2>1, <2>3, <3>1, <3>2, LineageClosed DEF OneChain, Comparable
    <3> QED BY <1>0, <2>1, <2>3, <3>1, <3>3 DEF TInv
  <2> QED BY <1>3, <2>4, <2>5, <2>6 DEF CommitHeader
<1>4. CASE PutReorg
  BY <1>2, <1>4 DEF PutReorg, Put, NoSuch
<1>5. CASE Close
  BY <1>0, <1>5 DEF Close, CloseStore, TInv, OneChain, NoRollback
<1>6. ASSUME NEW t \in RollbackTimes, Rollback(t) PROVE TInv' /\ Moves
  <2>1. running /\ UNCHANGED <<bestCache, running, reorg>> /\ rollback'.sh = Best
    BY <1>6 DEF Rollback
  <2> QED BY <1>2, <2>1, RunningBest DEF TInv
<1>7. ASSUME NEW n \in RollbackHeights, RollbackToHeight(n) PROVE TInv' /\ Moves
  <2>1. running /\ UNCHANGED <<bestCache, running, reorg>> /\ rollback'.sh = Best
    BY <1>7 DEF RollbackToHeight
  <2> QED BY <1>2, <2>1, RunningBest DEF TInv
<1>8. CASE RollbackWalk
  <2> DEFINE sh == GetPreviousHeader(rollback.sh)
  <2>1. /\ running /\ UNCHANGED <<bestCache, running, reorg>> /\ bestCache # NoHeader
        /\ rollback'.sh = NoHeader \/ (sh # NoHeader /\ rollback'.sh = sh)
        /\ rollback.sh \in StoredHeader
    <3>1. rollback \in [step : {"walk", "delete", "put"}, sh : StoredHeader, arg : Nat]
      BY <1>0, <1>8 DEF RollbackWalk, IInv, StateOK, NoRollback
    <3> QED BY <1>8, <3>1 DEF RollbackWalk, NoRollback, NoSuch, TInv
  <2>2. CASE rollback'.sh = NoHeader
    BY <1>2, <2>1, <2>2
  <2>3. CASE sh # NoHeader /\ rollback'.sh = sh
    <3>1. sh \in StoredHeader /\ sh.header = Prev[rollback.sh.header] /\ sh.header \in Header
      BY <1>0, <2>1, <2>3, WalkLemma
    <3>2. /\ bestCache \in StoredHeader /\ HeldOK(bestCache)
          /\ reorg \in StoredHeader \cup {NoHeader}
      BY <1>0, <2>1, RunningBest DEF IInv, StateOK
    <3>3. Comparable(bestCache, rollback.sh)
          /\ (reorg # NoHeader => Comparable(reorg, rollback.sh))
      BY <2>1, <3>2, NotARecord DEF TInv, OneChain
    <3> HIDE DEF sh
    <3>4. Comparable(bestCache, sh) /\ (reorg # NoHeader => Comparable(reorg, sh))
      BY <2>1, <3>1, <3>2, <3>3, ComparableParent
    <3>5. Comparable(sh, sh)
      BY <3>1, LineageClosed DEF Comparable
    <3>6. \A p, q \in {bestCache, reorg} \ {NoHeader} : Comparable(p, q)
      BY DEF TInv, OneChain
    <3>7. OneChain'
      BY <2>1, <2>3, <3>4, <3>5, <3>6 DEF OneChain, Comparable
    <3>8. Moves
      BY <2>1, RunningBest, LineageClosed
    <3> QED BY <1>0, <2>1, <3>7, <3>8 DEF TInv
  <2> QED BY <2>1, <2>2, <2>3
<1>9. CASE RollbackDelete
  <2>1. running /\ UNCHANGED <<bestCache, running, reorg>> /\ rollback'.sh = rollback.sh
    BY <1>9 DEF RollbackDelete
  <2> QED BY <1>2, <2>1 DEF TInv
<1>10. CASE RollbackPut
  <2>1. rollback.sh \in StoredHeader
    BY <1>0, <1>10, RollbackLemma DEF RollbackPut, IInv
  <2>2. /\ running /\ running' = running /\ bestCache' = rollback.sh /\ reorg' = reorg
        /\ rollback'.sh = NoHeader
    BY <1>10 DEF RollbackPut, Put, NoRollback
  <2> QED BY <1>2, <2>1, <2>2, NotARecord
<1>11. CASE PutToDB \/ IgnoreReorg
  <2>1. running /\ UNCHANGED <<bestCache, running, rollback>> /\ reorg' \in {reorg, NoHeader}
    BY <1>11 DEF PutToDB, putToDB, IgnoreReorg
  <2> QED BY <1>2, <2>1 DEF TInv
<1>12. CASE UNCHANGED vars
  <2>1. UNCHANGED <<bestCache, running, reorg, rollback>>
    BY <1>12 DEF vars
  <2>2. TInv'
    BY <1>0, <2>1 DEF TInv, OneChain, Comparable
  <2>3. running => Moves
    BY <2>1, RunningBest, LineageClosed
  <2> QED BY <2>2, <2>3
<1> QED
  BY <1>1, <1>3, <1>4, <1>5, <1>6, <1>7, <1>8, <1>9, <1>10, <1>11, <1>12
  DEF Operation, RollbackNext, SyncNext

LEMMA TInvInit == Init => TInv
  BY IInvInit DEF Init, TInv, OneChain, NoRollback

(* While the process runs, no interleaving of commits, rollbacks and the   *)
(* handler's late PutReorg moves the tip to a branch that did not win on   *)
(* work.                                                                   *)
THEOREM TipMovesRight == Spec => TipMoves
<1>1. TInv /\ [Next]_<<vars, past>> => TInv'
  BY NextOperation, TipStep
<1>2. TInv /\ [Next]_<<vars, past>> =>
         [running /\ running' => \/ bestCache'.totalWork > bestCache.totalWork
                                 \/ bestCache'.header \in Lineage[bestCache.header]]_vars
  BY NextOperation, TipStep
<1> QED BY TInvInit, <1>1, <1>2, PTL DEF Spec, TipMoves

(* The header GetCommonAncestor returns to the wire service is the highest *)
(* the old and the new chain share, whatever has been evicted, rolled back *)
(* or lost by a restart before.                                            *)
THEOREM ReorgAtFork == Spec => ReorgPoint
<1> DEFINE Fork == NoSuch(reorg) /\ ~NoSuch(reorg') =>
          LET common == Lineage[bestCache.header] \cap Lineage[bestCache'.header]
          IN  /\ reorg'.header \in common
              /\ \A h \in common : ChainHeight[h] <= ChainHeight[reorg'.header]
<1>1. TInv /\ [Next]_<<vars, past>> => TInv'
  BY NextOperation, TipStep
<1>2. ASSUME TInv, [Operation]_vars PROVE Fork
  <2> SUFFICES ASSUME reorg = NoHeader, reorg' # NoHeader PROVE Fork
    BY DEF NoSuch
  <2>1. PICK h \in Header : CommitReorg(h)
    BY <1>2 DEF Operation, RollbackNext, SyncNext, NewBlockchain, CommitHeader, CommitSide, CommitTip,
                PutReorg, IgnoreReorg, PutToDB, Close, Rollback, RollbackToHeight, RollbackWalk,
                RollbackDelete, RollbackPut, vars, NoSuch
  <2>2. Acceptable(h) /\ running /\ IInv
    BY <1>2, <2>1 DEF CommitReorg, Acceptable, TInv
  <2>3. Best = bestCache /\ bestCache \in StoredHeader /\ HeldOK(bestCache)
    BY <1>2, <2>2, RunningBest
  <2>4. NewStoredHeader(h) \in StoredHeader /\ HeldOK(NewStoredHeader(h))
    BY <2>2, NewHeaderLemma
  <2>5. /\ bestCache' = NewStoredHeader(h)
        /\ reorg' = GetCommonAncestor(NewStoredHeader(h), bestCache)
    BY <2>1, <2>3 DEF CommitReorg, Put
  <2> QED BY <2>2, <2>3, <2>4, <2>5, CommonAncestorLemma
<1>3. TInv /\ [Next]_<<vars, past>> => [Fork]_vars
  BY <1>2, NextOperation
<1> HIDE DEF Fork
<1>4. Spec => [][Fork]_vars
  BY TInvInit, <1>1, <1>3, PTL DEF Spec
<1> QED BY <1>4 DEF ReorgPoint, Fork
=============================================================================
