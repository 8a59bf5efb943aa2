-------------------------- MODULE KeyManagerProofs --------------------------
(***************************************************************************)
(* Proofs about module KeyManager, for any window, any set of indexes      *)
(* without a key and any number of goroutines.                             *)
(***************************************************************************)
EXTENDS KeyManager, NatLemmas, FiniteSetTheorems, TLAPS

HasKey(purpose, index) == \E k \in DOMAIN rows[purpose] : rows[purpose][k].index = index

(* Only the goroutine that opens the wallet runs before it is open.        *)
Quiet ==
    /\ wallet = "open" => task[Main] = Idle
    /\ wallet # "open" => \A g \in Goroutine \ {Main} : task[g] = Idle
    /\ wallet = "down" => task[Main] = Idle

(* A key about to be put is the next one of the chain, or another          *)
(* goroutine has put it in the meantime.                                   *)
PutPending ==
    \A g \in Goroutine : task[g].at = "put" =>
        /\ task[g].todo[task[g].purpose] > 0
        /\ \/ task[g].index = FreshIndex(task[g].purpose)
           \/ HasKey(task[g].purpose, task[g].index)

(* NewAddress marks a key of the table, in one of the user's goroutines.   *)
MarkPending ==
    \A g \in Goroutine : task[g].at = "mark" =>
        g \in User /\ HasKey(task[g].purpose, task[g].index)

(* What NewAddress returned is used.                                       *)
ReturnedUsed ==
    \A n \in DOMAIN returned :
        /\ HasKey(returned[n][1], returned[n][2])
        /\ \A k \in DOMAIN rows[returned[n][1]] :
              rows[returned[n][1]][k].index = returned[n][2] => rows[returned[n][1]][k].used

(* While the wallet opens, the keys there are and those still to be added  *)
(* make up the window.                                                     *)
Filling ==
    wallet = "opening" /\ task[Main].at \in {"fill", "put"} =>
        \A p \in Purpose : LookaheadWindow(p) + task[Main].todo[p] >= Window

KInv ==
    /\ TypeOK /\ KeysInOrder
    /\ Quiet /\ PutPending /\ MarkPending /\ ReturnedUsed /\ Filling

(* The key a call is about to be given had not been returned when the call *)
(* began, whatever other calls have returned since.                        *)
AskedIsNew ==
    \A g \in Goroutine : task[g].at = "mark" =>
        /\ task[g].since <= Len(returned)
        /\ \A n \in 1..task[g].since :
              Address(returned[n]) # <<task[g].purpose, task[g].index>>

----------------------------------------------------------------------------
(* The next index that has a key exists: more indexes are looked at than   *)
(* there are invalid ones.                                                 *)
LEMMA NextIndexLemma ==
    ASSUME NEW n \in Nat
    PROVE  NextIndex(n) \in Nat /\ NextIndex(n) >= n
<1> DEFINE c == Cardinality(Invalid)
           I == n..(n + c)
           T == {i \in I : i \notin Invalid}
<1>1. IsFiniteSet(Invalid) /\ c \in Nat
  BY KeyAssumption, FS_CardinalityType
<1> HIDE DEF c
<1>2. IsFiniteSet(I) /\ Cardinality(I) = c + 1
  BY <1>1, FS_Interval
<1>3. ~(I \subseteq Invalid)
  <2> SUFFICES ASSUME I \in SUBSET Invalid PROVE FALSE
    OBVIOUS
  <2>1. Cardinality(I) <= Cardinality(Invalid)
    BY <1>1, FS_Subset
  <2> QED BY <1>1, <1>2, <2>1 DEF c
<1>4. T \in SUBSET Nat /\ \E m \in I : m \in T
  BY <1>1, <1>3
<1>5. PICK i \in T : \A j \in T : i <= j
  BY <1>4, LeastNat
<1>6. i \in n..(n + Cardinality(Invalid)) /\ i \notin Invalid /\ \A j \in n..(i - 1) : j \in Invalid
  BY <1>1, <1>5 DEF c
<1>7. NextIndex(n) \in n..(n + Cardinality(Invalid))
  BY <1>6 DEF NextIndex
<1> QED BY <1>1, <1>7 DEF c

LEMMA FreshIndexLemma ==
    ASSUME TypeOK, NEW p \in Purpose
    PROVE  FreshIndex(p) \in Nat
<1>1. rows[p] \in Seq(Row)
  BY DEF TypeOK
<1>2. CASE rows[p] = <<>>
  BY <1>2, NextIndexLemma DEF FreshIndex
<1>3. CASE rows[p] # <<>>
  <2>1. Last(rows[p]) \in Row
    BY <1>1, <1>3 DEF Last
  <2>2. Last(rows[p]).index + 1 \in Nat
    BY <2>1 DEF Row
  <2> QED BY <1>3, <2>2, NextIndexLemma DEF FreshIndex
<1> QED BY <1>2, <1>3

LEMMA WindowLemma ==
    ASSUME TypeOK, NEW p \in Purpose
    PROVE  LookaheadWindow(p) \in Nat
<1> DEFINE n == Len(rows[p])
           S == {k \in 1..n : \A j \in k..n : ~rows[p][j].used}
<1>1. n \in Nat
  BY DEF TypeOK
<1> HIDE DEF n
<1>2. IsFiniteSet(1..n)
  BY <1>1, FS_Interval
<1>3. IsFiniteSet(S)
  BY <1>2, FS_Subset
<1>4. Cardinality(S) \in Nat
  BY <1>3, FS_CardinalityType
<1> QED BY <1>4 DEF LookaheadWindow, n

(* What the fields of a task are.                                          *)
LEMMA TaskLemma ==
    ASSUME TypeOK, NEW g \in Goroutine
    PROVE  /\ task[g].at \in {"idle", "windows", "fill", "put", "mark"}
           /\ task[g].at = "fill" => task[g].todo \in Todo
           /\ task[g].at = "put" => /\ task[g].todo \in Todo
                                    /\ task[g].purpose \in Purpose /\ task[g].index \in Nat
           /\ task[g].at = "mark" => /\ task[g].purpose \in Purpose /\ task[g].index \in Nat
                                     /\ task[g].since \in Nat
<1>1. task[g] \in Task
  BY DEF TypeOK
<1> QED BY <1>1 DEF Task

(* Marking a key changes no index.                                         *)
LEMMA MarkLemma ==
    ASSUME TypeOK, NEW q \in Purpose, NEW index \in Nat, MarkKeyAsUsed(q, index)
    PROVE  /\ rows' \in [Purpose -> Seq(Row)]
           /\ \A p \in Purpose : DOMAIN rows'[p] = DOMAIN rows[p] /\ Len(rows'[p]) = Len(rows[p])
           /\ \A p \in Purpose : \A k \in DOMAIN rows[p] :
                 /\ rows'[p][k].index = rows[p][k].index
                 /\ rows'[p][k].used <=> rows[p][k].used \/ (p = q /\ rows[p][k].index = index)
<1> DEFINE s == rows[q]
           t == [k \in DOMAIN s |-> IF s[k].index = index THEN [s[k] EXCEPT !.used = TRUE] ELSE s[k]]
<1>1. rows' = [rows EXCEPT ![q] = t] /\ s \in Seq(Row)
  BY DEF MarkKeyAsUsed, TypeOK
<1>2. \A k \in DOMAIN s : s[k] \in Row
  BY <1>1
<1>3. \A k \in DOMAIN s :
         /\ t[k] \in Row
         /\ t[k].index = s[k].index
         /\ t[k].used <=> s[k].used \/ s[k].index = index
  BY <1>2 DEF Row
<1>4. DOMAIN t = DOMAIN s /\ DOMAIN s = 1..Len(s) /\ Len(s) \in Nat
  BY <1>1
<1> HIDE DEF t, s
<1>5. t \in [1..Len(s) -> Row]
  BY <1>3, <1>4 DEF t
<1>6. t \in Seq(Row) /\ Len(t) = Len(s)
  BY <1>4, <1>5
<1>7. \A p \in Purpose \ {q} : rows'[p] = rows[p]
  BY <1>1 DEF TypeOK
<1>8. rows'[q] = t
  BY <1>1 DEF TypeOK
<1>9. rows' \in [Purpose -> Seq(Row)]
  BY <1>1, <1>6 DEF TypeOK
<1> QED BY <1>3, <1>4, <1>6, <1>7, <1>8, <1>9 DEF s

(* Appending a key.                                                        *)
LEMMA AppendLemma ==
    ASSUME TypeOK, NEW q \in Purpose, NEW r \in Row,
           rows' = [rows EXCEPT ![q] = Append(rows[q], r)]
    PROVE  /\ rows' \in [Purpose -> Seq(Row)]
           /\ \A p \in Purpose \ {q} : rows'[p] = rows[p]
           /\ DOMAIN rows[q] = 1..Len(rows[q]) /\ Len(rows[q]) \in Nat
           /\ DOMAIN rows'[q] = 1..(Len(rows[q]) + 1) /\ Len(rows'[q]) = Len(rows[q]) + 1
           /\ \A k \in 1..Len(rows[q]) : rows'[q][k] = rows[q][k]
           /\ rows'[q][Len(rows[q]) + 1] = r
<1>1. rows[q] \in Seq(Row) /\ rows'[q] = Append(rows[q], r)
  BY DEF TypeOK
<1>2. \A p \in Purpose \ {q} : rows'[p] = rows[p]
  BY DEF TypeOK
<1>3. rows' \in [Purpose -> Seq(Row)]
  BY <1>1 DEF TypeOK
<1> QED BY <1>1, <1>2, <1>3

(* Steps that leave the indexes alone keep the order of the keys, the next *)
(* index and the keys there are.                                           *)
LEMMA SameIndexes ==
    ASSUME TypeOK, rows' \in [Purpose -> Seq(Row)],
           \A p \in Purpose : DOMAIN rows'[p] = DOMAIN rows[p] /\ Len(rows'[p]) = Len(rows[p]),
           \A p \in Purpose : \A k \in DOMAIN rows[p] : rows'[p][k].index = rows[p][k].index
    PROVE  /\ KeysInOrder => KeysInOrder'
           /\ \A p \in Purpose : FreshIndex(p)' = FreshIndex(p)
           /\ \A p \in Purpose : \A i : HasKey(p, i)' <=> HasKey(p, i)
<1>1. \A p \in Purpose : /\ rows[p] \in Seq(Row) /\ rows'[p] \in Seq(Row)
                         /\ DOMAIN rows[p] = 1..Len(rows[p]) /\ Len(rows[p]) \in Nat
  BY DEF TypeOK
<1>2. ASSUME NEW p \in Purpose PROVE FreshIndex(p)' = FreshIndex(p)
  <2>1. CASE rows[p] = <<>>
    <3>1. rows'[p] = <<>>
      BY <1>1, <2>1
    <3> QED BY <2>1, <3>1 DEF FreshIndex
  <2>2. CASE rows[p] # <<>>
    <3>1. rows'[p] # <<>> /\ Last(rows'[p]).index = Last(rows[p]).index
      BY <1>1, <2>2 DEF Last
    <3> QED BY <2>2, <3>1 DEF FreshIndex
  <2> QED BY <2>1, <2>2
<1>3. ASSUME KeysInOrder PROVE KeysInOrder'
  <2> SUFFICES ASSUME NEW p \in Purpose, NEW k \in DOMAIN rows[p]
               PROVE  rows'[p][k].index =
                         NextIndex(IF k = 1 THEN 0 ELSE rows'[p][k-1].index + 1)
    BY DEF KeysInOrder
  <2>1. rows[p][k].index = NextIndex(IF k = 1 THEN 0 ELSE rows[p][k-1].index + 1)
    BY <1>3 DEF KeysInOrder
  <2>2. k # 1 => k - 1 \in DOMAIN rows[p]
    BY <1>1
  <2> QED BY <2>1, <2>2
<1>4. \A p \in Purpose : \A i : HasKey(p, i)' <=> HasKey(p, i)
  BY DEF HasKey
<1> QED BY <1>2, <1>3, <1>4

----------------------------------------------------------------------------
LEMMA KInvInit == Init => KInv
<1> SUFFICES ASSUME Init PROVE KInv
  OBVIOUS
<1>1. \A g \in Goroutine : task[g] = Idle /\ task[g].at = "idle"
  BY DEF Init, Idle
<1>2. wallet = "down" /\ returned = <<>> /\ \A p \in Purpose : rows[p] = <<>>
  BY DEF Init
<1>3. TypeOK
  <2>1. task \in [Goroutine -> Task]
    BY DEF Init, Idle, Task
  <2>2. rows \in [Purpose -> Seq(Row)]
    BY DEF Init
  <2> QED BY <2>1, <2>2 DEF Init, TypeOK
<1>4. KeysInOrder
  BY <1>2 DEF KeysInOrder
<1>5. Quiet /\ PutPending /\ MarkPending
  BY <1>1, <1>2 DEF Quiet, PutPending, MarkPending, Goroutine
<1>6. ReturnedUsed /\ Filling
  BY <1>2 DEF ReturnedUsed, Filling
<1> QED BY <1>3, <1>4, <1>5, <1>6 DEF KInv

(* A step that only changes what goroutines do: what has to be shown of    *)
(* the new tasks.                                                          *)
LEMMA TaskStep ==
    ASSUME KInv, UNCHANGED <<rows, returned>>, imported' \subseteq Purpose \X Nat,
           task' \in [Goroutine -> Task], wallet' \in {"down", "opening", "open"},
           Quiet',
           \A g \in Goroutine : task'[g] # task[g] /\ task'[g].at = "put" =>
               /\ task'[g].todo[task'[g].purpose] > 0
               /\ task'[g].index = FreshIndex(task'[g].purpose),
           \A g \in Goroutine : task'[g] # task[g] /\ task'[g].at = "mark" =>
               g \in User /\ HasKey(task'[g].purpose, task'[g].index),
           wallet' = "opening" /\ task'[Main].at \in {"fill", "put"} =>
               \A p \in Purpose : LookaheadWindow(p) + task'[Main].todo[p] >= Window
    PROVE  KInv'
<1>1. TypeOK'
  BY DEF KInv, TypeOK
<1>2. KeysInOrder' /\ ReturnedUsed'
  BY DEF KInv, KeysInOrder, ReturnedUsed, HasKey
<1>3. Filling'
  BY DEF Filling, LookaheadWindow
<1>4. PutPending'
  <2> SUFFICES ASSUME NEW g \in Goroutine, task'[g].at = "put"
               PROVE  /\ task'[g].todo[task'[g].purpose] > 0
                      /\ \/ task'[g].index = FreshIndex(task'[g].purpose)
                         \/ HasKey(task'[g].purpose, task'[g].index)
    BY DEF PutPending, FreshIndex, HasKey
  <2> QED BY DEF KInv, PutPending
<1>5. MarkPending'
  <2> SUFFICES ASSUME NEW g \in Goroutine, task'[g].at = "mark"
               PROVE  g \in User /\ HasKey(task'[g].purpose, task'[g].index)
    BY DEF MarkPending, HasKey
  <2> QED BY DEF KInv, MarkPending
<1> QED BY <1>1, <1>2, <1>3, <1>4, <1>5 DEF KInv

LEMMA OpenStep ==
    ASSUME KInv, NewKeyManager
    PROVE  KInv'
<1> DEFINE new == [at |-> "windows"]
<1>1. new \in Task /\ new.at = "windows"
  BY DEF Task
<1> HIDE DEF new
<1>2. task' = [task EXCEPT ![Main] = new] /\ wallet = "down" /\ wallet' = "opening"
      /\ UNCHANGED <<rows, imported, returned>>
  BY DEF NewKeyManager, Becomes, new
<1>3. task \in [Goroutine -> Task] /\ Main \in Goroutine
  BY DEF KInv, TypeOK, Goroutine
<1>4. /\ task' \in [Goroutine -> Task]
      /\ \A g \in Goroutine : task'[g] = IF g = Main THEN new ELSE task[g]
  BY <1>1, <1>2, <1>3
<1>5. Quiet'
  BY <1>2, <1>4 DEF KInv, Quiet
<1>6. imported' \subseteq Purpose \X Nat
  BY <1>2 DEF KInv, TypeOK
<1> QED BY <1>1, <1>2, <1>3, <1>4, <1>5, <1>6, TaskStep

LEMMA WindowsStep ==
    ASSUME KInv, NEW g \in Goroutine, GetLookaheadWindows(g)
    PROVE  KInv'
<1> DEFINE todo == [p \in Purpose |-> IF LookaheadWindow(p) < Window
                                      THEN Window - LookaheadWindow(p) ELSE 0]
           new == [at |-> "fill", todo |-> todo]
<1>1. TypeOK /\ task \in [Goroutine -> Task] /\ Main \in Goroutine
  BY DEF KInv, TypeOK, Goroutine
<1>2. \A p \in Purpose : LookaheadWindow(p) \in Nat
  BY <1>1, WindowLemma
<1>3. todo \in Todo /\ \A p \in Purpose : LookaheadWindow(p) + todo[p] >= Window
  BY <1>2, KeyAssumption DEF Todo
<1>4. task' = [task EXCEPT ![g] = new] /\ task[g].at = "windows"
      /\ UNCHANGED <<rows, imported, wallet, returned>>
  BY DEF GetLookaheadWindows, Becomes
<1> HIDE DEF todo
<1>5. new \in Task /\ new.at = "fill" /\ new.todo = todo
  BY <1>3 DEF Task
<1> HIDE DEF new
<1>6. /\ task' \in [Goroutine -> Task]
      /\ \A h \in Goroutine : task'[h] = IF h = g THEN new ELSE task[h]
  BY <1>1, <1>4, <1>5
<1>7. task[g] # Idle
  BY <1>4 DEF Idle
<1>8. Quiet'
  BY <1>1, <1>4, <1>6, <1>7 DEF KInv, Quiet
<1>9. imported' \subseteq Purpose \X Nat /\ wallet' \in {"down", "opening", "open"}
  BY <1>4 DEF KInv, TypeOK
<1>10. wallet' = "opening" /\ task'[Main].at \in {"fill", "put"} =>
          \A p \in Purpose : LookaheadWindow(p) + task'[Main].todo[p] >= Window
  BY <1>1, <1>3, <1>4, <1>5, <1>6 DEF KInv, Filling
<1> QED BY <1>4, <1>5, <1>6, <1>8, <1>9, <1>10, TaskStep

LEMMA LastIndexStep ==
    ASSUME KInv, NEW g \in Goroutine, NEW q \in Purpose, GetLastKeyIndex(g, q)
    PROVE  KInv'
<1> DEFINE new == [at |-> "put", todo |-> task[g].todo, purpose |-> q, index |-> FreshIndex(q)]
<1>1. TypeOK /\ task \in [Goroutine -> Task] /\ Main \in Goroutine
  BY DEF KInv, TypeOK, Goroutine
<1>2. task' = [task EXCEPT ![g] = new] /\ task[g].at = "fill" /\ task[g].todo[q] > 0
      /\ UNCHANGED <<rows, imported, wallet, returned>>
  BY DEF GetLastKeyIndex, Becomes
<1>3. task[g].todo \in Todo /\ FreshIndex(q) \in Nat
  BY <1>1, <1>2, TaskLemma, FreshIndexLemma
<1>4. new \in Task /\ new.at = "put" /\ new.todo = task[g].todo
      /\ new.purpose = q /\ new.index = FreshIndex(q)
  BY <1>3 DEF Task
<1> HIDE DEF new
<1>5. /\ task' \in [Goroutine -> Task]
      /\ \A h \in Goroutine : task'[h] = IF h = g THEN new ELSE task[h]
  BY <1>1, <1>2, <1>4
<1>6. task[g] # Idle
  BY <1>2 DEF Idle
<1>7. Quiet'
  BY <1>1, <1>2, <1>5, <1>6 DEF KInv, Quiet
<1>8. imported' \subseteq Purpose \X Nat /\ wallet' \in {"down", "opening", "open"}
  BY <1>2 DEF KInv, TypeOK
<1>9. wallet' = "opening" /\ task'[Main].at \in {"fill", "put"} =>
         \A p \in Purpose : LookaheadWindow(p) + task'[Main].todo[p] >= Window
  BY <1>1, <1>2, <1>4, <1>5 DEF KInv, Filling
<1> QED BY <1>2, <1>4, <1>5, <1>7, <1>8, <1>9, TaskStep

LEMMA DoneStep ==
    ASSUME KInv, NEW g \in Goroutine, LookaheadDone(g)
    PROVE  KInv'
<1>1. TypeOK /\ task \in [Goroutine -> Task] /\ Main \in Goroutine
  BY DEF KInv, TypeOK, Goroutine
<1>2. task' = [task EXCEPT ![g] = Idle] /\ task[g].at = "fill"
      /\ wallet' = (IF g = Main THEN "open" ELSE wallet)
      /\ UNCHANGED <<rows, imported, returned>>
  BY DEF LookaheadDone, Becomes
<1>3. Idle \in Task /\ Idle.at = "idle" /\ task[g] # Idle
  BY <1>2 DEF Task, Idle
<1>4. /\ task' \in [Goroutine -> Task]
      /\ \A h \in Goroutine : task'[h] = IF h = g THEN Idle ELSE task[h]
  BY <1>1, <1>2, <1>3
<1>5. imported' \subseteq Purpose \X Nat /\ wallet' \in {"down", "opening", "open"}
  BY <1>2 DEF KInv, TypeOK
<1>6. Quiet'
  BY <1>1, <1>2, <1>3, <1>4 DEF KInv, Quiet
<1>7. wallet' = "opening" /\ task'[Main].at \in {"fill", "put"} =>
         \A p \in Purpose : LookaheadWindow(p) + task'[Main].todo[p] >= Window
  BY <1>1, <1>2, <1>3, <1>4 DEF KInv, Filling
<1> QED BY <1>2, <1>3, <1>4, <1>5, <1>6, <1>7, TaskStep

LEMMA StopStep ==
    ASSUME KInv, Stop
    PROVE  KInv'
<1>1. Idle \in Task /\ Idle.at = "idle" /\ Main \in Goroutine
  BY DEF Task, Idle, Goroutine
<1>2. \A g \in Goroutine : task'[g] = Idle
  BY DEF Stop
<1>3. task' \in [Goroutine -> Task] /\ wallet' = "down" /\ UNCHANGED <<rows, imported, returned>>
  BY <1>1 DEF Stop
<1>4. Quiet'
  BY <1>1, <1>2, <1>3 DEF Quiet
<1>5. imported' \subseteq Purpose \X Nat
  BY <1>3 DEF KInv, TypeOK
<1> QED BY <1>1, <1>2, <1>3, <1>4, <1>5, TaskStep

LEMMA ImportStep ==
    ASSUME KInv, NEW k \in Importable, ImportKey(k[1], k[2])
    PROVE  KInv'
<1>1. imported' \subseteq Purpose \X Nat
  BY KeyAssumption DEF ImportKey, KInv, TypeOK
<1>2. UNCHANGED <<rows, task, wallet, returned>>
  BY DEF ImportKey
<1>3. task' \in [Goroutine -> Task] /\ wallet' \in {"down", "opening", "open"} /\ Quiet'
  BY <1>2 DEF KInv, TypeOK, Quiet
<1> QED BY <1>1, <1>2, <1>3, TaskStep DEF KInv, Filling

LEMMA AskStep ==
    ASSUME KInv, NEW g \in User, NEW q \in Purpose, NewAddress(g, q)
    PROVE  KInv'
<1>1. CASE Second(q) = {}
  BY <1>1, StopStep DEF NewAddress
<1>2. CASE Second(q) # {}
  <2>1. PICK k \in Second(q) :
           task' = [task EXCEPT ![g] = [at |-> "mark", purpose |-> q, index |-> rows[q][k].index,
                                        since |-> Len(returned)]]
    BY <1>2 DEF NewAddress, Becomes
  <2>2. wallet = "open" /\ task[g] = Idle /\ UNCHANGED <<rows, imported, wallet, returned>>
    BY <1>2 DEF NewAddress
  <2> DEFINE new == [at |-> "mark", purpose |-> q, index |-> rows[q][k].index,
                     since |-> Len(returned)]
  <2>3. k \in DOMAIN rows[q]
    BY DEF Second, GetUnused
  <2>4. rows[q][k].index \in Nat
    <3>1. rows[q] \in Seq(Row)
      BY DEF KInv, TypeOK
    <3>2. rows[q][k] \in Row
      BY <2>3, <3>1
    <3> QED BY <3>2 DEF Row
  <2>5. new \in Task /\ new.at = "mark" /\ new.purpose = q /\ new.index = rows[q][k].index
    <3>1. Len(returned) \in Nat
      BY DEF KInv, TypeOK
    <3> QED BY <2>4, <3>1 DEF Task
  <2> HIDE DEF new
  <2>6. task \in [Goroutine -> Task] /\ Main \in Goroutine /\ g \in Goroutine /\ g # Main
    BY KeyAssumption DEF KInv, TypeOK, Goroutine
  <2>7. /\ task' \in [Goroutine -> Task]
        /\ \A h \in Goroutine : task'[h] = IF h = g THEN new ELSE task[h]
    BY <2>1, <2>5, <2>6 DEF new
  <2>8. Quiet'
    BY <2>2, <2>6, <2>7 DEF KInv, Quiet
  <2>9. imported' \subseteq Purpose \X Nat /\ wallet' \in {"down", "opening", "open"}
    BY <2>2 DEF KInv, TypeOK
  <2>10. HasKey(new.purpose, new.index)
    BY <2>3, <2>5 DEF HasKey
  <2> QED BY <2>2, <2>5, <2>6, <2>7, <2>8, <2>9, <2>10, TaskStep
<1> QED BY <1>1, <1>2

(* Put.  A key that is not in the table yet is the next of the chain, so   *)
(* the keys stay in order.                                                 *)
LEMMA PutStep ==
    ASSUME KInv, NEW g \in Goroutine, Put(g)
    PROVE  KInv'
<1> SUFFICES ASSUME NEW q, NEW i, q = task[g].purpose, i = task[g].index
             PROVE  KInv'
  OBVIOUS
<1> DEFINE r == [index |-> i, used |-> FALSE]
<1>1. TypeOK /\ task \in [Goroutine -> Task] /\ Main \in Goroutine
  BY DEF KInv, TypeOK, Goroutine
<1>2. task[g].at = "put" /\ task[g] # Idle /\ UNCHANGED <<imported, returned>>
  BY DEF Put, Idle
<1>3. task[g].todo \in Todo /\ q \in Purpose /\ i \in Nat /\ task[g].todo[q] > 0
  BY <1>1, <1>2, TaskLemma DEF KInv, PutPending
<1>4. Idle \in Task /\ Idle.at = "idle"
  BY DEF Task, Idle
<1>5. imported' \subseteq Purpose \X Nat
  BY <1>2 DEF KInv, TypeOK
<1>6. CASE Taken(q, i)
  <2>1. task' = [task EXCEPT ![g] = Idle] /\ wallet' = (IF g = Main THEN "down" ELSE wallet)
        /\ UNCHANGED rows
    BY <1>6 DEF Put, Becomes
  <2>2. /\ task' \in [Goroutine -> Task]
        /\ \A h \in Goroutine : task'[h] = IF h = g THEN Idle ELSE task[h]
    BY <1>1, <1>4, <2>1
  <2>3. wallet' \in {"down", "opening", "open"}
    BY <2>1 DEF KInv, TypeOK
  <2>4. Quiet'
    BY <1>1, <1>2, <2>1, <2>2 DEF KInv, Quiet
  <2>5. wallet' = "opening" /\ task'[Main].at \in {"fill", "put"} =>
           \A p \in Purpose : LookaheadWindow(p) + task'[Main].todo[p] >= Window
    BY <1>1, <1>4, <2>1, <2>2 DEF KInv, Filling
  <2> QED BY <1>2, <1>4, <1>5, <2>1, <2>2, <2>3, <2>4, <2>5, TaskStep
<1>7. CASE ~Taken(q, i)
  <2> DEFINE todo == [task[g].todo EXCEPT ![q] = @ - 1]
             new  == [at |-> "fill", todo |-> todo]
             n    == Len(rows[q])
  <2>1. task' = [task EXCEPT ![g] = new] /\ wallet' = wallet
        /\ rows' = [rows EXCEPT ![q] = Append(rows[q], r)]
    BY <1>7 DEF Put, Becomes
  <2>2. todo \in Todo /\ todo[q] = task[g].todo[q] - 1
        /\ \A p \in Purpose \ {q} : todo[p] = task[g].todo[p]
    BY <1>3, KeyAssumption DEF Todo
  <2> HIDE DEF todo
  <2>3. new \in Task /\ new.at = "fill" /\ new.todo = todo
    BY <2>2 DEF Task
  <2> HIDE DEF new
  <2>4. /\ task' \in [Goroutine -> Task]
        /\ \A h \in Goroutine : task'[h] = IF h = g THEN new ELSE task[h]
    BY <1>1, <2>1, <2>3
  <2>5. r \in Row /\ r.index = i /\ r.used = FALSE
    BY <1>3 DEF Row
  <2> HIDE DEF r, n
  <2>6. /\ rows' \in [Purpose -> Seq(Row)]
        /\ \A p \in Purpose \ {q} : rows'[p] = rows[p]
        /\ DOMAIN rows[q] = 1..n /\ n \in Nat
        /\ DOMAIN rows'[q] = 1..(n + 1) /\ Len(rows'[q]) = n + 1
        /\ \A k \in 1..n : rows'[q][k] = rows[q][k]
        /\ rows'[q][n + 1] = r
    <3>1. TypeOK /\ q \in Purpose /\ r \in Row /\ rows' = [rows EXCEPT ![q] = Append(rows[q], r)]
      BY <1>1, <1>3, <2>1, <2>5
    <3> QED BY ONLY <3>1, AppendLemma, Zenon DEF n
  <2>7. ~HasKey(q, i)
    BY <1>7 DEF Taken, HasKey, ToSet
  <2>8. i = FreshIndex(q)
    BY <1>2, <2>7 DEF KInv, PutPending
  <2>9. TypeOK'
    BY <1>2, <2>1, <2>4, <2>6 DEF KInv, TypeOK
  <2>10. FreshIndex(q) = NextIndex(IF n = 0 THEN 0 ELSE rows[q][n].index + 1)
    <3>1. rows[q] \in Seq(Row)
      BY <1>1, <1>3 DEF TypeOK
    <3>2. rows[q] = <<>> <=> n = 0
      BY <3>1 DEF n
    <3> QED BY <3>2 DEF FreshIndex, Last, n
  <2>11. KeysInOrder'
    <3> SUFFICES ASSUME NEW p \in Purpose, NEW k \in DOMAIN rows'[p]
                 PROVE  rows'[p][k].index =
                           NextIndex(IF k = 1 THEN 0 ELSE rows'[p][k-1].index + 1)
      BY DEF KeysInOrder
    <3>1. CASE p # q
      <4>1. rows'[p] = rows[p]
        BY <2>6, <3>1
      <4> QED BY <4>1 DEF KInv, KeysInOrder
    <3>2. CASE p = q /\ k \in 1..n
      <4>1. rows[q][k].index = NextIndex(IF k = 1 THEN 0 ELSE rows[q][k-1].index + 1)
        BY <2>6, <3>2 DEF KInv, KeysInOrder
      <4>2. k # 1 => k - 1 \in 1..n
        BY <2>6, <3>2
      <4> QED BY <2>6, <3>2, <4>1, <4>2
    <3>3. CASE p = q /\ k = n + 1
      <4>1. rows'[q][k].index = NextIndex(IF n = 0 THEN 0 ELSE rows[q][n].index + 1)
        BY <2>5, <2>6, <2>8, <2>10, <3>3
      <4>2. CASE n = 0
        BY <3>3, <4>1, <4>2
      <4>3. CASE n # 0
        <5>1. k # 1 /\ k - 1 = n /\ n \in 1..n
          BY <2>6, <3>3, <4>3
        <5> QED BY <2>6, <3>3, <4>1, <4>3, <5>1
      <4> QED BY <4>2, <4>3
    <3>4. k \in 1..n \/ k = n + 1 \/ p # q
      BY <2>6
    <3> QED BY <3>1, <3>2, <3>3, <3>4
  <2>12. /\ \A p \in Purpose \ {q} : FreshIndex(p)' = FreshIndex(p)
         /\ \A p \in Purpose : \A j : HasKey(p, j) => HasKey(p, j)'
         /\ HasKey(q, i)'
    <3>1. \A p \in Purpose \ {q} : FreshIndex(p)' = FreshIndex(p)
      BY <2>6 DEF FreshIndex
    <3>2. ASSUME NEW p \in Purpose, NEW j, HasKey(p, j) PROVE HasKey(p, j)'
      <4>1. CASE p # q
        BY <2>6, <3>2, <4>1 DEF HasKey
      <4>2. CASE p = q
        <5>1. PICK k \in 1..n : rows[q][k].index = j
          BY <2>6, <3>2, <4>2 DEF HasKey
        <5>2. k \in DOMAIN rows'[q] /\ rows'[q][k].index = j
          BY <2>6, <5>1
        <5> QED BY <4>2, <5>2 DEF HasKey
      <4> QED BY <4>1, <4>2
    <3>3. HasKey(q, i)'
      <4>1. n + 1 \in DOMAIN rows'[q] /\ rows'[q][n + 1].index = i
        BY <2>5, <2>6
      <4> QED BY <4>1 DEF HasKey
    <3> QED BY <3>1, <3>2, <3>3
  (* Who wanted to put the same key finds it in the table now.             *)
  <2>13. PutPending'
    <3> SUFFICES ASSUME NEW h \in Goroutine, task'[h].at = "put", NEW w, NEW x,
                        w = task'[h].purpose, x = task'[h].index
                 PROVE  task'[h].todo[w] > 0 /\ (x = FreshIndex(w)' \/ HasKey(w, x)')
      BY DEF PutPending
    <3>1. task'[h] = task[h]
      BY <2>3, <2>4
    <3>2. w \in Purpose
      BY <1>1, <3>1, TaskLemma
    <3>3. task[h].todo[w] > 0 /\ (x = FreshIndex(w) \/ HasKey(w, x))
      BY <3>1 DEF KInv, PutPending
    <3>4. x = FreshIndex(w)' \/ HasKey(w, x)'
      BY <2>8, <2>12, <3>2, <3>3
    <3> QED BY <3>1, <3>3, <3>4
  <2>14. MarkPending'
    <3> SUFFICES ASSUME NEW h \in Goroutine, task'[h].at = "mark", NEW w, NEW x,
                        w = task'[h].purpose, x = task'[h].index
                 PROVE  h \in User /\ HasKey(w, x)'
      BY DEF MarkPending
    <3>1. task'[h] = task[h]
      BY <2>3, <2>4
    <3>2. w \in Purpose
      BY <1>1, <3>1, TaskLemma
    <3> QED BY <2>12, <3>1, <3>2 DEF KInv, MarkPending
  (* A new key is not one that was returned: those are in the table.       *)
  <2>15. ReturnedUsed'
    <3> SUFFICES ASSUME NEW m \in DOMAIN returned, NEW p, NEW j,
                        p = returned[m][1], j = returned[m][2]
                 PROVE  /\ HasKey(p, j)'
                        /\ \A k \in DOMAIN rows'[p] : rows'[p][k].index = j => rows'[p][k].used
      BY <1>2 DEF ReturnedUsed, HasKey
    <3>1. p \in Purpose
      BY <1>1 DEF TypeOK
    <3>2. HasKey(p, j) /\ \A k \in DOMAIN rows[p] : rows[p][k].index = j => rows[p][k].used
      BY DEF KInv, ReturnedUsed
    <3>3. CASE p # q
      BY <2>6, <2>12, <3>1, <3>2, <3>3
    <3>4. CASE p = q
      <4>1. j # i
        BY <2>7, <3>2, <3>4
      <4>2. \A k \in DOMAIN rows'[q] : k \in 1..n \/ rows'[q][k].index = i
        BY <2>5, <2>6
      <4>3. \A k \in 1..n : k \in DOMAIN rows[q] /\ rows'[q][k] = rows[q][k]
        BY <2>6
      <4> QED BY <2>12, <3>1, <3>2, <3>4, <4>1, <4>2, <4>3
    <3> QED BY <3>3, <3>4
  <2>16. Quiet'
    BY <1>1, <1>2, <2>1, <2>4 DEF KInv, Quiet
  <2>17. LookaheadWindow(q)' = LookaheadWindow(q) + 1
    <3> DEFINE A == {k \in 1..n : \A j \in k..n : ~rows[q][j].used}
               B == {k \in 1..(n + 1) : \A j \in k..(n + 1) : ~rows'[q][j].used}
    <3>1. B = A \cup {n + 1}
      <4>1. ASSUME NEW k \in 1..n
            PROVE  (\A j \in k..n : ~rows[q][j].used) <=> (\A j \in k..(n+1) : ~rows'[q][j].used)
        <5>1. \A j \in k..n : j \in 1..n /\ rows'[q][j] = rows[q][j]
          BY <2>6
        <5>2. \A j \in k..(n + 1) : j \in k..n \/ j = n + 1
          BY <2>6
        <5>3. \A j \in k..n : j \in k..(n + 1)
          BY <2>6
        <5>4. ~rows'[q][n + 1].used
          BY <2>5, <2>6
        <5> QED BY <5>1, <5>2, <5>3, <5>4
      <4>2. ~rows'[q][n + 1].used
        BY <2>5, <2>6
      <4>3. n + 1 \in B
        <5>1. \A j \in (n + 1)..(n + 1) : j = n + 1
          BY <2>6
        <5> QED BY <2>6, <4>2, <5>1
      <4>4. \A k \in 1..(n + 1) : k \in 1..n \/ k = n + 1
        BY <2>6
      <4>5. \A k \in 1..n : k \in 1..(n + 1)
        BY <2>6
      <4> QED BY <4>1, <4>3, <4>4, <4>5
    <3>2. n + 1 \notin A /\ IsFiniteSet(A)
      <4>1. IsFiniteSet(1..n)
        BY <2>6, FS_Interval
      <4>2. IsFiniteSet(A)
        BY <4>1, FS_Subset
      <4> QED BY <2>6, <4>2
    <3>3. Cardinality(B) = Cardinality(A) + 1
      <4> HIDE DEF A, B
      <4> QED BY <3>1, <3>2, FS_AddElement
    <3>4. LookaheadWindow(q) = Cardinality(A)
      BY DEF LookaheadWindow, n
    <3>5. LookaheadWindow(q)' = Cardinality(B)
      <4>1. Len(rows'[q]) = n + 1
        BY <2>6
      <4>2. LookaheadWindow(q)' = Cardinality({k \in 1..Len(rows'[q]) :
                                     \A j \in k..Len(rows'[q]) : ~rows'[q][j].used})
        BY DEF LookaheadWindow
      <4> QED BY <4>1, <4>2
    <3> QED BY <3>3, <3>4, <3>5
  <2>18. \A p \in Purpose \ {q} : LookaheadWindow(p)' = LookaheadWindow(p)
    BY <2>6 DEF LookaheadWindow
  <2>19. Filling'
    <3> SUFFICES ASSUME wallet' = "opening", task'[Main].at \in {"fill", "put"},
                        NEW p \in Purpose
                 PROVE  LookaheadWindow(p)' + task'[Main].todo[p] >= Window
      BY DEF Filling
    <3>1. g = Main
      BY <1>2, <2>1 DEF KInv, Quiet
    <3>2. LookaheadWindow(p) + task[g].todo[p] >= Window
      BY <1>2, <2>1, <3>1 DEF KInv, Filling
    <3>3. LookaheadWindow(p) \in Nat /\ task[g].todo[p] \in Nat /\ Window \in Nat
      BY <1>1, <1>3, WindowLemma, KeyAssumption DEF Todo
    <3>4. task'[Main].todo = todo
      BY <1>1, <2>3, <2>4, <3>1
    <3>5. CASE p = q
      BY <2>2, <2>17, <3>2, <3>3, <3>4, <3>5
    <3>6. CASE p # q
      BY <2>2, <2>18, <3>2, <3>3, <3>4, <3>6
    <3> QED BY <3>5, <3>6
  <2> QED BY <2>9, <2>11, <2>13, <2>14, <2>15, <2>16, <2>19 DEF KInv
<1> QED BY <1>6, <1>7

(* A step that marks a key in the open wallet and ends the marking task.   *)
LEMMA MarkStep ==
    ASSUME KInv, NEW g \in Goroutine, NEW q \in Purpose, NEW i \in Nat, MarkKeyAsUsed(q, i),
           wallet = "open", g # Main, UNCHANGED <<imported, wallet>>,
           NEW new \in Task, new.at \in {"idle", "windows"}, task' = [task EXCEPT ![g] = new],
           NEW e \in Purpose \X Nat \X Nat, e[1] = q, e[2] = i,
           returned' = returned \/ (returned' = Append(returned, e) /\ HasKey(q, i))
    PROVE  KInv'
<1>1. TypeOK /\ task \in [Goroutine -> Task] /\ Main \in Goroutine /\ returned \in Seq(Purpose \X Nat \X Nat)
  BY DEF KInv, TypeOK, Goroutine
<1>2. /\ rows' \in [Purpose -> Seq(Row)]
      /\ \A p \in Purpose : DOMAIN rows'[p] = DOMAIN rows[p] /\ Len(rows'[p]) = Len(rows[p])
      /\ \A p \in Purpose : \A k \in DOMAIN rows[p] :
            /\ rows'[p][k].index = rows[p][k].index
            /\ rows'[p][k].used <=> rows[p][k].used \/ (p = q /\ rows[p][k].index = i)
  BY <1>1, MarkLemma
<1>3. /\ KeysInOrder => KeysInOrder'
      /\ \A p \in Purpose : FreshIndex(p)' = FreshIndex(p)
      /\ \A p \in Purpose : \A j : HasKey(p, j)' <=> HasKey(p, j)
  BY <1>1, <1>2, SameIndexes
<1>4. /\ task' \in [Goroutine -> Task]
      /\ \A h \in Goroutine : task'[h] = IF h = g THEN new ELSE task[h]
  BY <1>1
<1>5. /\ returned' \in Seq(Purpose \X Nat \X Nat)
      /\ \A m \in DOMAIN returned' :
            \/ m \in DOMAIN returned /\ returned'[m] = returned[m]
            \/ returned'[m][1] = q /\ returned'[m][2] = i /\ HasKey(q, i)
  <2>3. CASE returned' = returned
    BY <1>1, <2>3
  <2>4. CASE returned' = Append(returned, e) /\ HasKey(q, i)
    <3>1. Append(returned, e) \in Seq(Purpose \X Nat \X Nat)
      BY <1>1
    <3>2. /\ DOMAIN returned' = 1..(Len(returned) + 1) /\ DOMAIN returned = 1..Len(returned)
          /\ \A m \in 1..Len(returned) : returned'[m] = returned[m]
          /\ returned'[Len(returned) + 1] = e
          /\ Len(returned) \in Nat
      BY ONLY <1>1, <2>4, e \in Purpose \X Nat \X Nat
    <3>3. \A m \in 1..(Len(returned) + 1) : m \in 1..Len(returned) \/ m = Len(returned) + 1
      BY ONLY <3>2
    <3> QED BY <2>4, <3>1, <3>2, <3>3
  <2> QED BY <2>3, <2>4
<1>6. TypeOK'
  BY <1>2, <1>4, <1>5 DEF KInv, TypeOK
<1>7. Quiet' /\ Filling'
  BY <1>1, <1>4 DEF KInv, Quiet, Filling
<1>8. PutPending'
  <2> SUFFICES ASSUME NEW h \in Goroutine, task'[h].at = "put", NEW w, NEW x,
                      w = task'[h].purpose, x = task'[h].index
               PROVE  task'[h].todo[w] > 0 /\ (x = FreshIndex(w)' \/ HasKey(w, x)')
    BY DEF PutPending
  <2>1. task'[h] = task[h]
    BY <1>4
  <2>2. w \in Purpose
    BY <1>1, <2>1, TaskLemma
  <2>3. task[h].todo[w] > 0 /\ (x = FreshIndex(w) \/ HasKey(w, x))
    BY <2>1 DEF KInv, PutPending
  <2>4. x = FreshIndex(w)' \/ HasKey(w, x)'
    BY <1>3, <2>2, <2>3
  <2> QED BY <2>1, <2>3, <2>4
<1>9. MarkPending'
  <2> SUFFICES ASSUME NEW h \in Goroutine, task'[h].at = "mark", NEW w, NEW x,
                      w = task'[h].purpose, x = task'[h].index
               PROVE  h \in User /\ HasKey(w, x)'
    BY DEF MarkPending
  <2>1. task'[h] = task[h]
    BY <1>4
  <2>2. w \in Purpose
    BY <1>1, <2>1, TaskLemma
  <2> QED BY <1>3, <2>1, <2>2 DEF KInv, MarkPending
<1>10. ReturnedUsed'
  <2> SUFFICES ASSUME NEW m \in DOMAIN returned', NEW p, NEW j,
                      p = returned'[m][1], j = returned'[m][2]
               PROVE  /\ HasKey(p, j)'
                      /\ \A k \in DOMAIN rows'[p] : rows'[p][k].index = j => rows'[p][k].used
    BY DEF ReturnedUsed, HasKey
  <2>1. CASE m \in DOMAIN returned /\ returned'[m] = returned[m]
    <3>1. p \in Purpose
      BY <1>1, <2>1
    <3>2. HasKey(p, j) /\ \A k \in DOMAIN rows[p] : rows[p][k].index = j => rows[p][k].used
      BY <2>1 DEF KInv, ReturnedUsed
    <3>3. HasKey(p, j)'
      BY ONLY <1>3, <3>1, <3>2, Zenon
    <3>4. ASSUME NEW k \in DOMAIN rows'[p], rows'[p][k].index = j PROVE rows'[p][k].used
      <4>1. /\ k \in DOMAIN rows[p] /\ rows'[p][k].index = rows[p][k].index
            /\ rows'[p][k].used <=> rows[p][k].used \/ (p = q /\ rows[p][k].index = i)
        BY ONLY <1>2, <3>1, k \in DOMAIN rows'[p], Zenon
      <4> QED BY ONLY <3>2, <3>4, <4>1, Zenon
    <3> QED BY <3>3, <3>4
  <2>2. CASE returned'[m][1] = q /\ returned'[m][2] = i /\ HasKey(q, i)
    <3>1. p = q /\ j = i
      BY <2>2
    <3> QED BY <1>2, <1>3, <2>2, <3>1
  <2>3. \/ m \in DOMAIN returned /\ returned'[m] = returned[m]
        \/ returned'[m][1] = q /\ returned'[m][2] = i /\ HasKey(q, i)
    BY <1>5
  <2> QED BY <2>1, <2>2, <2>3
<1> QED BY <1>3, <1>6, <1>7, <1>8, <1>9, <1>10 DEF KInv

LEMMA ReceiveStep ==
    ASSUME KInv, NEW g \in Payer, NEW q \in Purpose, NEW i \in 0..MaxUsed, Receive(g, q, i)
    PROVE  KInv'
<1>1. g \in Goroutine /\ g # Main /\ i \in Nat
  BY KeyAssumption DEF Goroutine
<1> DEFINE new == [at |-> "windows"]
<1>2. new \in Task /\ new.at = "windows"
  BY DEF Task
<1>3. /\ wallet = "open" /\ MarkKeyAsUsed(q, i) /\ task' = [task EXCEPT ![g] = new]
      /\ UNCHANGED <<imported, wallet, returned>>
  BY DEF Receive, Becomes
<1> DEFINE e == <<q, i, 0>>
<1>4. e \in Purpose \X Nat \X Nat /\ e[1] = q /\ e[2] = i
  BY <1>1
<1> HIDE DEF new, e
<1> QED BY <1>1, <1>2, <1>3, <1>4, MarkStep

LEMMA ReturnStep ==
    ASSUME KInv, NEW g \in Goroutine, NewAddressReturns(g)
    PROVE  /\ KInv'
           /\ g \in User
           /\ returned' = Append(returned, <<task[g].purpose, task[g].index, task[g].since>>)
           /\ task' = [task EXCEPT ![g] = Idle]
<1>1. task[g].at = "mark" /\ task[g] # Idle /\ UNCHANGED <<imported, wallet>>
      /\ MarkKeyAsUsed(task[g].purpose, task[g].index)
      /\ returned' = Append(returned, <<task[g].purpose, task[g].index, task[g].since>>)
      /\ task' = [task EXCEPT ![g] = Idle]
  BY DEF NewAddressReturns, Becomes, Idle
<1>2. g \in User /\ g # Main /\ HasKey(task[g].purpose, task[g].index)
  BY <1>1, KeyAssumption DEF KInv, MarkPending
<1>3. task[g].purpose \in Purpose /\ task[g].index \in Nat /\ task[g].since \in Nat
  BY <1>1, TaskLemma DEF KInv
<1>4. wallet = "open"
  BY <1>1, <1>2 DEF KInv, Quiet
<1>5. Idle \in Task /\ Idle.at = "idle"
  BY DEF Task, Idle
<1>6. KInv'
  <2> DEFINE e == <<task[g].purpose, task[g].index, task[g].since>>
  <2>1. /\ e \in Purpose \X Nat \X Nat /\ e[1] = task[g].purpose /\ e[2] = task[g].index
        /\ returned' = Append(returned, e)
    BY <1>1, <1>3
  <2> HIDE DEF e
  <2> QED BY <1>1, <1>2, <1>3, <1>4, <1>5, <2>1, MarkStep
<1> QED BY <1>1, <1>2, <1>6

LEMMA KInvNext == KInv /\ [Next]_vars => KInv'
<1> SUFFICES ASSUME KInv, [Next]_vars PROVE KInv'
  OBVIOUS
<1>1. ASSUME NEW g \in Goroutine, Lookahead(g) PROVE KInv'
  BY <1>1, WindowsStep, LastIndexStep, PutStep, DoneStep DEF Lookahead
<1>2. ASSUME NEW g \in Goroutine, NewAddressReturns(g) PROVE KInv'
  BY <1>2, ReturnStep
<1>3. ASSUME NEW g \in Payer, NEW p \in Purpose, NEW i \in 0..MaxUsed, Receive(g, p, i) PROVE KInv'
  BY <1>3, ReceiveStep
<1>4. ASSUME NEW g \in User, NEW p \in Purpose, NewAddress(g, p) PROVE KInv'
  BY <1>4, AskStep
<1>5. ASSUME NEW k \in Importable, ImportKey(k[1], k[2]) PROVE KInv'
  BY <1>5, ImportStep
<1>6. CASE NewKeyManager
  BY <1>6, OpenStep
<1>7. CASE Restart
  BY <1>7, StopStep DEF Restart
<1>8. CASE UNCHANGED vars
  <2>1. UNCHANGED <<rows, imported, task, wallet, returned>>
    BY <1>8 DEF vars
  <2>2. imported' \subseteq Purpose \X Nat /\ task' \in [Goroutine -> Task]
        /\ wallet' \in {"down", "opening", "open"} /\ Quiet'
    BY <2>1 DEF KInv, TypeOK, Quiet
  <2> QED BY <2>1, <2>2, TaskStep DEF KInv, Filling
<1> QED BY <1>1, <1>2, <1>3, <1>4, <1>5, <1>6, <1>7, <1>8 DEF Next

LEMMA KInvAlways == Spec => []KInv
  BY KInvInit, KInvNext, PTL DEF Spec

----------------------------------------------------------------------------
(* The types of the table and of what the goroutines remember.             *)
THEOREM TypeCorrect == Spec => []TypeOK
<1>1. KInv => TypeOK
  BY DEF KInv
<1> QED BY KInvAlways, <1>1, PTL

(* However many goroutines run lookahead at once, the table holds the      *)
(* first keys of the chain in their order, none twice, none left out.      *)
THEOREM ChainInOrder == Spec => []KeysInOrder
<1>1. KInv => KeysInOrder
  BY DEF KInv
<1> QED BY KInvAlways, <1>1, PTL

(* The window is full when the wallet has been opened, whatever the last   *)
(* process left behind.                                                    *)
THEOREM WindowWhenOpen == Spec => OpensWithWindow
<1>1. KInv /\ [Next]_vars =>
        [wallet = "opening" /\ wallet' = "open" =>
            \A p \in Purpose : LookaheadWindow(p) >= Window]_vars
  <2> SUFFICES ASSUME KInv, Next, wallet = "opening", wallet' = "open", NEW p \in Purpose
               PROVE  LookaheadWindow(p) >= Window
    BY DEF OpensWithWindow, vars
  <2>1. LookaheadDone(Main)
    BY DEF Next, Lookahead, NewKeyManager, GetLookaheadWindows, GetLastKeyIndex, Put,
           LookaheadDone, NewAddressReturns, Receive, NewAddress, ImportKey, Restart, Stop
  <2>2. task[Main].at = "fill" /\ task[Main].todo[p] = 0
    BY <2>1 DEF LookaheadDone
  <2>3. LookaheadWindow(p) + task[Main].todo[p] >= Window
    BY <2>2 DEF KInv, Filling
  <2>4. LookaheadWindow(p) \in Nat
    BY WindowLemma DEF KInv
  <2> QED BY <2>2, <2>3, <2>4
<1> QED BY KInvAlways, <1>1, PTL DEF Spec, OpensWithWindow

(* The table only grows at its end, and a used key stays used.             *)
LEMMA RowsGrow ==
    ASSUME KInv, [Next]_vars, NEW p \in Purpose
    PROVE  /\ \A k \in DOMAIN rows[p] :
                 /\ k \in DOMAIN rows'[p] /\ rows'[p][k].index = rows[p][k].index
                 /\ rows[p][k].used => rows'[p][k].used
           /\ \A k \in DOMAIN rows'[p] : k \in DOMAIN rows[p] \/ \A j \in DOMAIN rows[p] : j < k
<1> DEFINE Goal ==
             /\ \A k \in DOMAIN rows[p] :
                   /\ k \in DOMAIN rows'[p] /\ rows'[p][k].index = rows[p][k].index
                   /\ rows[p][k].used => rows'[p][k].used
             /\ \A k \in DOMAIN rows'[p] : k \in DOMAIN rows[p] \/ \A j \in DOMAIN rows[p] : j < k
<1>1. TypeOK
  BY DEF KInv
<1>2. CASE rows' = rows
  BY <1>2
<1>3. ASSUME NEW q \in Purpose, NEW i \in Nat, MarkKeyAsUsed(q, i) PROVE Goal
  BY <1>1, <1>3, MarkLemma
<1>4. ASSUME NEW q \in Purpose, NEW r \in Row, rows' = [rows EXCEPT ![q] = Append(rows[q], r)]
      PROVE  Goal
  <2>1. /\ \A w \in Purpose \ {q} : rows'[w] = rows[w]
        /\ DOMAIN rows[q] = 1..Len(rows[q]) /\ Len(rows[q]) \in Nat
        /\ DOMAIN rows'[q] = 1..(Len(rows[q]) + 1)
        /\ \A k \in 1..Len(rows[q]) : rows'[q][k] = rows[q][k]
    BY ONLY <1>1, <1>4, AppendLemma, Zenon
  <2>2. CASE p # q
    BY <2>1, <2>2
  <2>3. CASE p = q
    BY <2>1, <2>3
  <2> QED BY <2>2, <2>3
<1>5. ASSUME NEW g \in Goroutine, Put(g) PROVE Goal
  <2>1. task[g].purpose \in Purpose /\ task[g].index \in Nat
    BY <1>1, <1>5, TaskLemma DEF Put
  <2> DEFINE r == [index |-> task[g].index, used |-> FALSE]
  <2>2. r \in Row
    BY <2>1 DEF Row
  <2>3. rows' = rows \/ rows' = [rows EXCEPT ![task[g].purpose] = Append(rows[task[g].purpose], r)]
    BY <1>5 DEF Put
  <2> HIDE DEF r, Goal
  <2> QED BY <1>2, <1>4, <2>1, <2>2, <2>3 DEF Goal
<1>6. ASSUME NEW g \in Goroutine, NewAddressReturns(g) PROVE Goal
  <2>1. task[g].purpose \in Purpose /\ task[g].index \in Nat
    BY <1>1, <1>6, TaskLemma DEF NewAddressReturns
  <2> QED BY <1>3, <1>6, <2>1 DEF NewAddressReturns
<1>7. ASSUME NEW g \in Payer, NEW q \in Purpose, NEW i \in 0..MaxUsed, Receive(g, q, i) PROVE Goal
  <2>1. i \in Nat /\ MarkKeyAsUsed(q, i)
    BY <1>7, KeyAssumption DEF Receive
  <2> QED BY <1>3, <2>1
<1>8. ASSUME NEW g \in Goroutine, Lookahead(g), ~Put(g) PROVE rows' = rows
  BY <1>8 DEF Lookahead, GetLookaheadWindows, GetLastKeyIndex, LookaheadDone
<1>9. ASSUME NEW g \in User, NEW q \in Purpose, NewAddress(g, q) PROVE rows' = rows
  BY <1>9 DEF NewAddress, Stop
<1>10. ASSUME NewKeyManager \/ Restart \/ UNCHANGED vars
              \/ \E k \in Importable : ImportKey(k[1], k[2])
       PROVE  rows' = rows
  BY <1>10 DEF NewKeyManager, Restart, Stop, ImportKey, vars
<1> HIDE DEF Goal
<1>11. Goal
  BY <1>2, <1>5, <1>6, <1>7, <1>8, <1>9, <1>10 DEF Next, Goal
<1> QED BY <1>11 DEF Goal

(* CurrentAddress shows the same key until it is used, and never one that  *)
(* NewAddress has returned.                                                *)
THEOREM CurrentIsKept == Spec => CurrentKept
<1> DEFINE Kept == \A p \in Purpose : \A addr \in CurrentAddress(p) :
                      /\ \A n \in DOMAIN returned : addr # Address(returned[n])
                      /\ \/ addr \in CurrentAddress(p)'
                         \/ \E r \in ToSet(rows'[p]) : r.index = addr[2] /\ r.used
<1>1. KInv /\ [Next]_vars => Kept
  <2> SUFFICES ASSUME KInv, [Next]_vars, NEW p \in Purpose, NEW addr \in CurrentAddress(p)
               PROVE  /\ \A n \in DOMAIN returned : addr # Address(returned[n])
                      /\ \/ addr \in CurrentAddress(p)'
                         \/ \E r \in ToSet(rows'[p]) : r.index = addr[2] /\ r.used
    OBVIOUS
  <2>1. PICK k \in First(p) : addr = <<p, rows[p][k].index>>
    BY DEF CurrentAddress, GetCurrentKey
  <2>2. k \in DOMAIN rows[p] /\ ~rows[p][k].used
    BY DEF First, GetUnused
  <2>3. \A n \in DOMAIN returned : addr # Address(returned[n])
    <3> SUFFICES ASSUME NEW n \in DOMAIN returned, Address(returned[n]) = addr PROVE FALSE
      OBVIOUS
    <3>1. returned[n][1] = p /\ returned[n][2] = rows[p][k].index
      BY <2>1 DEF Address
    <3> QED BY <2>2, <3>1 DEF KInv, ReturnedUsed
  <2>4. k \in DOMAIN rows'[p] /\ rows'[p][k].index = rows[p][k].index
    BY <2>2, RowsGrow
  <2>5. CASE rows'[p][k].used
    <3>1. rows'[p][k] \in ToSet(rows'[p]) /\ addr[2] = rows'[p][k].index
      BY <2>1, <2>4 DEF ToSet
    <3> QED BY <2>3, <2>5, <3>1
  <2>6. CASE ~rows'[p][k].used
    <3> DEFINE U  == {i \in DOMAIN rows[p] : ~rows[p][i].used}
               U1 == {i \in DOMAIN rows'[p] : ~rows'[p][i].used}
    <3>1. k \in U1 /\ \A i \in U1 : i \in U \/ k < i
      BY <2>2, <2>4, <2>6, RowsGrow
    <3>2. \A i \in U : i = k \/ k < i
      BY DEF First, GetUnused, OldestFirst
    <3>3. First(p)' = {j \in U1 : \A i \in U1 : i = j \/ j < i}
      BY DEF First, GetUnused, OldestFirst
    <3>4. k \in First(p)'
      BY <3>1, <3>2, <3>3
    <3>5. rows'[p][k].index \in GetCurrentKey(p)'
      BY <3>4 DEF GetCurrentKey
    <3>6. addr \in CurrentAddress(p)'
      BY <2>1, <2>4, <3>5 DEF CurrentAddress
    <3> QED BY <2>3, <3>6
  <2> QED BY <2>5, <2>6
<1>2. KInv /\ [Next]_vars => [Kept]_vars
  BY <1>1
<1> QED BY KInvAlways, <1>2, PTL DEF Spec, CurrentKept

(* However many goroutines ask for addresses, NewAddress returns none that *)
(* had been returned when it was called, whatever payments, lookaheads,    *)
(* imports and restarts come in between.                                   *)
THEOREM FreshAddresses == Spec => []FreshForEachCall
<1> DEFINE RInv == KInv /\ AskedIsNew /\ FreshForEachCall
<1>1. Init => RInv
  <2>1. Init => AskedIsNew /\ FreshForEachCall
    <3> SUFFICES ASSUME Init PROVE AskedIsNew /\ FreshForEachCall
      OBVIOUS
    <3>1. returned = <<>> /\ \A g \in Goroutine : task[g] = Idle
      BY DEF Init
    <3>2. \A g \in Goroutine : task[g].at # "mark"
      BY <3>1 DEF Idle
    <3>3. DOMAIN returned = {}
      BY <3>1
    <3> QED BY <3>2, <3>3 DEF AskedIsNew, FreshForEachCall
  <2> QED BY <2>1, KInvInit
<1>2. RInv /\ [Next]_vars => RInv'
  <2> SUFFICES ASSUME KInv, AskedIsNew, FreshForEachCall, [Next]_vars
               PROVE  AskedIsNew' /\ FreshForEachCall'
    BY KInvNext
  <2>1. TypeOK /\ task \in [Goroutine -> Task] /\ returned \in Seq(Purpose \X Nat \X Nat)
    BY DEF KInv, TypeOK
  (* A step that gives nobody a new key to mark and returns nothing.       *)
  <2>2. ASSUME returned' = returned,
               \A h \in Goroutine : task'[h].at = "mark" => task'[h] = task[h]
        PROVE  AskedIsNew' /\ FreshForEachCall'
    BY <2>2 DEF AskedIsNew, FreshForEachCall
  <2>3. ASSUME NEW g \in Goroutine, NEW new, new.at # "mark", task' = [task EXCEPT ![g] = new]
        PROVE  \A h \in Goroutine : task'[h].at = "mark" => task'[h] = task[h]
    BY <2>1, <2>3
  <2>4. CASE Stop
    BY <2>2, <2>4 DEF Stop, Idle
  <2>5. ASSUME NEW g \in Goroutine, Lookahead(g) PROVE AskedIsNew' /\ FreshForEachCall'
    <3>1. returned' = returned /\ \E new : new.at # "mark" /\ task' = [task EXCEPT ![g] = new]
      BY <2>5, Zenon DEF Lookahead, GetLookaheadWindows, GetLastKeyIndex, Put, LookaheadDone, Becomes, Idle
    <3> QED BY <2>2, <2>3, <3>1
  <2>6. ASSUME NEW g \in Goroutine, NewAddressReturns(g) PROVE AskedIsNew' /\ FreshForEachCall'
    <3> DEFINE e == <<task[g].purpose, task[g].index, task[g].since>>
    <3>1. g \in User /\ returned' = Append(returned, e) /\ task' = [task EXCEPT ![g] = Idle]
          /\ task[g].at = "mark"
      BY <2>6, ReturnStep DEF NewAddressReturns
    <3>2. e \in Purpose \X Nat \X Nat
      BY <2>1, <3>1, TaskLemma
    <3>3. /\ e[3] \in Nat /\ e[3] <= Len(returned)
          /\ \A n \in 1..e[3] : Address(returned[n]) # Address(e)
      BY <2>1, <3>1, TaskLemma DEF AskedIsNew, Address
    <3> HIDE DEF e
    <3>5. /\ DOMAIN returned' = 1..(Len(returned) + 1) /\ DOMAIN returned = 1..Len(returned)
          /\ \A m \in 1..Len(returned) : returned'[m] = returned[m]
          /\ returned'[Len(returned) + 1] = e
          /\ Len(returned) \in Nat
      BY ONLY <2>1, <3>1, <3>2
    <3>6. \A m \in 1..(Len(returned) + 1) : m \in 1..Len(returned) \/ m = Len(returned) + 1
      BY <3>5
    <3>7. FreshForEachCall'
      <4> SUFFICES ASSUME NEW m \in DOMAIN returned', NEW n \in DOMAIN returned', m < n,
                          Address(returned'[m]) = Address(returned'[n])
                   PROVE  m > returned'[n][3]
        BY DEF FreshForEachCall, Address
      <4>1. m \in 1..Len(returned) /\ returned'[m] = returned[m]
        BY <3>5
      <4>2. CASE n \in 1..Len(returned)
        BY <3>5, <4>1, <4>2 DEF FreshForEachCall
      <4>3. CASE n = Len(returned) + 1
        <5>1. Address(returned[m]) = Address(e) /\ returned'[n][3] = e[3]
          BY <3>5, <4>1, <4>3
        <5> QED BY <3>3, <4>1, <5>1
      <4> QED BY <3>5, <3>6, <4>2, <4>3
    <3>8. AskedIsNew'
      <4> SUFFICES ASSUME NEW h \in Goroutine, task'[h].at = "mark"
                   PROVE  /\ task'[h].since <= Len(returned')
                          /\ \A n \in 1..task'[h].since :
                                Address(returned'[n]) # <<task'[h].purpose, task'[h].index>>
        BY DEF AskedIsNew, Address
      <4>1. task'[h] = task[h]
        BY <2>1, <3>1 DEF Idle
      <4>2. task[h].since \in Nat /\ task[h].since <= Len(returned)
        BY <2>1, <4>1, TaskLemma DEF AskedIsNew
      <4>3. Len(returned') = Len(returned) + 1
        BY <2>1, <3>1, <3>2
      <4>4. ASSUME NEW n \in 1..task[h].since
            PROVE  Address(returned'[n]) # <<task[h].purpose, task[h].index>>
        <5>1. n \in 1..Len(returned)
          BY <3>5, <4>2
        <5>2. Address(returned'[n]) = Address(returned[n])
          BY <3>5, <5>1
        <5> QED BY <4>1, <5>2 DEF AskedIsNew
      <4> QED BY <3>5, <4>1, <4>2, <4>3, <4>4
    <3> QED BY <3>7, <3>8
  <2>7. ASSUME NEW g \in Payer, NEW q \in Purpose, NEW i \in 0..MaxUsed, Receive(g, q, i)
        PROVE  AskedIsNew' /\ FreshForEachCall'
    <3>1. g \in Goroutine /\ returned' = returned /\ task' = [task EXCEPT ![g] = [at |-> "windows"]]
      BY <2>7 DEF Receive, Becomes, Goroutine
    <3> QED BY <2>2, <2>3, <3>1
  <2>8. ASSUME NEW g \in User, NEW q \in Purpose, NewAddress(g, q), ~Stop
        PROVE  AskedIsNew' /\ FreshForEachCall'
    <3>1. PICK k \in Second(q) :
             task' = [task EXCEPT ![g] = [at |-> "mark", purpose |-> q, index |-> rows[q][k].index,
                                          since |-> Len(returned)]]
      BY <2>8 DEF NewAddress, Becomes
    <3>2. returned' = returned /\ g \in Goroutine
      BY <2>8 DEF NewAddress, Goroutine
    <3>3. k \in DOMAIN rows[q] /\ ~rows[q][k].used
      BY DEF Second, GetUnused
    <3>4. \A n \in DOMAIN returned : Address(returned[n]) # <<q, rows[q][k].index>>
      <4> SUFFICES ASSUME NEW n \in DOMAIN returned, Address(returned[n]) = <<q, rows[q][k].index>>
                   PROVE  FALSE
        OBVIOUS
      <4>1. returned[n][1] = q /\ returned[n][2] = rows[q][k].index
        BY DEF Address
      <4> QED BY <3>3, <4>1 DEF KInv, ReturnedUsed
    <3>5. AskedIsNew'
      <4> SUFFICES ASSUME NEW h \in Goroutine, task'[h].at = "mark"
                   PROVE  /\ task'[h].since <= Len(returned)
                          /\ \A n \in 1..task'[h].since :
                                Address(returned[n]) # <<task'[h].purpose, task'[h].index>>
        BY <3>2 DEF AskedIsNew, Address
      <4>1. CASE h = g
        <5>1. task'[h].since = Len(returned) /\ task'[h].purpose = q
              /\ task'[h].index = rows[q][k].index
          BY <2>1, <3>1, <3>2, <4>1
        <5>2. Len(returned) \in Nat /\ DOMAIN returned = 1..Len(returned)
          BY <2>1
        <5> QED BY <3>4, <5>1, <5>2
      <4>2. CASE h # g
        <5>1. task'[h] = task[h]
          BY <2>1, <3>1, <4>2
        <5> QED BY <5>1 DEF AskedIsNew
      <4> QED BY <4>1, <4>2
    <3>6. FreshForEachCall'
      BY <3>2 DEF FreshForEachCall
    <3> QED BY <3>5, <3>6
  <2>9. CASE NewKeyManager
    <3>1. Main \in Goroutine /\ returned' = returned
          /\ task' = [task EXCEPT ![Main] = [at |-> "windows"]]
      BY <2>9 DEF NewKeyManager, Becomes, Goroutine
    <3> QED BY <2>2, <2>3, <3>1
  <2>10. CASE UNCHANGED vars \/ \E k \in Importable : ImportKey(k[1], k[2])
    <3>1. UNCHANGED <<task, returned>>
      BY <2>10 DEF vars, ImportKey
    <3> QED BY <2>2, <3>1
  <2> QED BY <2>4, <2>5, <2>6, <2>7, <2>8, <2>9, <2>10 DEF Next, Restart
<1>3. RInv => FreshForEachCall
  OBVIOUS
<1> HIDE DEF RInv
<1> QED BY <1>1, <1>2, <1>3, PTL DEF Spec
=============================================================================
