------------------------------ MODULE KeyManager ------------------------------
(***************************************************************************)
(* KeyManager of keys.go over the table of db/keys.go, and the calls of    *)
(* wallet.go and txstore.go that use it: the deterministic keys of the     *)
(* wallet, which of them are used, and the lookahead window of keys        *)
(* watched beyond the last used one.                                       *)
(*                                                                         *)
(* Each KeysDB call takes the lock of the table and is one step; nothing   *)
(* protects the sequences of calls that lookahead and NewAddress make.     *)
(* They run in the goroutine of the wire service (a payment is ingested)   *)
(* and in those of the API (a transaction is broadcast, an address is      *)
(* asked for), and a restart may cut them off.                             *)
(*                                                                         *)
(* A key is its path, a purpose and an index; the script address, primary  *)
(* key of the table, is a function of it.                                  *)
(***************************************************************************)
EXTENDS Integers, Sequences, SequencesExt, FiniteSets

CONSTANTS
    Purpose,      \* EXTERNAL, INTERNAL
    Window,       \* LOOKAHEADWINDOW
    Invalid,      \* indexes hdkeychain derives no key for
    Main,         \* the goroutine that opens the wallet
    Payer,        \* the goroutines that ingest transactions
    User,         \* the goroutines that ask for addresses
    Importable,   \* keys of the chain the user may import by hand
    MaxUsed       \* bound: the greatest index that is marked as used

Goroutine == {Main} \cup Payer \cup User

ASSUME KeyAssumption ==
    /\ Window \in Nat \ {0}
    /\ Invalid \subseteq Nat /\ IsFiniteSet(Invalid)
    /\ Main \notin Payer \cup User /\ Payer \cap User = {}
    /\ Importable \subseteq Purpose \X Nat
    /\ MaxUsed \in Nat

VARIABLES
    rows,       \* table keys, by purpose in the order of rowid
    imported,   \* paths of the chain's keys imported under purpose -1
    task,       \* what each goroutine is doing
    wallet,     \* "down", "opening", "open"
    returned    \* what NewAddress returned: <<purpose, index, calls that had
                \* returned when this one began>>

vars == <<rows, imported, task, wallet, returned>>

Row == [index : Nat, used : BOOLEAN]
Idle == [at |-> "idle"]

----------------------------------------------------------------------------
(* What the queries return.                                                *)
NextIndex(n) ==
    CHOOSE i \in n..(n + Cardinality(Invalid)) :
        i \notin Invalid /\ \A j \in n..(i - 1) : j \in Invalid

FreshIndex(purpose) ==
    NextIndex(IF rows[purpose] = <<>> THEN 0 ELSE Last(rows[purpose]).index + 1)

(* The unused keys after the last used one.                                *)
LookaheadWindow(purpose) ==
    LET n == Len(rows[purpose])
    IN  Cardinality({k \in 1..n : \A j \in k..n : ~rows[purpose][j].used})

(* The rows of the unused keys.                                            *)
GetUnused(purpose) == {k \in DOMAIN rows[purpose] : ~rows[purpose][k].used}

(* Mutant: the newest key comes first.                                     *)
NewestFirst(j, k) == j > k

(* "order by rowid"                                                        *)
OldestFirst(j, k) == j < k

(* The first and the second of the unused keys, if there are that many.    *)
First(purpose) ==
    {k \in GetUnused(purpose) : \A i \in GetUnused(purpose) : i = k \/ OldestFirst(k, i)}

Second(purpose) ==
    {k \in GetUnused(purpose) \ First(purpose) :
        \A i \in GetUnused(purpose) \ First(purpose) : i = k \/ OldestFirst(k, i)}

(* The first unused key, if there is one, and its address.                 *)
GetCurrentKey(purpose) == {rows[purpose][k].index : k \in First(purpose)}

CurrentAddress(purpose) == {<<purpose, index>> : index \in GetCurrentKey(purpose)}

(* Mutant: the script address is not a primary key.                        *)
TakenByImport(purpose, index) == <<purpose, index>> \in imported

Taken(purpose, index) ==
    \/ \E r \in ToSet(rows[purpose]) : r.index = index
    \/ <<purpose, index>> \in imported

(* Mutant: the update matches no row.                                      *)
MarkNothing(purpose, index) == UNCHANGED rows

MarkKeyAsUsed(purpose, index) ==
    rows' = [rows EXCEPT ![purpose] =
                [k \in DOMAIN @ |-> IF @[k].index = index THEN [@[k] EXCEPT !.used = TRUE] ELSE @[k]]]

Becomes(g, what) == task' = [task EXCEPT ![g] = what]

----------------------------------------------------------------------------
(***************************************************************************)
(* lookahead: the windows are read once, then keys are added one by one,   *)
(* purposes in any order; the first error ends it.  GetFreshKey reads the  *)
(* last index and puts the next key in two calls.                          *)
(***************************************************************************)
(* Mutant: a window that is larger than wanted is not looked for.          *)
WindowsUnguarded(g) ==
    /\ task[g].at = "windows"
    /\ Becomes(g, [at |-> "fill", todo |-> [p \in Purpose |-> Window - LookaheadWindow(p)]])
    /\ UNCHANGED <<rows, imported, wallet, returned>>

GetLookaheadWindows(g) ==
    /\ task[g].at = "windows"
    /\ Becomes(g, [at |-> "fill",
                   todo |-> [p \in Purpose |-> IF LookaheadWindow(p) < Window
                                               THEN Window - LookaheadWindow(p) ELSE 0]])
    /\ UNCHANGED <<rows, imported, wallet, returned>>

GetLastKeyIndex(g, purpose) ==
    /\ task[g].at = "fill"
    /\ task[g].todo[purpose] > 0
    /\ Becomes(g, [at |-> "put", todo |-> task[g].todo,
                   purpose |-> purpose, index |-> FreshIndex(purpose)])
    /\ UNCHANGED <<rows, imported, wallet, returned>>

(* Mutant: an insert that fails counts as done.                            *)
PutAnyway(g) ==
    LET t == task[g]
    IN  /\ t.at = "put"
        /\ rows' = IF Taken(t.purpose, t.index) THEN rows
                   ELSE [rows EXCEPT ![t.purpose] = Append(@, [index |-> t.index, used |-> FALSE])]
        /\ Becomes(g, [at |-> "fill", todo |-> [t.todo EXCEPT ![t.purpose] = @ - 1]])
        /\ UNCHANGED <<imported, wallet, returned>>

(* The insert fails if the address is in the table.  Opening the wallet    *)
(* fails with it; Ingest ignores the error.                                *)
Put(g) ==
    LET t == task[g]
    IN  /\ t.at = "put"
        /\ IF Taken(t.purpose, t.index)
           THEN /\ Becomes(g, Idle)
                /\ wallet' = IF g = Main THEN "down" ELSE wallet
                /\ UNCHANGED rows
           ELSE /\ rows' = [rows EXCEPT ![t.purpose] =
                               Append(@, [index |-> t.index, used |-> FALSE])]
                /\ Becomes(g, [at |-> "fill", todo |-> [t.todo EXCEPT ![t.purpose] = @ - 1]])
                /\ UNCHANGED wallet
        /\ UNCHANGED <<imported, returned>>

LookaheadDone(g) ==
    /\ task[g].at = "fill"
    /\ \A p \in Purpose : task[g].todo[p] = 0
    /\ Becomes(g, Idle)
    /\ wallet' = IF g = Main THEN "open" ELSE wallet
    /\ UNCHANGED <<rows, imported, returned>>

(* NewKeyManager.                                                          *)
NewKeyManager ==
    /\ wallet = "down"
    /\ wallet' = "opening"
    /\ Becomes(Main, [at |-> "windows"])
    /\ UNCHANGED <<rows, imported, returned>>

(* Ingest finds an output to one of the keys: KeyManager.MarkKeyAsUsed,    *)
(* which marks it in the table and goes on to lookahead.                   *)
Receive(g, purpose, index) ==
    /\ wallet = "open" /\ task[g] = Idle
    /\ index <= MaxUsed
    /\ \E r \in ToSet(rows[purpose]) : r.index = index
    /\ MarkKeyAsUsed(purpose, index)
    /\ Becomes(g, [at |-> "windows"])
    /\ UNCHANGED <<imported, wallet, returned>>

(***************************************************************************)
(* NewAddress takes the SECOND unused key and marks it in the table,       *)
(* without lookahead.  With fewer than two unused keys it panics, which    *)
(* ends the process.                                                       *)
(***************************************************************************)
Stop ==
    /\ wallet' = "down"
    /\ task' = [g \in Goroutine |-> Idle]
    /\ UNCHANGED <<rows, imported, returned>>

NewAddress(g, purpose) ==
    /\ wallet = "open" /\ task[g] = Idle
    /\ IF Second(purpose) = {}
       THEN Stop
       ELSE \E k \in Second(purpose) :
            LET index == rows[purpose][k].index
            IN  /\ index <= MaxUsed
                /\ Becomes(g, [at |-> "mark", purpose |-> purpose, index |-> index,
                               since |-> Len(returned)])
                /\ UNCHANGED <<rows, imported, wallet, returned>>

NewAddressReturns(g) ==
    /\ task[g].at = "mark"
    /\ MarkKeyAsUsed(task[g].purpose, task[g].index)
    /\ returned' = Append(returned, <<task[g].purpose, task[g].index, task[g].since>>)
    /\ Becomes(g, Idle)
    /\ UNCHANGED <<imported, wallet>>

(* The user imports a private key that is one of the chain's own.  The     *)
(* insert fails if the key is in the table.                                *)
ImportKey(purpose, index) ==
    /\ wallet = "open"
    /\ ~Taken(purpose, index)
    /\ imported' = imported \cup {<<purpose, index>>}
    /\ UNCHANGED <<rows, task, wallet, returned>>

Restart == wallet # "down" /\ Stop

----------------------------------------------------------------------------
Init ==
    /\ rows = [p \in Purpose |-> <<>>]
    /\ imported = {}
    /\ task = [g \in Goroutine |-> Idle]
    /\ wallet = "down"
    /\ returned = <<>>

Lookahead(g) ==
    \/ GetLookaheadWindows(g)
    \/ \E p \in Purpose : GetLastKeyIndex(g, p)
    \/ Put(g)
    \/ LookaheadDone(g)

Next ==
    \/ NewKeyManager
    \/ \E g \in Goroutine : Lookahead(g) \/ NewAddressReturns(g)
    \/ \E g \in Payer, p \in Purpose, i \in 0..MaxUsed : Receive(g, p, i)
    \/ \E g \in User, p \in Purpose : NewAddress(g, p)
    \/ \E k \in Importable : ImportKey(k[1], k[2])
    \/ Restart

Spec == Init /\ [][Next]_vars

----------------------------------------------------------------------------
(***************************************************************************)
(* Properties.                                                             *)
(***************************************************************************)
Todo == [Purpose -> 0..Window]

Task == [at : {"idle", "windows"}] \cup [at : {"fill"}, todo : Todo]
        \cup [at : {"put"}, todo : Todo, purpose : Purpose, index : Nat]
        \cup [at : {"mark"}, purpose : Purpose, index : Nat, since : Nat]

TypeOK ==
    /\ rows \in [Purpose -> Seq(Row)]
    /\ imported \subseteq Purpose \X Nat
    /\ task \in [Goroutine -> Task]
    /\ wallet \in {"down", "opening", "open"}
    /\ returned \in Seq(Purpose \X Nat \X Nat)

(* Whatever goroutines run lookahead at once and wherever a restart cuts   *)
(* them off, the keys of a purpose are exactly the first ones of the chain *)
(* in order: none twice, none left out.  A wallet restored from the seed   *)
(* derives the same keys, and GetLastKeyIndex, which goes by rowid, finds  *)
(* the greatest index.                                                     *)
KeysInOrder ==
    \A p \in Purpose : \A k \in DOMAIN rows[p] :
        rows[p][k].index = NextIndex(IF k = 1 THEN 0 ELSE rows[p][k-1].index + 1)

Address(entry) == <<entry[1], entry[2]>>

(* NewAddress "returns a fresh address that has never been returned by     *)
(* this function".                                                         *)
NeverReturnedTwice ==
    \A m, n \in DOMAIN returned : m # n => Address(returned[m]) # Address(returned[n])

(* What NewAddress keeps of that with any number of callers, lookaheads,   *)
(* payments, imports and restarts in between: a call never returns an      *)
(* address that had been returned when it began.  Only calls that overlap  *)
(* are given the same one.                                                 *)
FreshForEachCall ==
    \A m, n \in DOMAIN returned :
        m < n /\ Address(returned[m]) = Address(returned[n]) => m > returned[n][3]

(* CurrentAddress "will return the same address so long as that address is *)
(* unused", through payments to other keys, lookaheads that add keys,      *)
(* restarts and imports; and it never shows one that NewAddress has        *)
(* returned, which is meant for a single order.                            *)
CurrentKept ==
    [][\A p \in Purpose : \A addr \in CurrentAddress(p) :
          /\ \A n \in DOMAIN returned : addr # Address(returned[n])
          /\ \/ addr \in CurrentAddress(p)'
             \/ \E r \in ToSet(rows'[p]) : r.index = addr[2] /\ r.used]_vars

(* The window is full whenever the wallet has just been opened, in         *)
(* whatever state the crashes, the aborted lookaheads and the unguarded    *)
(* NewAddress calls left the table.                                        *)
OpensWithWindow ==
    [][wallet = "opening" /\ wallet' = "open" =>
          \A p \in Purpose : LookaheadWindow(p) >= Window]_vars
=============================================================================
