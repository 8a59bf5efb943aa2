---------------------------- MODULE MerkleBlock ----------------------------
(***************************************************************************)
(* mblock.go: checkMBlock walks the partial merkle tree of a merkleblock   *)
(* message with a stack and returns the transactions the flags point at.   *)
(*                                                                         *)
(* Hashing is free of collisions: a transaction is <<i>>, a parent is the  *)
(* triple <<"parent", left, right>>.  Positions are numbered as in the     *)
(* code: the leaves from 0, the level above from msb on, and so on up to   *)
(* 2 * msb - 2; on these numbers the code's shifts and masks are halving,  *)
(* doubling and adding msb.  The flag bytes are their bits, in eights.     *)
(***************************************************************************)
EXTENDS Integers, Sequences

nil == <<>>

(* nil stands for the errors: equal children, or no left one.              *)
MakeMerkleParent(left, right) ==
    CASE left = right -> nil
      [] left = nil -> nil
      [] right = nil -> <<"parent", left, left>>
      [] OTHER -> <<"parent", left, right>>

treeDepth(n) == CHOOSE e \in 0..n : 2 ^ e >= n /\ \A f \in 0..(e - 1) : 2 ^ f < n

nextPowerOfTwo(n) == 2 ^ treeDepth(n)

Odd(pos) == IF pos % 2 = 1 THEN pos ELSE pos + 1
Up(pos, msb) == pos \div 2 + msb

(* Mutant: the last node of a level counts as missing.                     *)
inDeadZoneEarly(pos, size) ==
    LET msb == nextPowerOfTwo(size)
        row[h \in 0..(2 * msb), last \in 0..(2 * msb)] ==
            IF pos >= h THEN row[Up(h, msb), Up(last, msb)] ELSE pos >= last
    IN  pos > 2 * msb - 2 \/ row[msb, size - 1]

(* The loop raises h and last level by level until pos is below h.         *)
inDeadZone(pos, size) ==
    LET msb == nextPowerOfTwo(size)
        row[h \in 0..(2 * msb), last \in 0..(2 * msb)] ==
            IF pos >= h THEN row[Up(h, msb), Up(last, msb)] ELSE pos > last
    IN  pos > 2 * msb - 2 \/ row[msb, size - 1]

(***************************************************************************)
(* One round of the main loop on its variables: the stack s, the result r, *)
(* the position and what is left of the message.  A round ends the loop by *)
(* setting `end'.                                                          *)
(***************************************************************************)
Ends(st, how) == [st EXCEPT !.end = how]

(* A parent from the top of the stack alone, or from its two top entries:  *)
(* k entries are removed and their parent filled.                          *)
Fill(st, h, k) ==
    LET left == Len(st.s) - k
    IN  IF h = nil THEN Ends(st, "error")
        ELSE IF left < 1 THEN Ends(st, "panic")
        ELSE [st EXCEPT !.s = [SubSeq(st.s, 1, left) EXCEPT ![left].h = h],
                        !.pos = Odd(st.s[left].p)]

(* The next hash is pushed for a leaf, or for an inner node whose flag is  *)
(* clear; an inner node whose flag is set is pushed empty and descended    *)
(* into.  On the right side of the bottom row the position stays.          *)
Push(st) ==
    LET inner == st.pos >= st.msb
        set   == Head(st.flags)
        takes == ~inner \/ ~set
        right == st.pos % 2 = 1
    IN  [st EXCEPT
            !.s = Append(@, [p |-> st.pos, h |-> IF takes THEN Head(st.hashes) ELSE nil]),
            !.hashes = IF takes THEN Tail(@) ELSE @,
            !.r = IF ~inner /\ set THEN Append(@, Head(st.hashes)) ELSE @,
            !.pos = IF ~takes THEN 2 * (@ - st.msb)
                    ELSE IF ~right THEN @ + 1
                    ELSE IF inner THEN Up(@, st.msb) ELSE @,
            !.flags = Tail(@)]

(* Mutant: any root will do.                                               *)
AnyRoot(h, m) == TRUE

RootMatches(h, m) == h = m.root

Round(st, m) ==
    LET s == st.s
        top == Len(s)
    IN  IF top = 1 /\ s[1].h # nil
        THEN Ends(st, IF RootMatches(s[1].h, m) THEN "ok" ELSE "error")
        ELSE IF inDeadZone(st.pos, m.n)
        THEN IF top = 0 THEN Ends(st, "panic") ELSE Fill(st, MakeMerkleParent(s[top].h, nil), 1)
        ELSE IF top > 2 /\ s[top - 1].h # nil /\ s[top].h # nil
        THEN Fill(st, MakeMerkleParent(s[top - 1].h, s[top].h), 2)
        ELSE IF st.hashes = <<>> \/ st.flags = <<>> THEN Ends(st, "error")
        ELSE Push(st)

RECURSIVE Loop(_, _)
Loop(st, m) == IF st.end # "" THEN st ELSE Loop(Round(st, m), m)

(* The message m claims n transactions under the root.                     *)
checkMBlock(m) ==
    LET msb == nextPowerOfTwo(m.n)
        st == Loop([s |-> <<>>, r |-> <<>>, msb |-> msb, pos |-> 2 * msb - 2,
                    hashes |-> m.hashes, flags |-> m.flags, end |-> ""], m)
    IN  IF m.n = 0 \/ m.flags = <<>> THEN [end |-> "error", r |-> <<>>]
        ELSE [end |-> st.end, r |-> st.r]

----------------------------------------------------------------------------
(***************************************************************************)
(* What a peer sends (external): the tree of n transactions, and for a set *)
(* of matched ones the hashes and flags in depth first order.              *)
(***************************************************************************)
RECURSIVE TreeHash(_, _, _)
TreeHash(n, level, i) ==
    IF level = 0 THEN <<i>>
    ELSE LET left == TreeHash(n, level - 1, 2 * i)
         IN  <<"parent", left, IF (2 * i + 1) * 2 ^ (level - 1) < n
                               THEN TreeHash(n, level - 1, 2 * i + 1) ELSE left>>

MerkleRoot(n) == TreeHash(n, treeDepth(n), 0)

Nodes(n) == UNION {{TreeHash(n, level, i) : i \in {j \in 0..(n - 1) : j * 2 ^ level < n}}
                      : level \in 0..treeDepth(n)}

RECURSIVE Encode(_, _, _, _)
Encode(n, matched, level, i) ==
    LET below == (i * 2 ^ level)..((i + 1) * 2 ^ level - 1)
        hit == below \cap matched # {}
        left == Encode(n, matched, level - 1, 2 * i)
        right == IF (2 * i + 1) * 2 ^ (level - 1) < n
                 THEN Encode(n, matched, level - 1, 2 * i + 1)
                 ELSE [hashes |-> <<>>, flags |-> <<>>]
    IN  IF level = 0 \/ ~hit
        THEN [hashes |-> <<TreeHash(n, level, i)>>, flags |-> <<hit>>]
        ELSE [hashes |-> left.hashes \o right.hashes,
              flags |-> <<TRUE>> \o left.flags \o right.flags]

(* Bits come in whole bytes.                                               *)
Bytes(bits) == bits \o [i \in 1..((8 - (Len(bits) % 8)) % 8) |-> FALSE]

HonestBlock(n, matched) ==
    LET e == Encode(n, matched, treeDepth(n), 0)
    IN  [n |-> n, root |-> MerkleRoot(n), hashes |-> e.hashes, flags |-> Bytes(e.flags)]

MatchedTxids(n, matched) ==
    SelectSeq([k \in 1..n |-> <<k - 1>>], LAMBDA txid : txid[1] \in matched)
=============================================================================
