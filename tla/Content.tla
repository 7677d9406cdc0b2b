------------------------------ MODULE Content ------------------------------
(***************************************************************************)
(* The cached content of one file (client/cache.cpp, class Content): a     *)
(* list of blocks that write() keeps sorted and merged.  A path whose      *)
(* content was deleted is one without blocks.                              *)
(***************************************************************************)
EXTENDS Naturals, SequencesExt, FiniteSetsExt

CONSTANTS
    Size,      \* bound: offsets of bytes are 0..Size-1
    Bytes,     \* values of a byte
    Unknown    \* a byte the cache was not told

ASSUME ConstantsAssumption ==
    /\ Size \in Nat \ {0}
    /\ Unknown \notin Bytes

Offsets == 0..(Size - 1)
Blocks == [start : Offsets, content : UNION {[1..n -> Bytes] : n \in 1..Size}]

VARIABLES
    blocks,   \* m_blocks[path], in list order
    written,  \* history: what the last write of each byte wrote
    backward  \* history: bytes of writes that partly overlapped a block behind

vars == <<blocks, written, backward>>

TypeOK ==
    /\ blocks \in Seq(Blocks)
    /\ written \in [Offsets -> Bytes \cup {Unknown}]
    /\ backward \in SUBSET Offsets

Init ==
    /\ blocks = <<>>
    /\ written = [p \in Offsets |-> Unknown]
    /\ backward = {}

-----------------------------------------------------------------------------
\* The offset behind the last byte of a block.
End(b) == b.start + Len(b.content)

\* Block b has the `size' bytes from `start' on.
Covers(b, start, size) ==
    b.start <= start /\ Len(b.content) >= (start - b.start) + size

\* Content::read: the first block that has all the bytes.
HitBlocks(bs, start, size) == {k \in DOMAIN bs : Covers(bs[k], start, size)}

Hit(bs, start, size) == HitBlocks(bs, start, size) # {}

ReadHit(bs, start, size) ==
    LET b == bs[Min(HitBlocks(bs, start, size))]
    IN  [k \in 1..size |-> b.content[(start - b.start) + k]]

\* Bytes copied over the content of a block, from one of its offsets on.
Overlay(b, n) ==
    LET offset == n.start - b.start
    IN  [k \in 1..Max({Len(b.content), offset + Len(n.content)}) |->
            IF k > offset /\ k <= offset + Len(n.content)
            THEN n.content[k - offset] ELSE b.content[k]]

\* Mutant: the copies in the other order, the older block wins.
MergeOlderWins(b, n) ==
    LET offset == n.start - b.start
    IN  [start |-> b.start,
         content |-> [k \in 1..Max({Len(b.content), offset + Len(n.content)}) |->
                         IF k <= Len(b.content) THEN b.content[k]
                         ELSE n.content[k - offset]]]

\* Mutant: the merged block starts where the second one did.
MergeMovesStart(b, n) == [start |-> End(b), content |-> Overlay(b, n)]

Merge(b, n) == [start |-> b.start, content |-> Overlay(b, n)]

\* Mutant: blocks that touch stay apart.
TouchOverlapOnly(b, n) == End(b) > n.start

Touch(b, n) == End(b) >= n.start

\* The loop of Content::flatten: each block is merged into the one before it
\* if they touch.
MergeTouching(bs) ==
    FoldLeft(LAMBDA done, n :
                IF done # <<>> /\ Touch(Last(done), n)
                THEN Append(Front(done), Merge(Last(done), n))
                ELSE Append(done, n),
             <<>>, bs)

\* A stable sort by start of a sorted list with one more block at its end.
SortLast(bs, n) ==
    InsertAt(bs, Max({0} \cup {k \in DOMAIN bs : bs[k].start <= n.start}) + 1, n)

\* Content::write.
AfterWrite(bs, n) ==
    IF Hit(bs, n.start, Len(n.content))
    THEN LET k == Min(HitBlocks(bs, n.start, Len(n.content)))
         IN  [bs EXCEPT ![k].content = Overlay(bs[k], n)]
    ELSE MergeTouching(SortLast(bs, n))

-----------------------------------------------------------------------------
\* The new block partly overlaps a block that starts behind it.
IsBackward(n) ==
    /\ ~Hit(blocks, n.start, Len(n.content))
    /\ \E k \in DOMAIN blocks :
          n.start < blocks[k].start /\ blocks[k].start < End(n)

Write(n) ==
    LET bytes == n.start..(End(n) - 1)
    IN  /\ blocks' = AfterWrite(blocks, n)
        /\ written' = [p \in Offsets |-> IF p \in bytes THEN n.content[p - n.start + 1]
                                         ELSE written[p]]
        /\ backward' = IF IsBackward(n) THEN backward \cup bytes ELSE backward \ bytes

\* Content::delete_file, and Content::reset for this path.
DeleteFile ==
    /\ blocks' = <<>>
    /\ written' = [p \in Offsets |-> Unknown]
    /\ backward' = {}

Next ==
    \/ \E start \in Offsets : \E n \in 1..(Size - start) :
          \E content \in [1..n -> Bytes] :
             Write([start |-> start, content |-> content])
    \/ DeleteFile

Spec == Init /\ [][Next]_vars

-----------------------------------------------------------------------------
(* Properties.                                                             *)

\* The blocks are sorted and between two of them is a byte that none has:
\* flatten relies on the order when it compares a block with the next only, and
\* SortLast above on the order of all but the last.
BlocksApart ==
    \A j, k \in DOMAIN blocks : j < k => End(blocks[j]) < blocks[k].start

\* The cache answers a read exactly if it was told all bytes of it, also when
\* several writes told them.
HitIffKnown ==
    \A start \in Offsets : \A size \in 1..(Size - start) :
        Hit(blocks, start, size)
            <=> \A p \in start..(start + size - 1) : written[p] # Unknown

\* A read from the cache returns what was written last.  The unit test
\* RW_OverlappingWrites expects it of overlapping writes...
AlwaysReadsLastWrite ==
    \A start \in Offsets : \A size \in 1..(Size - start) :
        Hit(blocks, start, size) =>
            \A k \in 1..size :
                ReadHit(blocks, start, size)[k] = written[start + k - 1]

\* ...and it holds of all bytes that no write wrote last which partly overlapped
\* a block that starts behind it.
ReadsLastWrite ==
    \A start \in Offsets : \A size \in 1..(Size - start) :
        Hit(blocks, start, size) =>
            \A k \in 1..size :
                \/ start + k - 1 \in backward
                \/ ReadHit(blocks, start, size)[k] = written[start + k - 1]
=============================================================================
