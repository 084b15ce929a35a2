--------------------------- MODULE LinkedAllocator ---------------------------
(***************************************************************************)
(* LinkedAllocator (linked-allocator.cpp), which replaces malloc and free  *)
(* of a robot (override.cpp): chunks that lie side by side in the heap,    *)
(* each behind a header of two words, its Prev pointer and its size with   *)
(* the freed bit.                                                          *)
(*                                                                         *)
(* Addresses and sizes are counted in words of four bytes, requests in     *)
(* bytes.  The memory is modelled word by word, because headers of chunks  *)
(* that are no more are still read.                                        *)
(***************************************************************************)
EXTENDS Integers, Sequences, SequencesExt, FiniteSetsExt

CONSTANTS HeapSize,  \* words of the heap
          Requests,  \* bytes a caller may ask for
          MaxLive    \* bound: blocks in use at a time

ASSUME HeapAssumption ==
  HeapSize \in Nat /\ HeapSize >= 2 /\ Requests \subseteq Nat /\ MaxLive \in Nat

Header == 2
Null == -1
Address == 0..HeapSize - 1
head == 0

Pointer(a)      == [word |-> "prev", at |-> a]
Meta(n, freed)  == [word |-> "size", size |-> n, freed |-> freed]
UserData        == [word |-> "data"]

VARIABLES mem,      \* what each word of the heap was last written as
          live,     \* the blocks handed out and not yet freed, oldest first
          lifo,     \* history: the blocks were freed in reverse order so far
          spoiled   \* history: what went wrong first, or "no"

allocVars == <<mem, live, lifo, spoiled>>

(***************************************************************************)
(* AllocatedChunk.  Every number ends in two zero bits but a size whose    *)
(* freed bit is set: a pointer read as a size says used, the data of a     *)
(* user may say either.                                                    *)
(***************************************************************************)
SizeOf(c) == mem[c + 1].size
PrevOf(c) == mem[c].at
NextOf(c) == c + Header + SizeOf(c)
InHeap(a) == a \in Address
FreedBit(w) == CASE w.word = "size" -> {w.freed}
                 [] w.word = "prev" -> {FALSE}
                 [] OTHER -> BOOLEAN
IsFreed(c) == mem[c + 1].freed

\* The chunks one meets on the way from the head, each behind the one before.
Chunks ==
  LET reached[n \in 0..HeapSize] ==
        IF n = 0 THEN {head}
        ELSE LET before == reached[n - 1]
             IN  before \cup ({NextOf(c) : c \in before} \cap Address)
  IN  reached[HeapSize]

RoundUpSize(bytes) == (bytes + 3) \div 4
IsPowerOf2(n) == n = 0 \/ \E k \in 0..HeapSize : n = 2^k

(***************************************************************************)
(* The first chunk of exactly the size; else the first whose rest is a     *)
(* power of two (zero counts, below zero does not); else the last that is  *)
(* large enough.  With none of these the answer is what the search began   *)
(* with, the head, whether it is in use or not.                            *)
(***************************************************************************)
FindWellAlignedChunk(need) ==
  LET large == {c \in Chunks : IsFreed(c) /\ SizeOf(c) >= need}
      exact == {c \in large : SizeOf(c) = need}
      even  == {c \in large : IsPowerOf2(SizeOf(c) - (need + Header))}
  IN  CASE exact # {} -> Min(exact)
        [] exact = {} /\ even # {} -> Min(even)
        [] exact = {} /\ even = {} /\ large # {} -> Max(large)
        [] OTHER -> head

\* The caller may write all over the words of its block.
Scribbled(m, c, need) ==
  [w \in Address |-> IF w \in c + Header..c + Header + need - 1
                       THEN UserData ELSE m[w]]

\* slip: the rest is not marked freed
SlipRestInUse(c, need) ==
  LET rest == c + Header + need
  IN  [w \in Address |-> CASE w = c + 1    -> Meta(need, FALSE)
                           [] w = rest     -> Pointer(c)
                           [] w = rest + 1 -> Meta(SizeOf(c) - (need + Header), FALSE)
                           [] OTHER        -> mem[w]]

(***************************************************************************)
(* The block takes the front of the chunk, the rest becomes a free chunk   *)
(* behind it.  Nobody tells the chunk behind the rest who its Prev is now. *)
(* A rest shorter than its own header has a size below zero, and its       *)
(* header covers the first word of what lies behind.                       *)
(***************************************************************************)
Split(c, need) ==
  LET rest == c + Header + need
  IN  [w \in Address |-> CASE w = c + 1    -> Meta(need, FALSE)
                           [] w = rest     -> Pointer(c)
                           [] w = rest + 1 -> Meta(SizeOf(c) - (need + Header), TRUE)
                           [] OTHER        -> mem[w]]

Allocate(bytes) ==
  LET need == RoundUpSize(bytes)
      c    == FindWellAlignedChunk(need)
  IN  \/ /\ SizeOf(c) < need              \* the caller gets nullptr
         /\ UNCHANGED allocVars
      \/ /\ SizeOf(c) >= need
         /\ live' = Append(live, [at |-> c, size |-> need])
         /\ mem' = Scribbled(IF SizeOf(c) = need
                               THEN [mem EXCEPT ![c + 1] = Meta(need, FALSE)]
                               ELSE Split(c, need), c, need)
         /\ spoiled' = CASE ~IsFreed(c) -> "exhausted"
                         [] IsFreed(c) /\ SizeOf(c) = need + 1 -> "sliver"
                         [] OTHER -> spoiled
         /\ UNCHANGED lifo

Before(c) == LET here == {a \in Chunks : a < c}
             IN  IF here = {} THEN Null ELSE Max(here)

Merged(begin, end) ==
  [mem EXCEPT ![begin + 1] = Meta(end - begin + SizeOf(end), TRUE)]

\* slip: only the chunk in front is merged
SlipNeverForward(c) == {FALSE}

\* What the header behind c says; behind the heap lies anything.
NextFreed(c) == IF InHeap(NextOf(c)) THEN FreedBit(mem[NextOf(c) + 1]) ELSE BOOLEAN

(***************************************************************************)
(* The header that Prev points at is read, whatever it has become.  Prev   *)
(* of the head is a reference made of nullptr: its test may be optimised   *)
(* away, and then the word behind nullptr is read.                         *)
(***************************************************************************)
PrevFreed(c) == IF PrevOf(c) = Null THEN BOOLEAN ELSE FreedBit(mem[PrevOf(c) + 1])

(***************************************************************************)
(* The chunk is merged with a freed one before and behind it.  Nobody      *)
(* tells the chunk behind the merged one, whose Prev goes stale: the       *)
(* header it points at may say freed and be no chunk any more.  What is    *)
(* merged then keeps the chunk in use for ever.  Outside the heap the      *)
(* merge strays and is followed no further.                                *)
(***************************************************************************)
Deallocate(c) ==
  \E back \in PrevFreed(c), ahead \in NextFreed(c) :
    LET begin == IF back THEN PrevOf(c) ELSE c
        end   == IF ahead THEN NextOf(c) ELSE c
    IN  /\ spoiled' = CASE ~InHeap(begin) \/ ~InHeap(end) -> "strayed"
                        [] InHeap(begin) /\ InHeap(end) /\ begin \notin {c, Before(c)} -> "stale"
                        [] OTHER -> spoiled
        /\ mem' = IF InHeap(begin) /\ InHeap(end) THEN Merged(begin, end) ELSE mem

free(i) ==
  /\ Deallocate(live[i].at)
  /\ live' = RemoveAt(live, i)
  /\ lifo' = (lifo /\ i = Len(live))

\* free(NULL), which C allows, frees a chunk that begins below address zero.
FreeNull ==
  /\ spoiled' = "strayed"
  /\ UNCHANGED <<mem, live, lifo>>

AllocInit ==
  /\ mem = [w \in Address |-> CASE w = head     -> Pointer(Null)
                                [] w = head + 1 -> Meta(HeapSize - Header, TRUE)
                                [] OTHER        -> UserData]
  /\ live = <<>>
  /\ lifo = TRUE
  /\ spoiled = "no"

\* A heap that is spoiled is followed no further.
AllocNext ==
  /\ spoiled = "no"
  /\ \/ Len(live) < MaxLive /\ \E bytes \in Requests : Allocate(bytes)
     \/ \E i \in DOMAIN live : free(i)
     \/ FreeNull

AllocSpec == AllocInit /\ [][AllocNext]_allocVars

-----------------------------------------------------------------------------
InUse == {c \in Chunks : ~IsFreed(c)}

(***************************************************************************)
(* Until it is spoiled, by an exhausted heap, a rest without room for a    *)
(* header, or a merge with what is no chunk, the heap is whole: the chunks *)
(* from the head on fill it to its last word, and those in use are exactly *)
(* the blocks that are handed out, each once and of the size asked for.    *)
(* So no two callers share a word and nothing leaks, whatever headers lie  *)
(* about.                                                                  *)
(***************************************************************************)
HeapIntact ==
  spoiled = "no" =>
    /\ \A c \in Chunks :
         /\ mem[c].word = "prev" /\ mem[c + 1].word = "size"
         /\ NextOf(c) \in Chunks \cup {HeapSize}
    /\ InUse = {live[i].at : i \in DOMAIN live}
    /\ \A i, j \in DOMAIN live : live[i].at = live[j].at => i = j
    /\ \A i \in DOMAIN live : SizeOf(live[i].at) = live[i].size

(***************************************************************************)
(* Callers that free in the reverse order of their allocations get the     *)
(* whole heap back: the blocks in use follow each other from the head on,  *)
(* and there is at most one other chunk, which lies behind them.  And they *)
(* never meet a stale Prev; in other orders one may.                       *)
(***************************************************************************)
LifoRecovers ==
  /\ lifo => spoiled # "stale"
  /\ spoiled = "no" /\ lifo =>
       /\ \A i \in DOMAIN live :
            live[i].at = IF i = 1 THEN head ELSE NextOf(live[i - 1].at)
       /\ \A c, d \in Chunks \ InUse : c = d
=============================================================================
