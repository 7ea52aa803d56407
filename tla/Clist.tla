-------------------------------- MODULE Clist --------------------------------
(****************************************************************************)
(* The chunk arena of immutil.c.  A CCB object keeps all it stores in one   *)
(* linked list of chunks (struct Chunk): clistMalloc cuts blocks out of the *)
(* chunks, nothing is freed on its own, and deleteClist frees the list as a *)
(* whole.  The owner remembers only the first chunk (ccb->memref), so a     *)
(* chunk that is not linked behind that one is lost for ever.               *)
(*                                                                          *)
(* A block is recorded with the size the caller asked for, not with the     *)
(* rounded size: those are the bytes the caller goes on to write.           *)
(****************************************************************************)
EXTENDS Integers, Sequences

CONSTANTS
  CHUNK,      \* the capacity of an ordinary chunk (4000 in immutil.c)
  Request,    \* the sizes clistMalloc is asked for
  ChunkId,    \* the addresses malloc may return for a chunk: bounds the heap
  MaxBlocks,  \* bound: blocks cut from one list before it is deleted
  NoChunk     \* the null pointer

ASSUME ClistAssumption ==
  /\ CHUNK \in Nat
  /\ Request \subseteq Nat
  /\ NoChunk \notin ChunkId
  /\ MaxBlocks \in Nat

VARIABLES
  chunk,      \* the allocated chunks: address -> capacity and free
  chain,      \* the addresses in the order of the next pointers
  memref,     \* the first chunk, as the owner of the list remembers it
  block       \* the blocks handed out, oldest first

arena == <<chunk, chain, memref, block>>

ChunkRec == [capacity : Nat, free : Nat]
BlockRec == [chunk : ChunkId, off : Nat, asked : Nat]

(****************************************************************************)
(* size = (size + 3) & ~3                                                   *)
(****************************************************************************)
RoundDown(size) == (size \div 4) * 4                \* what a mutant does
RoundUp(size) == ((size + 3) \div 4) * 4

Used(c) == chunk[c].capacity - chunk[c].free

\* The bytes of a block that the arena keeps for it.
End(b) == b.off + RoundUp(b.asked)

\* The positions in the chain that a walk starting at memref visits.
Walk == {j \in 1..Len(chain) : \E i \in 1..j : chain[i] = memref}
Reachable == {chain[j] : j \in Walk}

\* The first chunk of the walk that has room.
FirstFit(size, c) ==
  \E j \in Walk :
    /\ chain[j] = c
    /\ chunk[c].free >= size
    /\ \A i \in Walk : i < j => chunk[chain[i]].free < size
NoFit(size) == \A c \in Reachable : chunk[c].free < size

(****************************************************************************)
(* newChunk, with the adjustment its caller makes to chunk->free            *)
(****************************************************************************)
NewChunk(c, size, free) ==
  /\ c \in ChunkId \ DOMAIN chunk
  /\ chunk' = [x \in DOMAIN chunk \cup {c} |->
                 IF x = c THEN [capacity |-> size, free |-> free] ELSE chunk[x]]

LinkInFront(c) == <<c>> \o chain                            \* what a mutant does
\* chunk->next = clist->next; clist->next = chunk
LinkBehindFirst(c) == <<memref, c>> \o Tail(chain)

Hand(c, off, size) ==
  block' = Append(block, [chunk |-> c, off |-> off, asked |-> size])

----------------------------------------------------------------------------
ArenaInit ==
  /\ chunk = [c \in {} |-> [capacity |-> 0, free |-> 0]]
  /\ chain = <<>>
  /\ memref = NoChunk
  /\ block = <<>>

(****************************************************************************)
(* newChunk(NULL, CHUNK) as ccbutil_createCcbData calls it.                 *)
(****************************************************************************)
CreateClist ==
  /\ memref = NoChunk
  /\ \E c \in ChunkId :
       /\ NewChunk(c, CHUNK, CHUNK)
       /\ chain' = <<c>>
       /\ memref' = c
  /\ UNCHANGED block

CanMalloc == memref # NoChunk /\ Len(block) < MaxBlocks

(****************************************************************************)
(* The three ways through clistMalloc.                                      *)
(****************************************************************************)
\* What a mutant does: the chunk is not marked full.
MallocLargeOpen(size) ==
  /\ CanMalloc
  /\ RoundUp(size) > CHUNK
  /\ \E c \in ChunkId :
       /\ NewChunk(c, RoundUp(size), RoundUp(size))
       /\ chain' = LinkBehindFirst(c)
       /\ Hand(c, 0, size)
  /\ UNCHANGED memref

\* size > CHUNK: a chunk of its own, marked full.
MallocLarge(size) ==
  /\ CanMalloc
  /\ RoundUp(size) > CHUNK
  /\ \E c \in ChunkId :
       /\ NewChunk(c, RoundUp(size), 0)
       /\ chain' = LinkBehindFirst(c)
       /\ Hand(c, 0, size)
  /\ UNCHANGED memref

\* chunk->free >= size for some chunk of the list.
MallocFit(size) ==
  /\ CanMalloc
  /\ RoundUp(size) <= CHUNK
  /\ \E c \in DOMAIN chunk :
       /\ FirstFit(RoundUp(size), c)
       /\ chunk' = [chunk EXCEPT ![c].free = @ - RoundUp(size)]
       /\ Hand(c, Used(c), size)
  /\ UNCHANGED <<chain, memref>>

\* No chunk has room: one more ordinary chunk.
MallocNew(size) ==
  /\ CanMalloc
  /\ RoundUp(size) <= CHUNK
  /\ NoFit(RoundUp(size))
  /\ \E c \in ChunkId :
       /\ NewChunk(c, CHUNK, CHUNK - RoundUp(size))
       /\ chain' = LinkBehindFirst(c)
       /\ Hand(c, 0, size)
  /\ UNCHANGED memref

(****************************************************************************)
(* deleteClist(ccb->memref)                                                 *)
(****************************************************************************)
DeleteClist ==
  /\ memref # NoChunk
  /\ chunk' = [c \in DOMAIN chunk \ Reachable |-> chunk[c]]
  /\ chain' = <<>>
  /\ memref' = NoChunk
  /\ block' = <<>>

ArenaNext ==
  \/ CreateClist
  \/ \E size \in Request : MallocLarge(size) \/ MallocFit(size) \/ MallocNew(size)
  \/ DeleteClist

ArenaSpec == ArenaInit /\ [][ArenaNext]_arena

----------------------------------------------------------------------------
ArenaTypeOK ==
  /\ DOMAIN chunk \subseteq ChunkId
  /\ chunk \in [DOMAIN chunk -> ChunkRec]
  /\ chain \in Seq(ChunkId)
  /\ memref \in ChunkId \cup {NoChunk}
  /\ block \in Seq(BlockRec)

(****************************************************************************)
(* What clistMalloc returns can be written up to the size asked for: the    *)
(* bytes lie inside a chunk that is still allocated, and below the part of  *)
(* it that later calls hand out.                                            *)
(****************************************************************************)
BlockInBounds(b) ==
  /\ b.chunk \in DOMAIN chunk
  /\ b.off + b.asked <= Used(b.chunk)
  /\ Used(b.chunk) <= chunk[b.chunk].capacity
BlocksInBounds == \A i \in 1..Len(block) : BlockInBounds(block[i])

(****************************************************************************)
(* Two blocks never share a byte, whatever was asked for and in whatever    *)
(* order: writing one stored operation cannot change another.               *)
(****************************************************************************)
Apart(a, b) ==
  a.chunk = b.chunk => a.off + a.asked <= b.off \/ b.off + b.asked <= a.off
BlocksDisjoint ==
  \A i, j \in 1..Len(block) : i < j => Apart(block[i], block[j])

(****************************************************************************)
(* Nothing is lost: every allocated chunk can be reached from memref, and   *)
(* after deleteClist no chunk is left.                                      *)
(****************************************************************************)
FreedTogether == DOMAIN chunk = Reachable

=============================================================================
