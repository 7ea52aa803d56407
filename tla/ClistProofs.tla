----------------------------- MODULE ClistProofs -----------------------------
(****************************************************************************)
(* The arena of immutil.c is safe for every chunk capacity, every set of    *)
(* request sizes and every number of chunks and blocks.                     *)
(*                                                                          *)
(* BlocksInBounds and BlocksDisjoint are not inductive: they speak of the   *)
(* bytes asked for, and say nothing of the bytes a chunk still has to give. *)
(* The strengthening adds the accounting of the rounded sizes (every block  *)
(* ends below the used part of its chunk, later blocks lie above earlier    *)
(* ones) and the shape of the chain (it starts at memref and links exactly  *)
(* the allocated chunks).                                                   *)
(****************************************************************************)
EXTENDS Clist, SequenceTheorems, TLAPS

Accounted ==
  /\ \A c \in DOMAIN chunk : chunk[c].free <= chunk[c].capacity
  /\ \A i \in 1..Len(block) :
       /\ block[i].chunk \in DOMAIN chunk
       /\ End(block[i]) <= Used(block[i].chunk)

Stacked ==
  \A i, j \in 1..Len(block) :
    i < j /\ block[i].chunk = block[j].chunk => End(block[i]) <= block[j].off

Linked ==
  IF memref = NoChunk
  THEN chain = <<>> /\ DOMAIN chunk = {} /\ block = <<>>
  ELSE /\ Len(chain) > 0
       /\ chain[1] = memref
       /\ DOMAIN chunk = {chain[i] : i \in 1..Len(chain)}

IInv == ArenaTypeOK /\ Accounted /\ Stacked /\ Linked

----------------------------------------------------------------------------
\* Rounding never loses a byte of the request.
LEMMA RoundUpGeq ==
  ASSUME NEW size \in Nat
  PROVE  /\ RoundUp(size) \in Nat
         /\ RoundUp(size) >= size
BY DEF RoundUp

\* When the chain starts at memref the walk visits all of it.
LEMMA WalkAll ==
  ASSUME ArenaTypeOK, Linked
  PROVE  Reachable = DOMAIN chunk
<1>1. CASE memref = NoChunk
  BY <1>1 DEF Linked, Reachable, Walk
<1>2. CASE memref # NoChunk
  <2>1. Len(chain) \in Nat /\ Len(chain) > 0 /\ chain[1] = memref
    BY <1>2 DEF Linked, ArenaTypeOK
  <2>2. \A j \in 1..Len(chain) : 1 \in 1..j
    BY <2>1
  <2>3. Walk = 1..Len(chain)
    BY <2>1, <2>2 DEF Walk
  <2>4. QED
    BY <1>2, <2>3 DEF Reachable, Linked
<1>3. QED
  BY <1>1, <1>2

\* The initial state satisfies the invariant.
LEMMA InitIInv == ArenaInit => IInv
BY DEF ArenaInit, IInv, ArenaTypeOK, ChunkRec, BlockRec, Accounted, Stacked, Linked

\* A list that is created holds one empty chunk.
LEMMA CreateStep == IInv /\ CreateClist => IInv'
<1> SUFFICES ASSUME IInv, CreateClist PROVE IInv'
  OBVIOUS
<1> USE ClistAssumption DEF IInv, ArenaTypeOK, ChunkRec, BlockRec
<1>1. PICK c \in ChunkId :
        NewChunk(c, CHUNK, CHUNK) /\ chain' = <<c>> /\ memref' = c
  BY DEF CreateClist
<1>2. memref = NoChunk /\ block' = block /\ block = <<>> /\ DOMAIN chunk = {}
  BY DEF CreateClist, Linked
<1>3. chunk' = [x \in {c} |-> [capacity |-> CHUNK, free |-> CHUNK]]
  BY <1>1, <1>2 DEF NewChunk
<1>4. ArenaTypeOK'
  BY <1>1, <1>2, <1>3
<1>5. Accounted' /\ Stacked'
  BY <1>2, <1>3 DEF Accounted, Stacked
<1>6. Linked'
  BY <1>1, <1>3 DEF Linked
<1>7. QED
  BY <1>4, <1>5, <1>6

\* What a state that satisfies the invariant says of single chunks and blocks.
LEMMA Elements ==
  ASSUME IInv
  PROVE  /\ Len(block) \in Nat
         /\ \A d \in DOMAIN chunk : /\ d \in ChunkId
                                    /\ chunk[d].capacity \in Nat
                                    /\ chunk[d].free \in Nat
                                    /\ chunk[d].free <= chunk[d].capacity
         /\ \A i \in 1..Len(block) : /\ block[i].chunk \in DOMAIN chunk
                                     /\ block[i].off \in Nat
                                     /\ block[i].asked \in Nat
                                     /\ RoundUp(block[i].asked) \in Nat
                                     /\ RoundUp(block[i].asked) >= block[i].asked
                                     /\ End(block[i]) <= Used(block[i].chunk)
<1>1. Len(block) \in Nat /\ \A i \in 1..Len(block) : block[i] \in BlockRec
  BY DEF IInv, ArenaTypeOK
<1>2. \A i \in 1..Len(block) : block[i].off \in Nat /\ block[i].asked \in Nat
  BY <1>1 DEF BlockRec
<1>3. \A d \in DOMAIN chunk : chunk[d] \in ChunkRec /\ d \in ChunkId
  BY DEF IInv, ArenaTypeOK
<1>4. QED
  BY <1>1, <1>2, <1>3, RoundUpGeq DEF IInv, Accounted, ChunkRec

\* Handing out a block only appends to the list of blocks.
LEMMA HandAppends ==
  ASSUME IInv, NEW c \in ChunkId, NEW off \in Nat, NEW size \in Nat,
         Hand(c, off, size)
  PROVE  /\ block' \in Seq(BlockRec)
         /\ Len(block') = Len(block) + 1
         /\ block'[Len(block) + 1] = [chunk |-> c, off |-> off, asked |-> size]
         /\ \A i \in 1..Len(block) : block'[i] = block[i]
         /\ \A i \in 1..Len(block') : i = Len(block) + 1 \/ i \in 1..Len(block)
<1> DEFINE new == [chunk |-> c, off |-> off, asked |-> size]
<1>1. block \in Seq(BlockRec) /\ new \in BlockRec /\ block' = Append(block, new)
  BY DEF IInv, ArenaTypeOK, Hand, BlockRec
<1> HIDE DEF new
<1>2. /\ Append(block, new) \in Seq(BlockRec)
      /\ Len(Append(block, new)) = Len(block) + 1
      /\ \A i \in 1..Len(block) : Append(block, new)[i] = block[i]
      /\ Append(block, new)[Len(block) + 1] = new
  BY <1>1, AppendProperties
<1>3. Len(block) \in Nat
  BY <1>1, LenProperties
<1>4. QED
  BY <1>1, <1>2, <1>3 DEF new

\* A chunk linked behind the first one joins the chain, and nothing leaves it.
LEMMA LinkKeepsChain ==
  ASSUME IInv, memref # NoChunk, NEW c \in ChunkId, chain' = LinkBehindFirst(c)
  PROVE  /\ chain' \in Seq(ChunkId)
         /\ Len(chain') > 0
         /\ chain'[1] = memref
         /\ {chain'[i] : i \in 1..Len(chain')} = DOMAIN chunk \cup {c}
<1>1. /\ chain \in Seq(ChunkId) /\ chain # <<>>
      /\ Len(chain) \in Nat /\ Len(chain) > 0
      /\ chain[1] = memref /\ memref \in ChunkId
      /\ DOMAIN chunk = {chain[i] : i \in 1..Len(chain)}
  BY DEF IInv, ArenaTypeOK, Linked
<1>2. /\ Tail(chain) \in Seq(ChunkId)
      /\ Len(Tail(chain)) = Len(chain) - 1
      /\ \A i \in 1..Len(Tail(chain)) : Tail(chain)[i] = chain[i + 1]
  BY <1>1, HeadTailProperties
<1>3. <<memref, c>> \in Seq(ChunkId) /\ Len(<<memref, c>>) = 2
  BY <1>1
<1>4. /\ chain' \in Seq(ChunkId)
      /\ Len(chain') = 2 + Len(Tail(chain))
      /\ \A i \in 1..(2 + Len(Tail(chain))) :
           chain'[i] = IF i <= 2 THEN <<memref, c>>[i] ELSE Tail(chain)[i - 2]
  <2>1. chain' = <<memref, c>> \o Tail(chain)
    BY DEF LinkBehindFirst
  <2>2. QED
    BY <1>2, <1>3, <2>1, ConcatProperties
<1>5. /\ Len(chain') = Len(chain) + 1
      /\ chain'[1] = memref
      /\ chain'[2] = c
      /\ \A i \in 2..Len(chain) : chain'[i + 1] = chain[i]
  <2>1. \A i \in 2..Len(chain) :
          /\ i + 1 \in 1..(2 + Len(Tail(chain)))
          /\ ~(i + 1 <= 2)
          /\ i - 1 \in 1..Len(Tail(chain))
          /\ (i + 1) - 2 = i - 1 /\ (i - 1) + 1 = i
    BY <1>1, <1>2
  <2>2. QED
    BY <1>1, <1>2, <1>4, <2>1
<1>6. ASSUME NEW i \in 1..Len(chain')
      PROVE  chain'[i] \in {chain[k] : k \in 1..Len(chain)} \cup {c}
  <2>1. i = 1 \/ i = 2 \/ (i - 1 \in 2..Len(chain) /\ i = (i - 1) + 1)
    BY <1>1, <1>5
  <2>2. 1 \in 1..Len(chain)
    BY <1>1
  <2>3. \A k \in 2..Len(chain) : k \in 1..Len(chain)
    BY <1>1
  <2>4. QED
    BY <1>1, <1>5, <2>1, <2>2, <2>3
<1>7. ASSUME NEW i \in 1..Len(chain)
      PROVE  chain[i] \in {chain'[k] : k \in 1..Len(chain')}
  <2>1. i = 1 \/ (i \in 2..Len(chain) /\ i + 1 \in 1..Len(chain'))
    BY <1>1, <1>5
  <2>2. 1 \in 1..Len(chain')
    BY <1>1, <1>5
  <2>3. QED
    BY <1>1, <1>5, <2>1, <2>2
<1>8. 2 \in 1..Len(chain')
  BY <1>1, <1>5
<1>9. QED
  BY <1>1, <1>4, <1>5, <1>6, <1>7, <1>8

\* A block at the bottom of a chunk that was not there before.
LEMMA NewChunkStep ==
  ASSUME IInv, memref # NoChunk, NEW c \in ChunkId, NEW size \in Request,
         NEW cap \in Nat, NEW free \in Nat,
         free + RoundUp(size) <= cap,
         NewChunk(c, cap, free), chain' = LinkBehindFirst(c),
         Hand(c, 0, size), memref' = memref
  PROVE  IInv'
<1>1. size \in Nat /\ RoundUp(size) \in Nat
  BY ClistAssumption, RoundUpGeq
<1>2. /\ c \notin DOMAIN chunk
      /\ DOMAIN chunk' = DOMAIN chunk \cup {c}
      /\ chunk'[c] = [capacity |-> cap, free |-> free]
      /\ \A d \in DOMAIN chunk : chunk'[d] = chunk[d] /\ d # c
      /\ chunk' \in [DOMAIN chunk' -> ChunkRec]
      /\ DOMAIN chunk' \subseteq ChunkId
  BY DEF NewChunk, IInv, ArenaTypeOK, ChunkRec
<1>3. /\ block' \in Seq(BlockRec)
      /\ Len(block) \in Nat
      /\ Len(block') = Len(block) + 1
      /\ block'[Len(block) + 1] = [chunk |-> c, off |-> 0, asked |-> size]
      /\ \A i \in 1..Len(block) : block'[i] = block[i]
      /\ \A i \in 1..Len(block') : i = Len(block) + 1 \/ i \in 1..Len(block)
  BY <1>1, HandAppends, Elements
<1>4. ArenaTypeOK'
  BY <1>2, <1>3, LinkKeepsChain DEF IInv, ArenaTypeOK
<1>5. Accounted'
  <2>1. \A d \in DOMAIN chunk' : chunk'[d].free <= chunk'[d].capacity
    BY <1>1, <1>2, Elements
  <2>2. ASSUME NEW i \in 1..Len(block')
        PROVE  /\ block'[i].chunk \in DOMAIN chunk'
               /\ End(block'[i]) <= (Used(block[i].chunk))'
    <3>1. CASE i = Len(block) + 1
      <4>1. /\ block'[i].chunk = c /\ block'[i].off = 0 /\ block'[i].asked = size
        BY <1>3, <3>1
      <4>2. chunk'[c].capacity = cap /\ chunk'[c].free = free
        BY <1>2
      <4>3. QED
        BY <1>1, <1>2, <4>1, <4>2 DEF End, Used
    <3>2. CASE i \in 1..Len(block)
      BY <1>2, <1>3, <3>2, Elements DEF End, Used
    <3>3. QED
      BY <1>3, <3>1, <3>2
  <2>3. QED
    BY <2>1, <2>2 DEF Accounted, End
<1>6. Stacked'
  <2>1. SUFFICES ASSUME NEW i \in 1..Len(block'), NEW j \in 1..Len(block'),
                        i < j, block'[i].chunk = block'[j].chunk
                 PROVE  End(block'[i]) <= block'[j].off
    BY DEF Stacked, End
  <2>2. i \in 1..Len(block)
    BY <1>3, <2>1
  <2>3. block'[i] = block[i] /\ block[i].chunk # c
    BY <1>2, <1>3, <2>2, Elements
  <2>4. j \in 1..Len(block) /\ block'[j] = block[j]
    BY <1>3, <2>1, <2>3
  <2>5. QED
    BY <2>1, <2>2, <2>3, <2>4 DEF IInv, Stacked
<1>7. Linked'
  BY <1>2, LinkKeepsChain DEF Linked
<1>8. QED
  BY <1>4, <1>5, <1>6, <1>7 DEF IInv

\* A block cut from a chunk of the list that has room for it.
LEMMA FitStep == ASSUME IInv, NEW size \in Request, MallocFit(size) PROVE IInv'
<1> DEFINE r == RoundUp(size)
<1>1. size \in Nat /\ r \in Nat
  BY ClistAssumption, RoundUpGeq
<1>2. PICK c \in DOMAIN chunk :
        /\ FirstFit(r, c)
        /\ chunk' = [chunk EXCEPT ![c].free = @ - r]
        /\ Hand(c, Used(c), size)
  BY DEF MallocFit
<1>3. chain' = chain /\ memref' = memref /\ memref # NoChunk
  BY DEF MallocFit, CanMalloc
<1>4. /\ c \in ChunkId /\ chunk[c].capacity \in Nat /\ chunk[c].free \in Nat
      /\ chunk[c].free <= chunk[c].capacity /\ chunk[c].free >= r
      /\ Used(c) \in Nat
  BY <1>1, <1>2, Elements DEF FirstFit, Used
<1> HIDE DEF r
<1>5. /\ DOMAIN chunk' = DOMAIN chunk
      /\ chunk'[c].capacity = chunk[c].capacity
      /\ chunk'[c].free = chunk[c].free - r
      /\ chunk'[c] \in ChunkRec
      /\ \A d \in DOMAIN chunk : d # c => chunk'[d] = chunk[d]
  <2>1. chunk[c] \in ChunkRec
    BY DEF IInv, ArenaTypeOK
  <2>2. chunk'[c] = [chunk[c] EXCEPT !.free = @ - r]
    BY <1>2
  <2>3. QED
    BY <1>1, <1>2, <1>4, <2>1, <2>2 DEF ChunkRec
<1>6. chunk' \in [DOMAIN chunk' -> ChunkRec] /\ DOMAIN chunk' \subseteq ChunkId
  <2>1. chunk' = [d \in DOMAIN chunk |-> chunk'[d]]
    BY <1>2
  <2>2. \A d \in DOMAIN chunk : chunk'[d] \in ChunkRec
    BY <1>5 DEF IInv, ArenaTypeOK
  <2>3. QED
    BY <1>5, <2>1, <2>2 DEF IInv, ArenaTypeOK
<1>7. /\ block' \in Seq(BlockRec)
      /\ Len(block) \in Nat
      /\ Len(block') = Len(block) + 1
      /\ block'[Len(block) + 1] = [chunk |-> c, off |-> Used(c), asked |-> size]
      /\ \A i \in 1..Len(block) : block'[i] = block[i]
      /\ \A i \in 1..Len(block') : i = Len(block) + 1 \/ i \in 1..Len(block)
  BY <1>1, <1>2, <1>4, HandAppends, Elements
<1>8. ArenaTypeOK'
  BY <1>3, <1>6, <1>7 DEF IInv, ArenaTypeOK
<1>9. Accounted'
  <2>1. \A d \in DOMAIN chunk' : chunk'[d].free <= chunk'[d].capacity
    BY <1>1, <1>4, <1>5, Elements
  <2>2. ASSUME NEW i \in 1..Len(block')
        PROVE  /\ block'[i].chunk \in DOMAIN chunk'
               /\ End(block'[i]) <= (Used(block[i].chunk))'
    <3>1. CASE i = Len(block) + 1
      <4>1. /\ block'[i].chunk = c /\ block'[i].off = Used(c)
            /\ block'[i].asked = size
        BY <1>7, <3>1
      <4>2. QED
        BY <1>1, <1>4, <1>5, <4>1 DEF End, Used, r
    <3>2. CASE i \in 1..Len(block)
      <4>1. /\ block'[i] = block[i] /\ block[i].chunk \in DOMAIN chunk
            /\ End(block[i]) <= Used(block[i].chunk) /\ End(block[i]) \in Nat
        BY <1>7, <3>2, Elements DEF End
      <4>2. CASE block[i].chunk = c
        BY <1>1, <1>4, <1>5, <4>1, <4>2 DEF End, Used
      <4>3. CASE block[i].chunk # c
        BY <1>5, <4>1, <4>3 DEF End, Used
      <4>4. QED
        BY <4>2, <4>3
    <3>3. QED
      BY <1>7, <3>1, <3>2
  <2>3. QED
    BY <2>1, <2>2 DEF Accounted, End
<1>10. Stacked'
  <2>1. SUFFICES ASSUME NEW i \in 1..Len(block'), NEW j \in 1..Len(block'),
                        i < j, block'[i].chunk = block'[j].chunk
                 PROVE  End(block'[i]) <= block'[j].off
    BY DEF Stacked, End
  <2>2. i \in 1..Len(block) /\ block'[i] = block[i]
    BY <1>7, <2>1
  <2>3. CASE j = Len(block) + 1
    <3>1. block'[j].off = Used(c) /\ block'[j].chunk = c
      BY <1>7, <2>3
    <3>2. QED
      BY <2>1, <2>2, <3>1, Elements
  <2>4. CASE j \in 1..Len(block)
    BY <1>7, <2>1, <2>2, <2>4 DEF IInv, Stacked
  <2>5. QED
    BY <1>7, <2>3, <2>4
<1>11. Linked'
  BY <1>3, <1>5 DEF IInv, Linked
<1>12. QED
  BY <1>8, <1>9, <1>10, <1>11 DEF IInv

\* deleteClist frees every chunk, because all of them hang behind memref.
LEMMA DeleteStep == ASSUME IInv, DeleteClist PROVE IInv'
<1>1. Reachable = DOMAIN chunk
  BY WalkAll DEF IInv
<1>2. /\ DOMAIN chunk' = {} /\ chunk' \in [{} -> ChunkRec]
      /\ chain' = <<>> /\ memref' = NoChunk /\ block' = <<>>
  BY <1>1 DEF DeleteClist
<1>3. QED
  BY <1>2 DEF IInv, ArenaTypeOK, Accounted, Stacked, Linked

\* Every step preserves the strengthened invariant.
LEMMA NextIInv == IInv /\ [ArenaNext]_arena => IInv'
<1> SUFFICES ASSUME IInv, [ArenaNext]_arena PROVE IInv'
  OBVIOUS
<1>1. CASE CreateClist
  BY <1>1, CreateStep
<1>2. ASSUME NEW size \in Request, MallocLarge(size)
      PROVE  IInv'
  <2>1. PICK c \in ChunkId : /\ NewChunk(c, RoundUp(size), 0)
                             /\ chain' = LinkBehindFirst(c)
                             /\ Hand(c, 0, size)
    BY <1>2 DEF MallocLarge
  <2>2. memref' = memref /\ memref # NoChunk
    BY <1>2 DEF MallocLarge, CanMalloc
  <2>3. RoundUp(size) \in Nat /\ 0 + RoundUp(size) <= RoundUp(size)
    BY ClistAssumption, RoundUpGeq
  <2>4. QED
    BY <2>1, <2>2, <2>3, NewChunkStep
<1>3. ASSUME NEW size \in Request, MallocFit(size)
      PROVE  IInv'
  BY <1>3, FitStep
<1>4. ASSUME NEW size \in Request, MallocNew(size)
      PROVE  IInv'
  <2>1. PICK c \in ChunkId : /\ NewChunk(c, CHUNK, CHUNK - RoundUp(size))
                             /\ chain' = LinkBehindFirst(c)
                             /\ Hand(c, 0, size)
    BY <1>4 DEF MallocNew
  <2>2. memref' = memref /\ memref # NoChunk
    BY <1>4 DEF MallocNew, CanMalloc
  <2>3. RoundUp(size) \in Nat /\ RoundUp(size) <= CHUNK /\ CHUNK \in Nat
    BY <1>4, ClistAssumption, RoundUpGeq DEF MallocNew
  <2>4. CHUNK - RoundUp(size) \in Nat
        /\ (CHUNK - RoundUp(size)) + RoundUp(size) <= CHUNK
    BY <2>3
  <2>5. QED
    BY <2>1, <2>2, <2>3, <2>4, NewChunkStep
<1>5. CASE DeleteClist
  BY <1>5, DeleteStep
<1>6. CASE UNCHANGED arena
  BY <1>6 DEF arena, IInv, ArenaTypeOK, Accounted, Stacked, Linked, End, Used
<1>7. QED
  BY <1>1, <1>2, <1>3, <1>4, <1>5, <1>6 DEF ArenaNext

----------------------------------------------------------------------------
\* The strengthening holds in every reachable state.
THEOREM Invariance == ArenaSpec => []IInv
BY InitIInv, NextIInv, PTL DEF ArenaSpec

(****************************************************************************)
(* Whatever sizes are asked for, in whatever order, the bytes a caller of   *)
(* clistMalloc may write lie in an allocated chunk, below the part that is  *)
(* still to be handed out.                                                  *)
(****************************************************************************)
THEOREM InBounds == ArenaSpec => []BlocksInBounds
<1>1. IInv => BlocksInBounds
  <2>1. SUFFICES ASSUME IInv, NEW i \in 1..Len(block)
                 PROVE  BlockInBounds(block[i])
    BY DEF BlocksInBounds
  <2> DEFINE b == block[i]
  <2>2. /\ b.chunk \in DOMAIN chunk
        /\ b.off \in Nat
        /\ b.asked \in Nat
        /\ RoundUp(b.asked) \in Nat
        /\ RoundUp(b.asked) >= b.asked
        /\ End(b) <= Used(b.chunk)
    BY <2>1, Elements
  <2>3. /\ chunk[b.chunk].capacity \in Nat
        /\ chunk[b.chunk].free \in Nat
    BY <2>1, <2>2, Elements
  <2>4. b.off + b.asked <= End(b) /\ End(b) \in Nat /\ Used(b.chunk) \in Int
    BY <2>2, <2>3 DEF End, Used
  <2>5. b.off + b.asked <= Used(b.chunk)
    BY <2>2, <2>4
  <2>6. Used(b.chunk) <= chunk[b.chunk].capacity
    BY <2>3 DEF Used
  <2>7. QED
    BY <2>2, <2>5, <2>6 DEF BlockInBounds
<1>2. QED
  BY <1>1, Invariance, PTL

(****************************************************************************)
(* Two blocks of one CCB object never share a byte.                         *)
(****************************************************************************)
THEOREM Disjoint == ArenaSpec => []BlocksDisjoint
<1>1. IInv => BlocksDisjoint
  <2>1. SUFFICES ASSUME IInv, NEW i \in 1..Len(block), NEW j \in 1..Len(block),
                        i < j, block[i].chunk = block[j].chunk
                 PROVE  block[i].off + block[i].asked <= block[j].off
    BY DEF BlocksDisjoint, Apart
  <2>2. End(block[i]) <= block[j].off
    BY <2>1 DEF IInv, Stacked
  <2>3. QED
    BY <2>1, <2>2, Elements DEF End
<1>2. QED
  BY <1>1, Invariance, PTL

(****************************************************************************)
(* Every allocated chunk is reachable from memref, and none is left after   *)
(* deleteClist: the arena itself leaks nothing.                             *)
(****************************************************************************)
THEOREM NoChunkLost == ArenaSpec => []FreedTogether
<1>1. IInv => FreedTogether
  BY WalkAll DEF IInv, FreedTogether
<1>2. QED
  BY <1>1, Invariance, PTL

\* Type correctness.
THEOREM TypeCorrect == ArenaSpec => []ArenaTypeOK
<1>1. IInv => ArenaTypeOK
  BY DEF IInv
<1>2. QED
  BY <1>1, Invariance, PTL

=============================================================================
