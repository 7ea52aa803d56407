-------------------------------- MODULE MemGet --------------------------------
(****************************************************************************)
(* The memory handling of immombin.c: a down-call to IMM gets the memory of *)
(* its arguments from a list of chunks, and memfreeall gives all of it back *)
(* at once.  A chunk is cut from the front; memget looks at the first chunk *)
(* only.  Sizes are unsigned, and so is what a chunk has left.              *)
(****************************************************************************)
EXTENDS Integers, Sequences

CONSTANTS
  MEM_MINSIZE,
  Size,       \* the sizes that are asked for
  Word        \* unsigned arithmetic is modulo Word

ASSUME MemGetAssumption ==
  /\ MEM_MINSIZE \in Nat /\ Word \in Nat /\ MEM_MINSIZE < Word
  /\ Size \subseteq 1..(Word - 1)

VARIABLES
  memChunk,   \* the chunks, the newest first
  asked       \* history: bytes asked for since the last memfreeall

mem == <<memChunk, asked>>
Chunk == [size : Nat, used : Nat]

NewChunk(minsize) ==
  [size |-> IF minsize < MEM_MINSIZE THEN MEM_MINSIZE ELSE minsize, used |-> 0]

\* memChunk->size - memChunk->used > size
HasRoom(n) == (Head(memChunk).size - Head(memChunk).used) % Word > n

Chunks(n) ==
  IF memChunk = <<>> \/ HasRoom(n) THEN <<NewChunk(n)>> \o memChunk ELSE memChunk

MemGet(n) ==
  /\ memChunk' = [Chunks(n) EXCEPT ![1].used = (@ + n) % Word]
  /\ asked' = asked + n

MemFreeAll == memChunk' = <<>> /\ asked' = 0

MemInit == memChunk = <<>> /\ asked = 0

=============================================================================
