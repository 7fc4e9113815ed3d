----------------------------- MODULE FileCipher -----------------------------
(***************************************************************************)
(* The format of an encrypted file: a header with the length of the        *)
(* plaintext, then sealed chunks.  A sealed chunk is as long as its data   *)
(* and its tag, and every unit of it carries what was sealed, so that a    *)
(* block of units opens only if it is exactly one sealed chunk, sealed     *)
(* under the position and the last-flag the reader expects (AES-GCM with   *)
(* build_nonce and chunk_aad).                                             *)
(***************************************************************************)
EXTENDS Sequences, Naturals

CONSTANTS
  Chunk,     \* PLAINTEXT_CHUNK
  Tag        \* TAG_BYTES

ASSUME ChunkAssumption == Chunk \in Nat \ {0} /\ Tag \in Nat \ {0}

\* read_full: at most n units, fewer only at the end of the file.
ReadFull(s, at, n) == SubSeq(s, at + 1, IF at + n < Len(s) THEN at + n ELSE Len(s))

Header(total) == <<[at |-> 0, total |-> total]>>

Seal(idx, last, data) ==
  [k \in 1..(Len(data) + Tag) |->
     [at |-> k, idx |-> idx, last |-> last, data |-> data]]

\* Mutant: the position is bound to nothing.
OpensAnywhere(block, idx, last) ==
  /\ block # <<>> /\ block[1].at # 0
  /\ block[1].last = last
  /\ block = Seal(block[1].idx, last, block[1].data)

Opens(block, idx, last) ==
  /\ block # <<>> /\ block[1].at # 0
  /\ block = Seal(idx, last, block[1].data)

Opened(block) == block[1].data
=============================================================================
