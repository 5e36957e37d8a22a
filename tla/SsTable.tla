------------------------------ MODULE SsTable ------------------------------
(***************************************************************************)
(* SSTable and BloomFilter (concurrent_lsm_tree_engine/sstable.hpp and     *)
(* bloom_filter.hpp) as operators on an immutable table: build() makes one *)
(* of a sorted sequence of <<key, value>> pairs, get() looks a key up      *)
(* through the bloom filter, the block index and one block.                *)
(***************************************************************************)
EXTENDS Integers, Sequences

CONSTANTS RecordsPerBlock,  \* RECORDS_PER_BLOCK
          NumBits,          \* num_bits_ of the filter
          NumHashes,        \* num_hashes_
          NotFound          \* get() returned false

ASSUME TableAssumption ==
  RecordsPerBlock \in Nat \ {0} /\ NumBits \in Nat \ {0} /\ NumHashes \in Nat \ {0}

(* The bits of a key whose hash1 and hash2 are h[1] and h[2].              *)
Positions(h) == {(h[1] + i * h[2]) % NumBits : i \in 0 .. NumHashes - 1}

(* BloomFilter::add of the key of every pair, and BloomFilter::contains.   *)
bloom_add(pairs, hash) == UNION {Positions(hash[pairs[i][1]]) : i \in DOMAIN pairs}
bloom_contains(bits, h) == Positions(h) \subseteq bits

(* build() cuts n pairs into blocks: block b starts behind LowOf(b) pairs  *)
(* and has CountOf(b, n) of them, the last one perhaps fewer.              *)
BlockCount(n) == (n + RecordsPerBlock - 1) \div RecordsPerBlock
LowOf(b) == (b - 1) * RecordsPerBlock
CountOf(b, n) == IF n - LowOf(b) < RecordsPerBlock THEN n - LowOf(b) ELSE RecordsPerBlock

(* The index records the first key of a block in place of the last.        *)
IndexByFirst(pairs) ==
  [b \in 1 .. BlockCount(Len(pairs)) |->
     [last_key |-> pairs[LowOf(b) + 1][1],
      offset |-> LowOf(b), count |-> CountOf(b, Len(pairs))]]
IndexOf(pairs) ==
  [b \in 1 .. BlockCount(Len(pairs)) |->
     [last_key |-> pairs[LowOf(b) + CountOf(b, Len(pairs))][1],
      offset |-> LowOf(b), count |-> CountOf(b, Len(pairs))]]

build(pairs, hash) ==
  [records |-> pairs, index |-> IndexOf(pairs), bloom |-> bloom_add(pairs, hash)]

(* The bisection over the index and std::lower_bound in the block: the     *)
(* first position whose key is not below key, or one past the end.  The    *)
(* code's block_idx is always equal to its high.                           *)
LowerBound(keys, key) ==
  LET bisect[w \in (1 .. Len(keys) + 1) \X (1 .. Len(keys) + 1)] ==
        LET low == w[1]
            high == w[2]
            mid == low + (high - low) \div 2
        IN  IF low >= high THEN high
            ELSE bisect[IF keys[mid] >= key THEN <<low, mid>> ELSE <<mid + 1, high>>]
  IN  bisect[<<1, Len(keys) + 1>>]

(* The block that get() reads, and what it finds there.                    *)
BlockOf(table, block) ==
  SubSeq(table.records, table.index[block].offset + 1,
         table.index[block].offset + table.index[block].count)
LookUp(records, key) ==
  LET it == LowerBound([i \in DOMAIN records |-> records[i][1]], key)
  IN  IF it \in DOMAIN records /\ records[it][1] = key THEN records[it][2] ELSE NotFound

table_get(table, key, hash) ==
  LET block == LowerBound([b \in DOMAIN table.index |-> table.index[b].last_key], key)
  IN  IF bloom_contains(table.bloom, hash[key]) /\ block \in DOMAIN table.index
      THEN LookUp(BlockOf(table, block), key) ELSE NotFound

=============================================================================
