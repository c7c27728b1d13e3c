------------------------- MODULE BloomFilter_proofs -------------------------
(***************************************************************************)
(* A Bloom filter never denies what was inserted, and never looks outside  *)
(* its table: for any hash function, any number of salts, any size of a    *)
(* byte and any size of the table.                                         *)
(***************************************************************************)
EXTENDS BloomFilter, TLAPS

(* What hash functions and optimal parameters are assumed to be.           *)
Hashes == /\ \A key : \A s \in salt_ : hash_ap(key, s) \in Nat
          /\ \A count \in Nat \ {0} : optimal_size(count) \in Nat \ {0}

Bytes(size) == 0 .. (size \div bits_per_char - 1)

(* A filter as its constructor and insert() leave it: a table of whole     *)
(* bytes.                                                                  *)
IsFilter(filter) ==
  /\ filter.table_size \in Nat \ {0}
  /\ filter.table_size % bits_per_char = 0
  /\ filter = [table_size |-> filter.table_size, bit_table |-> filter.bit_table]
  /\ filter.bit_table \in [Bytes(filter.table_size) -> SUBSET Nat]

(* The table size is rounded up to whole bytes.                            *)
LEMMA WholeBytes ==
  ASSUME NEW size \in Nat \ {0}
  PROVE  LET rest == size % bits_per_char
             rounded == size + (IF rest # 0 THEN bits_per_char - rest ELSE 0)
         IN  rounded \in Nat \ {0} /\ rounded % bits_per_char = 0
<1> DEFINE rest == size % bits_per_char
           q == size \div bits_per_char
<1>1. rest \in 0 .. (bits_per_char - 1) /\ q \in Nat /\ size = q * bits_per_char + rest
  BY ByteAssumption, SMT
<1>2. (q * bits_per_char) % bits_per_char = 0 /\ ((q + 1) * bits_per_char) % bits_per_char = 0
  BY <1>1, ByteAssumption, SMT
<1>3. (q + 1) * bits_per_char = q * bits_per_char + bits_per_char
  BY <1>1, ByteAssumption, SMT
<1> QED
  BY <1>1, <1>2, <1>3, ByteAssumption

(* A bit of a table of whole bytes is in one of its bytes.                 *)
LEMMA BitInByte ==
  ASSUME NEW size \in Nat \ {0}, size % bits_per_char = 0,
         NEW b \in 0 .. (size - 1)
  PROVE  b \div bits_per_char \in Bytes(size) /\ b % bits_per_char \in Nat
<1> DEFINE q == size \div bits_per_char
           p == b \div bits_per_char
<1>1. /\ q \in Nat /\ size = q * bits_per_char
      /\ p \in Nat /\ b % bits_per_char \in Nat /\ p * bits_per_char <= b
  BY ByteAssumption, SMT
<1>2. p >= q => p * bits_per_char >= q * bits_per_char
  BY <1>1, ByteAssumption, SMT
<1>3. p < q
  BY <1>1, <1>2, ByteAssumption, SMT
<1> QED
  BY <1>1, <1>3 DEF Bytes

LEMMA BitIndices ==
  ASSUME Hashes, NEW filter, IsFilter(filter), NEW key,
         NEW b \in bit_indices(filter, key)
  PROVE  /\ b \div bits_per_char \in Bytes(filter.table_size)
         /\ b % bits_per_char \in Nat
<1>1. PICK s \in salt_ : b = hash_ap(key, s) % filter.table_size
  BY DEF bit_indices
<1>2. b \in 0 .. (filter.table_size - 1)
  BY <1>1 DEF Hashes, IsFilter
<1> QED
  BY <1>2, BitInByte DEF IsFilter

LEMMA NewFilterType ==
  ASSUME Hashes, NEW count \in Nat \ {0}
  PROVE  IsFilter(NewFilter(count))
<1>1. table_size(count) \in Nat \ {0} /\ table_size(count) % bits_per_char = 0
  BY WholeBytes DEF Hashes, table_size
<1> QED
  BY <1>1 DEF NewFilter, IsFilter, Bytes

LEMMA InsertType ==
  ASSUME Hashes, NEW filter, IsFilter(filter), NEW keys
  PROVE  /\ IsFilter(insert(filter, keys))
         /\ insert(filter, keys).table_size = filter.table_size
<1> DEFINE bits == UNION {bit_indices(filter, k) : k \in keys}
           new(byte) == {b % bits_per_char : b \in {b \in bits : b \div bits_per_char = byte}}
           table == [byte \in Bytes(filter.table_size) |-> filter.bit_table[byte] \cup new(byte)]
<1>1. \A b \in bits : b % bits_per_char \in Nat
  BY BitIndices
<1>2. table \in [Bytes(filter.table_size) -> SUBSET Nat]
  BY <1>1 DEF IsFilter
<1>3. DOMAIN filter.bit_table = Bytes(filter.table_size)
  BY DEF IsFilter
<1>4. insert(filter, keys) = [filter EXCEPT !.bit_table = table]
  BY <1>3 DEF insert
<1>5. insert(filter, keys) = [table_size |-> filter.table_size, bit_table |-> table]
  BY <1>4 DEF IsFilter
<1> QED
  BY <1>2, <1>5 DEF IsFilter

(* insert() adds the bits of the keys and takes none away.                 *)
LEMMA InsertAdds ==
  ASSUME Hashes, NEW filter, IsFilter(filter), NEW keys, NEW key,
         key \in keys \/ contains(filter, key)
  PROVE  contains(insert(filter, keys), key)
<1> DEFINE bits == UNION {bit_indices(filter, k) : k \in keys}
           new(byte) == {b % bits_per_char : b \in {b \in bits : b \div bits_per_char = byte}}
           filter2 == insert(filter, keys)
<1>1. /\ filter2.table_size = filter.table_size
      /\ \A byte \in Bytes(filter.table_size) :
            filter2.bit_table[byte] = filter.bit_table[byte] \cup new(byte)
  BY InsertType DEF insert, IsFilter
<1>2. bit_indices(filter2, key) = bit_indices(filter, key)
  BY <1>1 DEF bit_indices
<1> SUFFICES ASSUME NEW b \in bit_indices(filter, key)
             PROVE  b % bits_per_char \in filter2.bit_table[b \div bits_per_char]
  BY <1>2 DEF contains
<1>3. b \div bits_per_char \in Bytes(filter.table_size)
  BY BitIndices
<1>4. CASE key \in keys
  <2>1. b % bits_per_char \in new(b \div bits_per_char)
    BY <1>4
  <2> QED
    BY <2>1, <1>1, <1>3
<1>5. CASE contains(filter, key)
  BY <1>1, <1>3, <1>5 DEF contains
<1> QED
  BY <1>4, <1>5

(* No false negatives: a filter made for any number of elements and given  *)
(* any keys, all at once or some before others, contains each of them.     *)
THEOREM NoFalseNegatives ==
  ASSUME Hashes, NEW count \in Nat \ {0}, NEW first, NEW later,
         NEW key \in first \cup later
  PROVE  contains(insert(insert(NewFilter(count), first), later), key)
<1>1. IsFilter(NewFilter(count)) /\ IsFilter(insert(NewFilter(count), first))
  BY NewFilterType, InsertType
<1>2. CASE key \in first
  BY <1>1, <1>2, InsertAdds
<1>3. CASE key \in later
  BY <1>1, <1>3, InsertAdds
<1> QED
  BY <1>2, <1>3
=============================================================================
