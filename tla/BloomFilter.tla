---------------------------- MODULE BloomFilter ----------------------------
(***************************************************************************)
(* The Bloom filter of bloom_filter.hh, as far as levels use it: a table   *)
(* of bits kept in bytes.  What the hash function and the search for the   *)
(* optimal parameters compute is left to constants.                        *)
(***************************************************************************)
EXTENDS Integers

CONSTANTS bits_per_char,     \* bits of a byte of the table
          salt_,             \* the salts, one for each hash function
          hash_ap(_, _),     \* the hash of a key under a salt
          optimal_size(_)    \* bits that so many elements call for

ASSUME ByteAssumption == bits_per_char \in Nat \ {0}

(* Variant: the table size is left as computed.                            *)
UnroundedSize(count) == optimal_size(count)

(* compute_optimal_parameters() rounds the table up to whole bytes.        *)
table_size(count) ==
  LET rest == optimal_size(count) % bits_per_char
  IN  optimal_size(count) + (IF rest # 0 THEN bits_per_char - rest ELSE 0)

(* bloom_filter(parameters): no bit is set.  The vector of bytes has       *)
(* table_size_ / bits_per_char elements, rounded down.                     *)
NewFilter(count) ==
  [table_size |-> table_size(count),
   bit_table  |-> [byte \in 0 .. (table_size(count) \div bits_per_char - 1) |-> {}]]

(* compute_indices(): the bits of a key in a filter.                       *)
bit_indices(filter, key) == {hash_ap(key, s) % filter.table_size : s \in salt_}

(* insert() of some keys, one after the other.                             *)
insert(filter, keys) ==
  LET bits == UNION {bit_indices(filter, k) : k \in keys}
  IN  [filter EXCEPT !.bit_table = [byte \in DOMAIN @ |->
         @[byte] \cup {b % bits_per_char : b \in {b \in bits : b \div bits_per_char = byte}}]]

contains(filter, key) ==
  \A b \in bit_indices(filter, key) :
     b % bits_per_char \in filter.bit_table[b \div bits_per_char]
=============================================================================
