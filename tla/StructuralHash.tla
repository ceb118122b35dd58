--------------------------- MODULE StructuralHash ---------------------------
(***************************************************************************)
(* The representation-independent hash of a value, as its serializer       *)
(* computes it.  A value is a tree of the kinds that a type serializes     *)
(* itself to.  Bytes are records, and so are digests, which stand for      *)
(* thirty-two bytes that no other input has; a string is one too, and no   *)
(* other bytes here spell it.                                              *)
(***************************************************************************)
EXTENDS Integers, Sequences, SequencesExt

CONSTANT None

-----------------------------------------------------------------------------
(* The kinds of values.                                                    *)

NoneValue == [kind |-> "none"]
SomeValue(v) == [kind |-> "some", value |-> v]  \* a newtype too
Nat_(n) == [kind |-> "nat", nat |-> n]
Int_(i) == [kind |-> "int", int |-> i]
Bytes(b) == [kind |-> "bytes", bytes |-> b]     \* a string, or a char, too
Seq_(elems) == [kind |-> "seq", elems |-> elems] \* a tuple too
Map(fields) == [kind |-> "map", fields |-> fields]  \* of <<key, value>>, both values
Unit == [kind |-> "unit"]                       \* a bool, or a float, too

Byte(b) == [byte |-> b]
Utf8(str) == Bytes(<<[string |-> str]>>)
Struct(fields) == Map([i \in DOMAIN fields |-> <<Utf8(fields[i][1]), fields[i][2]>>])

UnitVariant(variant) == Utf8(variant)
NewtypeVariant(variant, v) == Struct(<< <<variant, v>> >>)
TupleVariant(variant, elems) == NewtypeVariant(variant, Seq_(elems))
StructVariant(variant, fields) == NewtypeVariant(variant, Struct(fields))

-----------------------------------------------------------------------------
(* LEB128: seven bits to a byte, the least significant first.  A signed    *)
(* number ends at a byte whose bit 6 is that of its sign.                  *)

RECURSIVE Unsigned(_)
Unsigned(n) ==
    IF n < 128 THEN <<Byte(n)>> ELSE <<Byte(128 + (n % 128))>> \o Unsigned(n \div 128)

RECURSIVE Signed(_)
Signed(i) ==
    IF i \in -64 .. 63 THEN <<Byte(i % 128)>>
    ELSE <<Byte(128 + (i % 128))>> \o Signed(i \div 128)

-----------------------------------------------------------------------------
(* SHA-256 of bytes, of a sequence of hashes, and of the sorted pairs of   *)
(* hashes of a struct: sorting makes a sequence of a set.                  *)

Sha256(bytes) == [sha256 |-> bytes]
Sha256OfPairs(pairs) == [sha256 |-> <<[sorted |-> pairs]>>]

(* An element or a field that is None adds nothing.                        *)
DigestsOf(hashes) == SelectSeq(hashes, LAMBDA h : h # None)

PairsWithNone(keys, hashes) == \* mutant: a None is hashed as no bytes
    {<<keys[i], IF hashes[i] = None THEN Sha256(<<>>) ELSE hashes[i]>> : i \in DOMAIN keys}
PairsOf(keys, hashes) == {<<keys[i], hashes[i]>> : i \in {j \in DOMAIN keys : hashes[j] # None}}

Unsupported == [error |-> "Unsupported"]

(* A value that is not supported, or a key that is None, has no hash, nor  *)
(* has what it is in.                                                      *)
RECURSIVE Serialize(_)
Serialize(v) ==
    CASE v.kind = "none"  -> None
      [] v.kind = "some"  -> Serialize(v.value)
      [] v.kind = "nat"   -> Sha256(Unsigned(v.nat))
      [] v.kind = "int"   -> Sha256(Signed(v.int))
      [] v.kind = "bytes" -> Sha256(v.bytes)
      [] v.kind = "seq"   ->
            LET hashes == [i \in DOMAIN v.elems |-> Serialize(v.elems[i])]
            IN  IF Unsupported \in ToSet(hashes) THEN Unsupported
                ELSE Sha256(DigestsOf(hashes))
      [] v.kind = "map"   ->
            LET keys == [i \in DOMAIN v.fields |-> Serialize(v.fields[i][1])]
                hashes == [i \in DOMAIN v.fields |-> Serialize(v.fields[i][2])]
            IN  IF None \in ToSet(keys) \/ Unsupported \in ToSet(keys) \cup ToSet(hashes)
                THEN Unsupported
                ELSE Sha256OfPairs(PairsOf(keys, hashes))
      [] v.kind = "unit"  -> Unsupported

(* A None by itself has no hash.                                           *)
structural_hash(v) == IF Serialize(v) = None THEN Unsupported ELSE Serialize(v)
=============================================================================
