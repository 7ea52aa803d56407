------------------------------- MODULE ImmValues -------------------------------
(****************************************************************************)
(* The attribute values of immutil.c: the copies that the CCB store keeps   *)
(* of what an implementer callback was given (dupSaImmAttrValuesT_array and *)
(* dupSaImmAttrModificationT_array), the helpers that look a value up by    *)
(* attribute name and index, and immutil_new_attrValue, which makes a value *)
(* from text.                                                               *)
(*                                                                          *)
(* A value has its bytes in itself, or points to them: in the memory of the *)
(* caller, which is gone after the callback, or in the arena of the CCB     *)
(* (module Clist).  Numbers are scaled down: an "int32" has IntBits bits,   *)
(* an "int64" twice as many.                                                *)
(****************************************************************************)
EXTENDS Integers, Sequences

CONSTANTS
  AttrName,
  MaxValues, MaxAttributes,   \* bounds: of an array, and of the values in it
  IntBits,    \* scaled width of an int32
  LongBits    \* scaled width of the machine's long

ASSUME ImmValuesAssumption ==
  /\ MaxValues \in Nat /\ MaxAttributes \in Nat
  /\ IntBits \in Nat \ {0} /\ LongBits \in {IntBits, 2 * IntBits}

NumberType == {"SAINT32T", "SAUINT32T", "SAINT64T", "SAUINT64T", "SATIMET"}
ValueType == NumberType \cup {"SAFLOATT", "SADOUBLET", "SANAMET", "SASTRINGT", "SAANYT"}

\* lengths: none, below SA_MAX_UNEXTENDED_NAME_LENGTH, and longer
Length == {"empty", "short", "long"}

\* where a value that a caller passes has its bytes
Holds(type, len) ==
  CASE type = "SANAMET" -> IF len = "long" THEN "caller" ELSE "inline"
    [] type = "SASTRINGT" -> "caller"
    [] type = "SAANYT" -> IF len = "empty" THEN "null" ELSE "caller"
    [] OTHER -> "inline"
Value(type, id, len) == [id |-> id, len |-> len, at |-> Holds(type, len)]

(****************************************************************************)
(* Copies.                                                                  *)
(****************************************************************************)
dupStr(v) == [v EXCEPT !.at = "arena"]
copyNameBySize(v) == v                                      \* what a mutant does
copyName(v) == IF v.len = "long" THEN dupStr(v) ELSE v
copyAny(v) == IF v.len = "empty" THEN v ELSE [v EXCEPT !.at = "arena"]

copySaImmAttrValuesT(original) ==
  [name |-> dupStr(original.name), type |-> original.type,
   values |-> [i \in DOMAIN original.values |->
                 LET v == original.values[i]
                 IN CASE original.type = "SASTRINGT" -> dupStr(v)
                      [] original.type = "SANAMET" -> copyName(v)
                      [] original.type = "SAANYT" -> copyAny(v)
                      [] OTHER -> v]]

dupSaImmAttrValuesT_array(original) ==
  [i \in DOMAIN original |-> copySaImmAttrValuesT(original[i])]

dupSaImmAttrModificationT_array(original) ==
  [i \in DOMAIN original |->
     [modType |-> original[i].modType, attr |-> copySaImmAttrValuesT(original[i].attr)]]

(****************************************************************************)
(* Lookups.  An index counts from 0; NULL is no value.                      *)
(****************************************************************************)
NULL == [id |-> 0, len |-> "empty", at |-> "null"]
Matches(attr, name) == {i \in DOMAIN attr : attr[i].name.id = name}
FirstMatch(attr, name) ==
  attr[CHOOSE i \in Matches(attr, name) : \A j \in Matches(attr, name) : i <= j]

\* immutil_getNameAttr, getStringAttr, getTimeAttr and getUint32Attr
TypedLookup == {"SANAMET", "SASTRINGT", "SATIMET", "SAUINT32T"}
getTypedAttr(attr, name, index, type) ==
  IF Matches(attr, name) = {} THEN NULL
  ELSE LET a == FirstMatch(attr, name)
       IN IF index >= Len(a.values) \/ a.type # type THEN NULL ELSE a.values[index + 1]

getAttrValuesNumber(name, attr) ==
  IF attr = <<>> THEN [rc |-> "INVALID_PARAM", number |-> 0]
  ELSE IF Matches(attr, name) = {} THEN [rc |-> "NAME_NOT_FOUND", number |-> 0]
  ELSE [rc |-> "OK", number |-> Len(FirstMatch(attr, name).values)]

\* text and SAANYT are not supported: the program aborts
getAttr(name, attr, index) ==
  IF attr = <<>> THEN [rc |-> "INVALID_PARAM", param |-> NULL]
  ELSE IF Matches(attr, name) = {} THEN [rc |-> "NAME_NOT_FOUND", param |-> NULL]
  ELSE LET a == FirstMatch(attr, name)
       IN IF index >= Len(a.values) THEN [rc |-> "INVALID_PARAM", param |-> NULL]
          ELSE IF a.type \in {"SASTRINGT", "SAANYT"} THEN [rc |-> "abort", param |-> NULL]
          ELSE [rc |-> "OK", param |-> a.values[index + 1]]

(****************************************************************************)
(* immutil_new_attrValue: the values strtol and strtoul read a number as,   *)
(* none when it is out of range; what the smaller types then check; text;   *)
(* and SAANYT, two hexadecimal digits to a byte.                            *)
(****************************************************************************)
Signed(n, bits) ==
  LET w == n % 2^bits IN IF w >= 2^(bits - 1) THEN w - 2^bits ELSE w
Unsigned(n, bits) == n % 2^bits

strtol(n, bits) == {v \in {n} : n = Signed(n, bits)}
strtoul(n, bits) == {v \in {Unsigned(n, bits)} : -(2^bits) < n /\ n < 2^bits}

newNumber(type, n) ==
  CASE type = "SAINT32T" -> {v \in strtol(n, LongBits) : v = Signed(v, IntBits)}
    [] type = "SAUINT32T" -> {v \in strtoul(n, LongBits) : v = Unsigned(v, IntBits)}
    [] type \in {"SAINT64T", "SATIMET"} -> strtol(n, 2 * IntBits)
    [] type = "SAUINT64T" -> strtoul(n, 2 * IntBits)

newText(type, v) ==
  IF type = "SASTRINGT" \/ v.len = "long" THEN [v EXCEPT !.at = "heap"]
  ELSE [v EXCEPT !.at = "inline"]

newAny(digits) ==
  LET even == Len(digits) % 2 = 0
      len == IF even THEN Len(digits) \div 2 ELSE Len(digits) \div 2 + 1
  IN [i \in 1..len |-> 16 * digits[2 * i - 1]
                         + (IF even \/ i < len THEN digits[2 * i] ELSE 0)]

(****************************************************************************)
(* What the helpers are tried on.                                           *)
(****************************************************************************)
Values(type) == {[i \in 1..n |-> Value(type, i, len)] : n \in 0..MaxValues, len \in Length}
Attributes ==
  UNION {[name : {Value("SASTRINGT", n, "short") : n \in AttrName},
          type : {type}, values : Values(type)] : type \in ValueType}
Arrays == UNION {[1..n -> Attributes] : n \in 0..MaxAttributes}
Numbers == -(2^(2 * IntBits) + 1)..(2^(2 * IntBits) + 1)
Digits == UNION {[1..n -> {0, 1, 15}] : n \in 0..5}

(****************************************************************************)
(* For reference: what a type holds, and when two attributes are the same   *)
(* but for the memory of the caller.                                        *)
(****************************************************************************)
InRange(type) ==
  CASE type = "SAINT32T" -> -(2^(IntBits - 1))..(2^(IntBits - 1) - 1)
    [] type = "SAUINT32T" -> 0..(2^IntBits - 1)
    [] type \in {"SAINT64T", "SATIMET"} -> -(2^(2 * IntBits - 1))..(2^(2 * IntBits - 1) - 1)
    [] type = "SAUINT64T" -> 0..(2^(2 * IntBits) - 1)

SameValue(v, w) == v.id = w.id /\ v.len = w.len /\ v.at # "caller"
SameAttribute(a, b) ==
  /\ SameValue(a.name, b.name) /\ a.type = b.type
  /\ Len(a.values) = Len(b.values)
  /\ \A i \in DOMAIN a.values : SameValue(a.values[i], b.values[i])

\* The helpers agree on which values there are.
Counted(attrs) ==
  \A name \in AttrName, index \in 0..MaxValues :
    LET count == getAttrValuesNumber(name, attrs)
        any == getAttr(name, attrs, index)
        typed == {getTypedAttr(attrs, name, index, t) : t \in TypedLookup} \ {NULL}
    IN /\ any.rc \in {"OK", "abort"} <=> index < count.number
       /\ any.rc = "OK" => any.param.id = index + 1 /\ typed \subseteq {any.param}
       /\ typed # {} => index < count.number /\ \A v \in typed : v.id = index + 1
       /\ count.rc # "OK" => any.rc = count.rc

=============================================================================
