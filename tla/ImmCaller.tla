------------------------------- MODULE ImmCaller -------------------------------
(****************************************************************************)
(* A program with immutil.c.  It makes calls (module ImmHelper), or it has  *)
(* data that it works on with the helpers that make no calls: a name that   *)
(* it searches, attributes or modifications that it copies, text that it    *)
(* makes a value of, the arena of a CCB from which the copies are cut       *)
(* (module Clist).  Calls, values and the arena share no state, and so a    *)
(* behaviour has one of them.                                               *)
(****************************************************************************)
EXTENDS ImmHelper, ImmNames, ImmValues, Clist

VARIABLES
  data,       \* what the program works on
  answer      \* what the last helper has returned

callerVars == <<helperVars, arena, data, answer>>

NoData == [kind |-> "none"]
\* whole is history: what the name was before it was searched
NameData == {[kind |-> "name", name |-> n, whole |-> n] : n \in Names}
AttrData == [kind : {"attrs"}, attrs : Arrays]
ModData ==
  [kind : {"mods"}, mods : [1..1 -> [modType : {"ADD", "DELETE", "REPLACE"}, attr : Attributes]]]
TextData ==
  [kind : {"number"}, type : NumberType, number : Numbers]
    \cup [kind : {"text"}, type : {"SANAMET", "SASTRINGT"}, len : Length]
    \cup [kind : {"any"}, digits : Digits]

ArenaData == [kind |-> "arena"]

CallerInit ==
  /\ HelperInit
  /\ ArenaInit
  /\ \/ data = NoData
     \/ /\ \/ data \in NameData \/ data \in AttrData \/ data \in ModData
           \/ data \in TextData \/ data = ArenaData
        /\ profile = CHOOSE p \in Profile : TRUE   \* which only calls look at
  /\ answer = [by |-> "none"]

Calls == data = NoData /\ HelperNext /\ UNCHANGED <<arena, data, answer>>

Has(what) == data.kind = what /\ UNCHANGED <<helperVars, arena>>

SearchString(key) ==
  /\ Has("name")
  /\ data' = [data EXCEPT !.name = getStringValue(key, @).name]
  /\ answer' = [by |-> "string", key |-> key, value |-> getStringValue(key, data.name).value]

SearchNumber(key) ==
  /\ Has("name")
  /\ data' = [data EXCEPT !.name = getStringValue(key, @).name]
  /\ answer' = [by |-> "number", key |-> key, value |-> getNumericValue(key, data.name)]

SearchItem(index) ==
  /\ Has("name") /\ UNCHANGED data
  /\ answer' = [by |-> "item", index |-> index, value |-> getDnItem(data.name, index)]

CopyAttributes ==
  /\ Has("attrs") /\ UNCHANGED data
  /\ answer' = [by |-> "copy", attrs |-> dupSaImmAttrValuesT_array(data.attrs)]

CopyModifications ==
  /\ Has("mods") /\ UNCHANGED data
  /\ answer' = [by |-> "copy", mods |-> dupSaImmAttrModificationT_array(data.mods)]

NewValue ==
  /\ \/ /\ Has("number")
        /\ answer' = [by |-> "new", value |-> newNumber(data.type, data.number)]
     \/ /\ Has("text")
        /\ answer' = [by |-> "new", value |-> newText(data.type, Value(data.type, 1, data.len))]
     \/ /\ Has("any")
        /\ answer' = [by |-> "new", value |-> newAny(data.digits)]
  /\ UNCHANGED data

UseArena == data = ArenaData /\ ArenaNext /\ UNCHANGED <<helperVars, data, answer>>

CallerNext ==
  \/ Calls
  \/ \E key \in SearchKey : SearchString(key) \/ SearchNumber(key)
  \/ \E index \in 0..MaxTokens : SearchItem(index)
  \/ CopyAttributes \/ CopyModifications \/ NewValue
  \/ UseArena

CallerSpec ==
  /\ CallerInit
  /\ [][CallerNext]_callerVars
  /\ WF_callerVars(Advance /\ UNCHANGED <<arena, data, answer>>)

----------------------------------------------------------------------------
(****************************************************************************)
(* A search answers for the name that it is given, whatever the searches    *)
(* before have made of it: with the value of the first item that starts     *)
(* with the key, a number if strtol reads it to its end, the item with the  *)
(* index; with NULL or LONG_MIN only if that name has no such item.  A key  *)
(* in the middle of an item is no match.                                    *)
(****************************************************************************)
Answers(a, name) ==
  CASE a.by = "string" -> a.value = ValueOf(a.key, Items(name))
    [] a.by = "number" ->
         LET numbers == {t \in DOMAIN NumberOf : ValueOf(a.key, Items(name)) = <<t>>}
         IN a.value \in IF numbers = {} THEN {LONG_MIN} ELSE {NumberOf[t] : t \in numbers}
    [] a.by = "item" ->
         /\ a.value.found <=> a.index < Len(Items(name))
         /\ a.value.found => a.value.item = Items(name)[a.index + 1]
    [] OTHER -> TRUE
FoundStep == data.kind = "name" => Answers(answer', data.name)
FoundAsNamed == [][FoundStep]_callerVars

(****************************************************************************)
(* immutil.h says of immutil_getStringValue, whose name is const: "If the   *)
(* key is not found or the value empty NULL is returned" (226), and what it *)
(* returns is "The string value (statically allocated)" (230).  So a key    *)
(* that is in the name of an object is found by every search for it.        *)
(****************************************************************************)
NameKept == data.kind = "name" /\ answer.by = "string" => Answers(answer, data.whole)

(****************************************************************************)
(* A copy outlives the callback whose values it has: it is the same         *)
(* attributes, values and modifications in the same order, nothing of it is *)
(* in the memory of the caller, and the lookups agree on it.  A number that *)
(* does not fit its type is refused and never cut, whatever the width of    *)
(* long (unsigned types read a negative one modulo their width), a digit of *)
(* SAANYT is never lost, and text is copied.                                *)
(****************************************************************************)
CopyKept ==
  IF data.kind = "attrs"
    THEN /\ Len(answer.attrs) = Len(data.attrs) /\ Counted(answer.attrs)
         /\ \A i \in DOMAIN data.attrs : SameAttribute(answer.attrs[i], data.attrs[i])
    ELSE /\ Len(answer.mods) = Len(data.mods)
         /\ \A i \in DOMAIN data.mods :
              /\ answer.mods[i].modType = data.mods[i].modType
              /\ SameAttribute(answer.mods[i].attr, data.mods[i].attr)

NumberKept ==
  IF data.type \in {"SAUINT32T", "SAUINT64T"} /\ data.number < 0
    THEN answer.value \subseteq InRange(data.type)
    ELSE answer.value = {data.number} \cap InRange(data.type)

DigitsKept ==
  LET bytes == answer.value
      digit(p) ==
        IF p % 2 = 1 THEN bytes[(p + 1) \div 2] \div 16 ELSE bytes[p \div 2] % 16
  IN /\ 2 * Len(bytes) \in {Len(data.digits), Len(data.digits) + 1}
     /\ \A p \in 1..(2 * Len(bytes)) :
          digit(p) = IF p \in DOMAIN data.digits THEN data.digits[p] ELSE 0

ValuesKept ==
  /\ answer.by = "copy" => CopyKept
  /\ answer.by = "new" =>
       CASE data.kind = "number" -> NumberKept
         [] data.kind = "any" -> DigitsKept
         [] data.kind = "text" -> SameValue(answer.value, Value(data.type, 1, data.len))

=============================================================================
