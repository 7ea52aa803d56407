------------------------------- MODULE ImmNames -------------------------------
(****************************************************************************)
(* The helpers of immutil.c that search a distinguished name.  They have    *)
(* no state but the name itself: immutil_getStringValue ends the value it   *)
(* returns by writing a null into the name of its caller, and               *)
(* immutil_getNumericValue calls it.                                        *)
(*                                                                          *)
(* A name is a sequence of tokens: keys ("proto="), commas, and other text. *)
(* A key may also stand in the middle of an item ("my-proto=").  A string   *)
(* ends at its first null, so a name that was cut is a shorter sequence.     *)
(* A value is never empty: NULL is the empty sequence.                      *)
(****************************************************************************)
EXTENDS Integers, Sequences

CONSTANTS
  SearchKey,  \* the keys
  Text,       \* other text
  Comma,
  NumberOf,   \* the text that strtol reads to its end, and what it reads
  MaxTokens   \* bound: the length of a name

ASSUME ImmNamesAssumption ==
  /\ Comma \notin SearchKey \cup Text /\ SearchKey \cap Text = {}
  /\ DOMAIN NumberOf \subseteq Text
  /\ MaxTokens \in Nat

Names == UNION {[1..n -> SearchKey \cup Text \cup {Comma}] : n \in 0..MaxTokens}
NoValue == <<>>

\* the first position of set, or the one behind the end of the name
FirstIn(set, name) ==
  IF set = {} THEN Len(name) + 1 ELSE CHOOSE p \in set : \A q \in set : p <= q

\* strstr and strchr, from position p on
Strstr(name, p, key) == FirstIn({q \in p..Len(name) : name[q] = key}, name)
Strchr(name, p) == FirstIn({q \in p..Len(name) : name[q] = Comma}, name)

(****************************************************************************)
(* immutil_getStringValue: the loop over the places where the key stands,   *)
(* and the value, with what is left of the name.                            *)
(****************************************************************************)
SearchAnywhere(key, name) == Strstr(name, 1, key)           \* what a mutant does
Search(key, name) ==
  LET from[p \in 1..(Len(name) + 1)] ==
        LET cp == Strstr(name, p, key)
        IN IF cp > Len(name) \/ cp = 1 THEN cp
           ELSE IF name[cp - 1] = Comma THEN cp
           ELSE from[cp + 1]
  IN from[1]

getStringValue(key, name) ==
  LET cp == Search(key, name)
      end == Strchr(name, cp + 1)
  IN IF cp > Len(name) \/ end = cp + 1 THEN [value |-> NoValue, name |-> name]
     ELSE [value |-> SubSeq(name, cp + 1, end - 1), name |-> SubSeq(name, 1, end - 1)]

LONG_MIN == "LONG_MIN"
getNumericValue(key, name) ==
  LET v == getStringValue(key, name).value
  IN IF Len(v) = 1 /\ v[1] \in DOMAIN NumberOf THEN NumberOf[v[1]] ELSE LONG_MIN

(****************************************************************************)
(* immutil_getDnItem works on a copy.  Items count from 0 and may be empty; *)
(* 0 is no position.                                                        *)
(****************************************************************************)
ItemAt(name, index) ==
  LET start[i \in 0..index] ==
        IF i = 0 THEN 1
        ELSE IF start[i - 1] = 0 \/ Strchr(name, start[i - 1]) > Len(name) THEN 0
        ELSE Strchr(name, start[i - 1]) + 1
  IN start[index]

getDnItem(name, index) ==
  LET p == ItemAt(name, index)
  IN IF p = 0 THEN [found |-> FALSE, item |-> NoValue]
     ELSE [found |-> TRUE, item |-> SubSeq(name, p, Strchr(name, p) - 1)]

(****************************************************************************)
(* For reference: the items of a name, split at its commas, and the first   *)
(* of them that starts with the key, or the number behind the last.         *)
(****************************************************************************)
Items(name) ==
  LET upto[p \in 0..Len(name)] ==
        IF p = 0 THEN <<<<>>>>
        ELSE IF name[p] = Comma THEN Append(upto[p - 1], <<>>)
        ELSE [upto[p - 1] EXCEPT ![Len(upto[p - 1])] = Append(@, name[p])]
  IN upto[Len(name)]

Keyed(key, items) ==
  FirstIn({i \in DOMAIN items : items[i] # <<>> /\ items[i][1] = key}, items)
ValueOf(key, items) ==
  IF Keyed(key, items) > Len(items) THEN NoValue ELSE Tail(items[Keyed(key, items)])

=============================================================================
