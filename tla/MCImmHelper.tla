----------------------------- MODULE MCImmHelper -----------------------------
(* Instance of ImmCaller for TLC: wrapper calls of every kind and the three  *)
(* helpers, one after the other, under every profile of up to three tries,   *)
(* so that the loop is not entered, not repeated and repeated.  Names have   *)
(* up to five tokens, of two keys, a number and other text; arrays up to two *)
(* attributes with up to two values, of every type and length.  Chunks of    *)
(* the arena have 8 bytes, up to four of them; what is asked for is nothing, *)
(* less than, exactly and more than a word, a chunk, or what a chunk has     *)
(* left.                                                                     *)
EXTENDS ImmCaller

NumberRead == [text \in {"0x0c"} |-> "12"]
=============================================================================
