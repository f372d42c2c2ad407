--------------------------- MODULE MCJsonReceive ---------------------------
(* JsonReceive with three objects: a brace in a string, a quote and a      *)
(* brace in a string, and a string that ends with a backslash within an    *)
(* object of an object.                                                    *)
EXTENDS JsonReceive

Text(s) == <<"quote">> \o s \o <<"quote">>
Object(s) == <<"{">> \o s \o <<"}">>

MCObjects ==
  { Object(Text(<<"}">>)),
    Object(Text(<<"backslash", "quote", "{">>)),
    Object(Object(Text(<<"backslash", "backslash">>))) }

Alike == Permutations(Pools) \cup Permutations(Buffers)
=============================================================================
