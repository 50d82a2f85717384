----------------------------- MODULE MCFraming -----------------------------
(***************************************************************************)
(* Instances of JsonFraming: an object with another in it, and a bracket   *)
(* in a string that holds an escaped quote; a batch of an object whose     *)
(* string ends in an escaped backslash; and texts with a wrong bracket or  *)
(* an open string.                                                         *)
(***************************************************************************)
EXTENDS JsonFraming

MCWellFormed ==
  {<<"{", "quote", "}", "backslash", "quote", "quote", "{", "}", "}">>,
   <<"[", "{", "quote", "]", "backslash", "backslash", "quote", "}", "]">>}

MCMalformed ==
  {<<"{", "]", "}">>,
   <<"[", "quote", "]">>}
=============================================================================
