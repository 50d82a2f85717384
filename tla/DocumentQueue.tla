--------------------------- MODULE DocumentQueue ---------------------------
(***************************************************************************)
(* What a connection promises about the JSON documents sent over it,       *)
(* whatever the pieces they arrive in: every document is delivered whole,  *)
(* once and in order, up to the first one that does not parse.             *)
(***************************************************************************)
EXTENDS Naturals, Sequences

CONSTANTS WellFormed,  \* the documents that parse
          Malformed    \* those that do not

VARIABLES written,     \* the documents the peer has written
          documents    \* those that have been delivered

Init == written = <<>> /\ documents = <<>>

Write(d) == written' = Append(written, d) /\ UNCHANGED documents

Deliver ==
  /\ Len(documents) < Len(written)
  /\ written[Len(documents) + 1] \in WellFormed
  /\ documents' = Append(documents, written[Len(documents) + 1])
  /\ UNCHANGED written

Next == Deliver \/ \E d \in WellFormed \cup Malformed : Write(d)

Spec == Init /\ [][Next]_<<written, documents>>
=============================================================================
