--------------------------- MODULE MCHttpRequest ---------------------------
(* Instances of HttpRequest for TLC. *)
EXTENDS HttpRequest

\* A cell of a fresh vector, and whatever a cell may hold.
Nul == Unit(0, "nul", 0)
Units == [req : 0..MaxRequests, part : 0..2,
          line : {"nul", "body", "junk"} \cup UNION {ToSet(Lines(k)) : k \in Kinds}]
=============================================================================
