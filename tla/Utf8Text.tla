------------------------------ MODULE Utf8Text ------------------------------
(***************************************************************************)
(* Rust String values reduced to what byte-indexed code observes: a string *)
(* is the sequence of the UTF-8 widths (1 to 4 bytes) of its characters.  *)
(* These operators state the semantics of str that the tool relies on     *)
(* (len() counts bytes; &s[..n] is defined only when n is a character     *)
(* boundary and panics otherwise), not code of this repository.          *)
(***************************************************************************)
EXTENDS Naturals, SequencesExt

\* The widths a UTF-8 encoded character can have.
CharWidths == 1..4

\* str::len: the number of bytes.
ByteLen(s) == LET Plus(a, b) == a + b IN FoldLeft(Plus, 0, s)

\* The byte offsets at which str::is_char_boundary holds: 0, the end, and
\* every offset between two characters.
CharBoundaries(s) == {ByteLen(p) : p \in Prefixes(s)}

\* &s[..n] for a boundary n: the characters held in the first n bytes.
BytePrefix(s, n) == CHOOSE p \in Prefixes(s) : ByteLen(p) = n

\* The longest prefix of whole characters within n bytes (what
\* str::floor_char_boundary cuts at).
FloorCharPrefix(s, n) ==
    CHOOSE p \in Prefixes(s) :
        /\ ByteLen(p) <= n
        /\ \A q \in Prefixes(s) : ByteLen(q) <= n => Len(q) <= Len(p)

=============================================================================
