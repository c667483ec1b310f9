----------------------------- MODULE JsonTokens -----------------------------
(* The tokens of JSON text: punctuation, an escaped member name, the        *)
(* spelling of a scalar.                                                    *)

Mark(mark) == [is |-> mark, of |-> "none"]
NameToken(name) == [is |-> "name", of |-> name]
ScalarToken(value) == [is |-> "scalar", of |-> value]

=============================================================================
