------------------------------- MODULE Results -------------------------------
(***************************************************************************)
(* The outcome of a call: the crate's Result<T> (lib.rs).  A call returns  *)
(* either a value or one of the Error variants; the wording of an error is *)
(* left out, its variant is kept because callers match on it.              *)
(***************************************************************************)

Error == {"Malformed", "VerificationFailed", "Crypto", "Certificate", "Unsupported"}

Ok(v)  == [ok |-> TRUE, val |-> v]
Err(e) == [ok |-> FALSE, err |-> e]

\* Every outcome a call with values in S may have.
ResultOf(S) == {Ok(v) : v \in S} \cup {Err(e) : e \in Error}
=============================================================================
