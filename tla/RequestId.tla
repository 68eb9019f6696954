----------------------------- MODULE RequestId -----------------------------
(***************************************************************************)
(* json_rpc_id: the variant<nullptr_t, int64_t, uint64_t, string> that     *)
(* identifies a request, and the wire identity same_request_id gives it.   *)
(* A string's value stands for its characters; only equality matters.      *)
(***************************************************************************)
EXTENDS Integers

Null == [form |-> "null", value |-> 0]
Signed(n) == [form |-> "int64", value |-> n]
Unsigned(n) == [form |-> "uint64", value |-> n]
Text(s) == [form |-> "string", value |-> s]

\* std::is_integral_v of the alternative the variant holds.
IsInteger(id) == id.form \in {"int64", "uint64"}

\* std::cmp_equal compares mathematical values, whatever the signedness.
SameRequestId(a, b) ==
    \/ IsInteger(a) /\ IsInteger(b) /\ a.value = b.value
    \/ a.form = "string" /\ b.form = "string" /\ a.value = b.value
=============================================================================
