--------------------------- MODULE WorkerContract ---------------------------
(***************************************************************************)
(* How contracts.py reads a worker's final text.  A text is a sequence of  *)
(* tokens, records with a kind:                                            *)
(*   prose      text that is no JSON and holds no brace                    *)
(*   fence      three backquotes           tag   the word json             *)
(*   contract   an object with exactly the required fields                 *)
(*   object     another object             value  an array or a scalar     *)
(* A contract's fields are what the checks of parse_worker_contract tell   *)
(* apart.                                                                  *)
(***************************************************************************)
EXTENDS Naturals, Sequences

NoContract == [kind |-> "none"]     \* ContractError

IsJson(token) == token.kind \in {"contract", "object", "value"}

\* parse_worker_contract after the field names: the values of the fields.
FieldsAllowed(c) ==
    /\ c.status \in {"done", "needs-human", "failed"}
    /\ c.next_gate \in {"validate", "human-review", "stop"}
    /\ c.candidate \in {"object", "null"}
    /\ c.status = "done" => c.candidate # "null" /\ c.next_gate = "validate"
    /\ c.summary <= 5
    /\ c.lesson \in {"null", "complete"}

\* A slip: the fence that opens is the first one of the text.
FirstFence(text) ==
    LET fences == {i \in 1..(Len(text) - 1) : text[i].kind = "fence"}
    IN  IF fences = {} THEN 0 ELSE CHOOSE i \in fences : \A j \in fences : i <= j

\* rfind of the fence before the closing one; 0 if there is none.
OpeningFence(text) ==
    LET fences == {i \in 1..(Len(text) - 1) : text[i].kind = "fence"}
    IN  IF fences = {} THEN 0 ELSE CHOOSE i \in fences : \A j \in fences : j <= i

\* What the last two fences enclose, without the language tag.
Fenced(text) ==
    LET body == SubSeq(text, OpeningFence(text) + 1, Len(text) - 1)
    IN  IF body # << >> /\ body[1].kind = "tag" THEN Tail(body) ELSE body

IsFenced(text) ==
    /\ text # << >> /\ text[Len(text)].kind = "fence" /\ OpeningFence(text) > 0
    /\ Len(Fenced(text)) = 1 /\ Fenced(text)[1].kind = "contract"

\* An object is a candidate if nothing follows it, so there is at most one.
IsTrailing(text) == text # << >> /\ text[Len(text)].kind = "contract"

\* _json_object_from_text
JsonObject(text) ==
    CASE Len(text) = 1 /\ IsJson(text[1]) -> text[1]
      [] IsFenced(text) -> Fenced(text)[1]
      [] IsTrailing(text) -> text[Len(text)]
      [] OTHER -> NoContract

\* parse_worker_contract: the contract, or none if it raises.
Parse(text) ==
    LET data == JsonObject(text)
    IN  IF data.kind = "contract" /\ FieldsAllowed(data) THEN data ELSE NoContract
=============================================================================
