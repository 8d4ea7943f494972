------------------------------- MODULE Ledger -------------------------------
(***************************************************************************)
(* What the durable record of an idempotent request promises. A request is   *)
(* accepted once, under the token of one caller, and only that token sends,  *)
(* at most once. The record is stored again and again, by whomever, but it    *)
(* keeps its token, tells the truth about what was sent, and does not change  *)
(* any more once it is finished. A sending may come after that.               *)
(***************************************************************************)
CONSTANTS Request, Token, None

VARIABLES
  record,   \* the record of a request: its status, its token and its publication
  sent      \* the tokens that sent

vars == <<record, sent>>

Owned(t) == \E r \in Request : record[r] # None /\ record[r].tok = t
Unfinished(r) == record[r] # None /\ record[r].status \in {"pending", "running"}

Init == record = [r \in Request |-> None] /\ sent = {}

Accept(r, t) ==
  /\ record[r] = None /\ ~Owned(t)
  /\ record' = [record EXCEPT ![r] = [status |-> "pending", tok |-> t, pub |-> "not_queued"]]
  /\ UNCHANGED sent

Store(r, status, pub) ==
  /\ Unfinished(r)
  /\ pub = "queued" => record[r].tok \in sent
  /\ pub = "filtered_out" => record[r].tok \notin sent
  /\ record' = [record EXCEPT ![r] = [status |-> status, tok |-> record[r].tok, pub |-> pub]]
  /\ UNCHANGED sent

Send(r) ==
  /\ record[r] # None /\ record[r].pub # "filtered_out" /\ record[r].tok \notin sent
  /\ sent' = sent \cup {record[r].tok}
  /\ UNCHANGED record

Next ==
  \E r \in Request :
    \/ \E t \in Token : Accept(r, t)
    \/ \E status \in {"running", "done", "error"} :
         \E pub \in {"not_queued", "queued", "filtered_out"} : Store(r, status, pub)
    \/ Send(r)

Spec == Init /\ [][Next]_vars
=============================================================================
