----------------------------- MODULE LogicalSend -----------------------------
(***************************************************************************)
(* What sending an encrypted message promises the user: a message leaves   *)
(* at most once, and what the view says of it is true.  A message shown as *)
(* failed has not been sent and is not sent unless it is submitted again;  *)
(* one shown as accepted has been sent.                                    *)
(***************************************************************************)
CONSTANTS Logicals,
          Controls   \* short-lived messages whose failure is final

VARIABLES view,      \* what the sender's views say of each message
          sent       \* the messages that went out

Failed == {"rejected", "aborted"}

Init == view = [l \in Logicals |-> "none"] /\ sent = {}

\* The user sends, or a failed message is tried again.
Submit(l) ==
  /\ view[l] = "none" \/ (view[l] \in Failed /\ l \notin Controls)
  /\ view' = [view EXCEPT ![l] = "pending"]
  /\ UNCHANGED sent

Send(l) ==
  /\ view[l] = "pending" /\ l \notin sent
  /\ sent' = sent \cup {l}
  /\ UNCHANGED view

Report(l) ==
  /\ view[l] = "pending"
  /\ \/ l \in sent /\ view' = [view EXCEPT ![l] = "accepted"]
     \/ l \notin sent /\ \E f \in Failed : view' = [view EXCEPT ![l] = f]
  /\ UNCHANGED sent

Next == \E l \in Logicals : Submit(l) \/ Send(l) \/ Report(l)

Spec == Init /\ [][Next]_<<view, sent>>
=============================================================================
