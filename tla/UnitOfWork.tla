----------------------------- MODULE UnitOfWork -----------------------------
(***************************************************************************)
(* What session_scope promises its callers (docstring of                   *)
(* EnvoxySessionManager.session_scope: "Commits if the block finishes      *)
(* normally, rolls back and re-raises on exception, and always closes the  *)
(* session"): each block is one unit of work, which the database keeps or  *)
(* drops as a whole, once, and before the caller hears of it; a caller who *)
(* hears no exception has had it kept, and every caller hears in the end.  *)
(***************************************************************************)
CONSTANT Callers

VARIABLES
  status,    \* of the caller's unit: none, open, kept or dropped
  heard      \* what the caller heard of its last unit: nothing, ok or raised

unit == <<status, heard>>

Init ==
  /\ status = [c \in Callers |-> "none"]
  /\ heard = [c \in Callers |-> "nothing"]

Begin(c) ==
  /\ status[c] = "none"
  /\ status' = [status EXCEPT ![c] = "open"]
  /\ heard' = [heard EXCEPT ![c] = "nothing"]

End(c) ==
  /\ status[c] = "open"
  /\ \E fate \in {"kept", "dropped"} : status' = [status EXCEPT ![c] = fate]
  /\ UNCHANGED heard

\* The answer to a commit can be lost: then a unit is kept and the caller
\* hears an exception all the same.
Hear(c) ==
  /\ status[c] \in {"kept", "dropped"}
  /\ status' = [status EXCEPT ![c] = "none"]
  /\ \E word \in {"raised"} \cup (IF status[c] = "kept" THEN {"ok"} ELSE {}) :
       heard' = [heard EXCEPT ![c] = word]

Next == \E c \in Callers : Begin(c) \/ End(c) \/ Hear(c)

Fairness == \A c \in Callers : WF_unit(End(c)) /\ WF_unit(Hear(c))

Spec == Init /\ [][Next]_unit /\ Fairness
=============================================================================
