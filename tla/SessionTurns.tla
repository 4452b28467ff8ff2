---------------------------- MODULE SessionTurns ----------------------------
(***************************************************************************)
(* What a session promises those who talk to it, whatever the order its    *)
(* task gives their commands: turns follow one another, a query's turn is  *)
(* over only when the SDK has ended it, an answer is final, and a closed   *)
(* session does nothing but refuse.                                        *)
(***************************************************************************)

CONSTANTS
  Cmd,   \* the commands
  Kind,  \* what each asks for
  NoCmd  \* no turn

VARIABLES
  told,  \* what the issuer of a command has been told
  turn,  \* the query whose turn it is
  open   \* the session takes commands

turnVars == <<told, turn, open>>

Final == {"done", "error"}

Init ==
  /\ told = [c \in Cmd |-> "none"]
  /\ turn = NoCmd
  /\ open = TRUE

(* A query is accepted as or after its turn begins, and done as it ends; a *)
(* command that is no query is done.                                       *)
Advance(c) ==
  \/ told'[c] = told[c]
  \/ Kind[c] # "query" /\ told[c] = "none" /\ told'[c] = "done"
  \/ c \in {turn, turn'} /\ told[c] = "none" /\ told'[c] = "sent"
  \/ c = turn /\ told[c] = "sent" /\ told'[c] = "done"

Proceed ==
  /\ open
  /\ open'
  /\ \A c \in Cmd : Advance(c)
  /\ \/ turn' = turn
     \/ /\ turn # NoCmd => told'[turn] = "done"
        /\ turn' \in Cmd => Kind[turn'] = "query" /\ told[turn'] = "none"

(* Only the turn it cuts short may still count as done.                    *)
Close ==
  /\ open
  /\ ~open'
  /\ turn' = NoCmd
  /\ \A c \in Cmd : \/ Advance(c)
                    \/ told[c] \notin Final /\ told'[c] = "error"

Refuse ==
  /\ ~open
  /\ \A c \in Cmd : \/ told'[c] = told[c]
                    \/ told[c] \notin Final /\ told'[c] = "error"
  /\ UNCHANGED <<turn, open>>

Next == Proceed \/ Close \/ Refuse

Spec == Init /\ [][Next]_turnVars
=============================================================================
