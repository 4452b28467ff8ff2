---------------------------- MODULE SessionActor ----------------------------
(***************************************************************************)
(* The task that owns one session's SDK client. Requests hand it commands  *)
(* through a queue and wait for `sent` (a query) or `done`; the task       *)
(* answers them while it drains the SDK's message stream.                  *)
(*                                                                         *)
(* A step is what the task does between two awaits. While a query is       *)
(* driven two helper tasks run beside it: msg_task, whose outcome is       *)
(* `stream`, and cmd_task, which takes the head of the queue into `held`.  *)
(* An ordinary message changes nothing the commands depend on, and is no   *)
(* step here; SessionTimeline follows the messages.                        *)
(***************************************************************************)
EXTENDS Sequences, SequencesExt, Integers, FiniteSets

CONSTANTS
  Cmd,   \* the commands that may be issued
  Kind,  \* what each asks for
  NoCmd  \* None

ASSUME CmdAssumption ==
  /\ NoCmd \notin Cmd
  /\ Kind \in [Cmd -> {"query", "interrupt", "disconnect"}]

VARIABLES
  at,      \* where the task is suspended
  queue,   \* _cmd_queue
  pending, \* pending_queries: queries that arrived during a turn
  current, \* the query being sent or driven
  held,    \* what cmd_task has fetched, or the command being carried out
  stream,  \* what msg_task has to report: "open" (nothing), "end", "fail"
  fatal,   \* _fatal is set
  told,    \* what the issuer of a command has been told
  asked    \* the commands in the order they were issued (history)

actorVars == <<at, queue, pending, current, held, stream, fatal, told, asked>>

Query == {c \in Cmd : Kind[c] = "query"}
Answered == {"done", "error"}
Issued == Range(asked)

-----------------------------------------------------------------------------
(* Helpers                                                                 *)

(* complete(error) on each command of a set; one already done keeps what   *)
(* its issuer has seen.                                                    *)
Refused(cs) ==
  [c \in Cmd |-> IF c \in cs /\ told[c] \notin Answered THEN "error" ELSE told[c]]

(* The loop takes command c from the queue or from the ended turn.         *)
(* `note` is what is known of the issuers by then.                         *)
Begin(c, note) ==
  /\ held' = NoCmd
  /\ stream' = "open"
  /\ CASE Kind[c] = "query" ->
            at' = "sending" /\ current' = c /\ told' = note
       [] Kind[c] = "interrupt" ->
            at' = "idle" /\ current' = NoCmd /\ told' = [note EXCEPT ![c] = "done"]
       [] OTHER ->
            at' = "closing" /\ current' = NoCmd /\ told' = [note EXCEPT ![c] = "done"]

(* An exception leaves _drive_query or client.query: the query and those   *)
(* behind it are refused, the client's context is left.                    *)
BreakOff ==
  /\ at' = "closing"
  /\ fatal' = TRUE
  /\ pending' = <<>>
  /\ current' = NoCmd
  /\ held' = NoCmd
  /\ stream' = "open"

-----------------------------------------------------------------------------
(* The callers                                                             *)

ActorInit ==
  /\ at = "starting"
  /\ queue = <<>>
  /\ pending = <<>>
  /\ current = NoCmd
  /\ held = NoCmd
  /\ stream = "open"
  /\ fatal = FALSE
  /\ told = [c \in Cmd |-> "none"]
  /\ asked = <<>>

(* enqueue                                                                 *)
Enqueue(c) ==
  /\ c \notin Issued
  /\ asked' = Append(asked, c)
  /\ IF at = "ended"
       THEN told' = Refused({c}) /\ UNCHANGED queue
       ELSE queue' = Append(queue, c) /\ UNCHANGED told
  /\ UNCHANGED <<at, pending, current, held, stream, fatal>>

(* cancel_and_wait, after a disconnect that timed out or from the watchdog.*)
(* An interrupt under way is still acknowledged; a command that cmd_task   *)
(* had fetched is not.                                                     *)
Cancelled ==
  /\ at \notin {"closing", "ended"}
  /\ told' = [c \in Cmd |-> IF at = "interrupting" /\ c = held
                             THEN "done"
                             ELSE Refused(Range(pending) \cup {current})[c]]
  /\ BreakOff
  /\ UNCHANGED <<queue, asked>>
-----------------------------------------------------------------------------
(* The task                                                                *)

(* __aenter__ returns or raises.                                           *)
Connected ==
  /\ at = "starting"
  /\ at' = "idle"
  /\ UNCHANGED <<queue, pending, current, held, stream, fatal, told, asked>>

ConnectFails ==
  /\ at = "starting"
  /\ at' = "ended"
  /\ fatal' = TRUE
  /\ told' = Refused(Range(queue))
  /\ queue' = <<>>
  /\ UNCHANGED <<pending, current, held, stream, asked>>

(* _command_loop, no turn in progress.                                     *)
TakeCommand ==
  /\ at = "idle"
  /\ queue # <<>>
  /\ Begin(Head(queue), told)
  /\ queue' = Tail(queue)
  /\ UNCHANGED <<pending, fatal, asked>>

(* client.query returns: the issuer is told and the turn is driven.        *)
QuerySent ==
  /\ at = "sending"
  /\ at' = "driving"
  /\ told' = [told EXCEPT ![current] = "sent"]
  /\ UNCHANGED <<queue, pending, current, held, stream, fatal, asked>>

QueryRefused ==
  /\ at = "sending"
  /\ told' = Refused({current})
  /\ BreakOff
  /\ UNCHANGED <<queue, asked>>

(* cmd_task: the head of the queue leaves it.                              *)
Fetch ==
  /\ at = "driving"
  /\ held = NoCmd
  /\ queue # <<>>
  /\ held' = Head(queue)
  /\ queue' = Tail(queue)
  /\ UNCHANGED <<at, pending, current, stream, fatal, told, asked>>

(* msg_task: the SDK ends the turn, or its stream or on_message raises.    *)
StreamOver(how) ==
  /\ at \in {"driving", "interrupting", "aborting"}
  /\ stream = "open"
  /\ stream' = how
  /\ UNCHANGED <<at, queue, pending, current, held, fatal, told, asked>>

(* Mutant: the queries behind the one handed over are dropped.             *)
TurnEndsDropping ==
  /\ at = "driving"
  /\ stream = "end"
  /\ LET over == [told EXCEPT ![current] = "done"]
     IN  IF pending # <<>>
           THEN /\ Begin(Head(pending), over)
                /\ queue' = queue \o (IF held # NoCmd THEN <<held>> ELSE <<>>)
           ELSE /\ IF held # NoCmd
                     THEN Begin(held, over)
                     ELSE /\ at' = "idle"
                          /\ current' = NoCmd
                          /\ told' = over
                          /\ stream' = "open"
                          /\ held' = NoCmd
                /\ UNCHANGED queue
  /\ pending' = <<>>
  /\ UNCHANGED <<fatal, asked>>

(* The turn has ended: the oldest waiting query is next; what cmd_task had *)
(* fetched and the other waiting queries go to the tail of the queue.      *)
TurnEnds ==
  /\ at = "driving"
  /\ stream = "end"
  /\ LET over == [told EXCEPT ![current] = "done"]
         back == IF held # NoCmd THEN <<held>> ELSE <<>>
     IN  \/ /\ pending # <<>>
            /\ Begin(Head(pending), over)
            /\ queue' = queue \o back \o Tail(pending)
         \/ /\ pending = <<>>
            /\ held # NoCmd
            /\ Begin(held, over)
            /\ UNCHANGED queue
         \/ /\ pending = <<>>
            /\ held = NoCmd
            /\ at' = "idle"
            /\ current' = NoCmd
            /\ told' = over
            /\ stream' = "open"
            /\ UNCHANGED <<held, queue>>
  /\ pending' = <<>>
  /\ UNCHANGED <<fatal, asked>>

(* The turn breaks; whatever cmd_task had fetched is dropped with it.      *)
TurnFails ==
  /\ at = "driving"
  /\ stream = "fail"
  /\ told' = Refused(Range(pending) \cup {current})
  /\ BreakOff
  /\ UNCHANGED <<queue, asked>>

(* Mutant: a query that arrives during a turn starts one of its own.       *)
HandleHeldAtOnce ==
  /\ at = "driving"
  /\ stream = "open"
  /\ held # NoCmd
  /\ IF Kind[held] = "query"
       THEN /\ current' = held
            /\ pending' = Append(pending, current)
            /\ held' = NoCmd
            /\ at' = "sending"
       ELSE /\ at' = IF Kind[held] = "interrupt" THEN "interrupting" ELSE "aborting"
            /\ UNCHANGED <<pending, held, current>>
  /\ UNCHANGED <<queue, stream, fatal, told, asked>>

(* A command fetched during the turn: a query waits, the others go to the  *)
(* client.                                                                 *)
HandleHeld ==
  /\ at = "driving"
  /\ stream = "open"
  /\ held # NoCmd
  /\ IF Kind[held] = "query"
       THEN /\ pending' = Append(pending, held)
            /\ held' = NoCmd
            /\ UNCHANGED at
       ELSE /\ at' = IF Kind[held] = "interrupt" THEN "interrupting" ELSE "aborting"
            /\ UNCHANGED <<pending, held>>
  /\ UNCHANGED <<queue, current, stream, fatal, told, asked>>

(* Mutant: the one who interrupts is not woken.                            *)
InterruptedSilently ==
  /\ at = "interrupting"
  /\ at' = "driving"
  /\ held' = NoCmd
  /\ UNCHANGED <<queue, pending, current, stream, fatal, told, asked>>

(* client.interrupt() returns.                                             *)
Interrupted ==
  /\ at = "interrupting"
  /\ at' = "driving"
  /\ told' = [told EXCEPT ![held] = "done"]
  /\ held' = NoCmd
  /\ UNCHANGED <<queue, pending, current, stream, fatal, asked>>

InterruptRaises ==
  /\ at = "interrupting"
  /\ told' = Refused(Range(pending) \cup {current, held})
  /\ BreakOff
  /\ UNCHANGED <<queue, asked>>

(* The interrupt before a disconnect returns: the turn is cut, the waiting *)
(* queries are refused, the disconnect is acknowledged.                    *)
Aborted ==
  /\ at = "aborting"
  /\ at' = "closing"
  /\ told' = [Refused(Range(pending)) EXCEPT ![current] = "done", ![held] = "done"]
  /\ pending' = <<>>
  /\ current' = NoCmd
  /\ held' = NoCmd
  /\ stream' = "open"
  /\ UNCHANGED <<queue, fatal, asked>>

(* It raises: nobody answers the disconnect.                               *)
AbortRaises ==
  /\ at = "aborting"
  /\ told' = Refused(Range(pending) \cup {current})
  /\ BreakOff
  /\ UNCHANGED <<queue, asked>>

(* __aexit__ is over (or raised); the queue is drained and the task ends.  *)
End ==
  /\ at = "closing"
  /\ at' = "ended"
  /\ \E raised \in BOOLEAN : fatal' = (fatal \/ raised)
  /\ told' = Refused(Range(queue))
  /\ queue' = <<>>
  /\ UNCHANGED <<pending, current, held, stream, asked>>
-----------------------------------------------------------------------------

TaskStep ==
  \/ Connected \/ ConnectFails \/ TakeCommand
  \/ QuerySent \/ QueryRefused
  \/ Fetch \/ TurnEnds \/ TurnFails \/ HandleHeld
  \/ Interrupted \/ InterruptRaises \/ Aborted \/ AbortRaises
  \/ End

ActorNext ==
  \/ \E c \in Cmd : Enqueue(c)
  \/ Cancelled
  \/ StreamOver("end")
  \/ StreamOver("fail")
  \/ TaskStep

ActorSpec == ActorInit /\ [][ActorNext]_actorVars

(* The event loop runs the task; a turn that stays silent is ended by the  *)
(* watchdog's cancellation, if by nothing else.                            *)
FairActorSpec ==
  /\ ActorSpec
  /\ WF_actorVars(TaskStep)
  /\ WF_actorVars(Cancelled /\ at \in {"sending", "driving", "interrupting", "aborting"})
-----------------------------------------------------------------------------
(* Properties                                                              *)

(* Type correctness, and what the task's place says of its turn: a query   *)
(* is current exactly while it is sent or driven, only queries wait behind *)
(* it, and a command is carried out only while one is held.                *)
ActorTypeOK ==
  /\ at \in {"starting", "idle", "sending", "driving", "interrupting",
             "aborting", "closing", "ended"}
  /\ queue \in Seq(Cmd)
  /\ pending \in Seq(Query)
  /\ current \in Query \cup {NoCmd}
  /\ held \in Cmd \cup {NoCmd}
  /\ stream \in {"open", "end", "fail"}
  /\ fatal \in BOOLEAN
  /\ told \in [Cmd -> {"none", "sent"} \cup Answered]
  /\ asked \in Seq(Cmd)
  /\ current # NoCmd <=> at \in {"sending", "driving", "interrupting", "aborting"}
  /\ at = "interrupting" => held # NoCmd /\ Kind[held] = "interrupt"
  /\ at = "aborting" => held # NoCmd /\ Kind[held] = "disconnect"
  /\ held # NoCmd => at \in {"driving", "interrupting", "aborting"}
  /\ pending # <<>> => at \in {"driving", "interrupting", "aborting"}

Waiting == {c \in Issued : told[c] \notin Answered}
One(c) == IF c = NoCmd THEN <<>> ELSE <<c>>
Places == queue \o pending \o One(current) \o One(held)

(* Through every hand-over between the queue, the queries that wait behind *)
(* a turn, the turn and the fetched command, a command whose issuer waits  *)
(* is in one place and in one only: none is dropped, none carried out      *)
(* twice. The exception is the one command that cmd_task had fetched (or   *)
(* the disconnect being carried out) when the task broke off: at most one, *)
(* and never when the task ends without an exception.                      *)
EveryCommandHasAPlace ==
  /\ at = "ended" => Places = <<>>
  /\ \A i, j \in DOMAIN Places : Places[i] = Places[j] => i = j
  /\ \A i \in DOMAIN Places : Places[i] \in Waiting
  /\ Cardinality(Waiting \ Range(Places))
       <= IF at \in {"closing", "ended"} /\ fatal THEN 1 ELSE 0

Turns == INSTANCE SessionTurns
           WITH turn <- current, open <- at \notin {"closing", "ended"}

(* What the callers are promised: one turn at a time, each ended by the    *)
(* SDK, not by the query that comes next; answers that are never revised.  *)
TurnsInTurn == Turns!Spec

(* A command, once issued, is answered or the task ends, whatever the SDK  *)
(* does (send_query, send_interrupt and send_disconnect await it).         *)
EveryCommandIsAnswered ==
  \A c \in Cmd : c \in Issued ~> (told[c] \in Answered \/ at = "ended")

(* "drain what is left so that no caller hangs", session_actor.py:88: not  *)
(* so for a command cmd_task fetched while the turn was failing.           *)
NobodyIsLeftWaiting == at = "ended" => Waiting = {}
=============================================================================
