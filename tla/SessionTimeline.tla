-------------------------- MODULE SessionTimeline --------------------------
(***************************************************************************)
(* One live session as its users see it: the messages they post, the log   *)
(* of entries that is the only source of the timeline, the session's       *)
(* status, and a reader that streams the log to a browser. The SDK side is *)
(* what SessionTurns promises: one turn at a time, over the queries that   *)
(* wait, in whatever order the actor takes them.                           *)
(*                                                                         *)
(* The session is one ManagedSession, from its connection to the end of its*)
(* actor: the task fails by itself, or closing the session cancels it after*)
(* a disconnect that timed out. An orderly disconnect, the watchdog's      *)
(* cancellation and the session's next connection are not modelled.        *)
(*                                                                         *)
(* A message is the client_key its sender chose; a post is one request     *)
(* that carries it, and a lost response makes the sender post it again.    *)
(***************************************************************************)
EXTENDS Sequences, SequencesExt, Integers, FiniteSets, FiniteSetsExt

CONSTANTS
  Message,     \* the client_keys
  Post,        \* the POST /send requests
  MessageOf,   \* the message a request carries
  NoPost,      \* no turn
  MaxSaid,     \* bound: the entries one turn writes
  MaxStreams,  \* bound: the times the reader connects
  QueueSize    \* queue_maxsize of a subscriber

ASSUME PostAssumption ==
  /\ NoPost \notin Post
  /\ MessageOf \in [Post -> Message]
  /\ {MaxSaid, MaxStreams, QueueSize} \subseteq Nat \ {0}

VARIABLES
  log,     \* agent_session_event_log: seq -> entry
  post,    \* how far a request has come
  seqOf,   \* the seq of the entry it has appended, or -1
  line,    \* the requests whose query waits for its turn
  turn,    \* the request whose turn it is
  said,    \* the entries this turn has produced
  ending,  \* what has ended the actor: "none", "failure" or "cancelled"
  inbox,   \* _inbox
  work,    \* what the inbox task is in the middle of
  status,  \* managed.status
  stop,    \* interrupt_requested
  db,      \* the status column of the session's row
  owed,    \* the write of the row that the actor's end still owes
  reader,  \* the stream: "off", "subscribed", "listed", "live",
           \* then "ended" by the completion of the turn whose result
           \* it holds back, "misled" by another's, or "gave_up"
  chan,    \* its queue
  last,    \* last_seq
  due,     \* the turn of pending_result, or NoPost
  got,     \* the entries it has been sent: seq -> entry
  streams, \* the times it has connected
  top,     \* the highest seq ever given out (history)
  reused,  \* seqs that have been given out twice (history)
  retracted  \* messages whose entry has been deleted (history)

logVars == <<log, seqOf, top, reused, retracted>>
turnVars == <<line, turn, said, ending>>
up == ending = "none"
statusVars == <<status, stop, db, owed>>
readerVars == <<reader, chan, last, due, got, streams>>
vars == <<log, post, seqOf, line, turn, said, ending, inbox, work, status, stop, db,
          owed, reader, chan, last, due, got, streams, top, reused,
          retracted>>

Statuses == {"idle", "running", "completed", "interrupted", "error"}
Stages == {"new", "repeated", "logged", "waiting", "accepted", "refused", "withdrawn",
           "failed", "lost", "cut", "escaped"}
Idle == [step |-> "none", seq |-> -1, as |-> "idle", of |-> NoPost]

UserEntry(m) == [by |-> "user", of |-> m]
AgentEntry(p) == [by |-> "agent", of |-> p]
Interrupt == [by |-> "system", of |-> "interrupt"]

-----------------------------------------------------------------------------
(* The log                                                                 *)

LastSeq == IF DOMAIN log = {} THEN -1 ELSE Max(DOMAIN log)

(* append: max(seq) + 1.                                                   *)
Written(entry) == [s \in DOMAIN log \cup {LastSeq + 1} |->
                     IF s = LastSeq + 1 THEN entry ELSE log[s]]

HasEntry(m) == \E s \in DOMAIN log : log[s] = UserEntry(m)

Append1(entry) ==
  /\ log' = Written(entry)
  /\ reused' = IF LastSeq < top THEN reused \cup {LastSeq + 1} ELSE reused
  /\ top' = Max({top, LastSeq + 1})

(* broadcast: each item to the subscriber's queue; on a full queue (they   *)
(* are all critical) the subscription ends with a signal instead.          *)
Item(kind, seq, entry) == [kind |-> kind, seq |-> seq, entry |-> entry]
EntryItem(seq) == Item("entry", seq, log[seq])
Mark(kind) == Item(kind, -1, Interrupt)
Cut == <<Mark("overflow")>>

Broadcast(items) ==
  chan' = IF reader \notin {"subscribed", "listed", "live"} \/ chan = Cut THEN chan
          ELSE IF Len(chan \o items) > QueueSize THEN Cut
          ELSE chan \o items
-----------------------------------------------------------------------------
(* Requests (send_message)                                                 *)

TimelineInit ==
  /\ log = <<>>
  /\ post = [p \in Post |-> "new"]
  /\ seqOf = [p \in Post |-> -1]
  /\ line = {}
  /\ turn = NoPost
  /\ said = 0
  /\ ending = "none"
  /\ inbox = <<>>
  /\ work = Idle
  /\ status = "idle"
  /\ stop = FALSE
  /\ db = "idle"
  /\ owed = "none"
  /\ reader = "off"
  /\ chan = <<>>
  /\ last = -1
  /\ due = NoPost
  /\ got = <<>>
  /\ streams = 0
  /\ top = -1
  /\ reused = {}
  /\ retracted = {}

(* find_by_client_key, append_user_entry: a message that has an entry is   *)
(* answered with it and goes no further. The update of the row to running  *)
(* follows in a transaction of its own; only this session's requests and   *)
(* its inbox task write the row, and nothing here reads it in between.     *)
Accept(p) ==
  /\ post[p] = "new"
  /\ IF HasEntry(MessageOf[p])
       THEN /\ post' = [post EXCEPT ![p] = "repeated"]
            /\ UNCHANGED <<logVars, db>>
       ELSE /\ post' = [post EXCEPT ![p] = "logged"]
            /\ seqOf' = [seqOf EXCEPT ![p] = LastSeq + 1]
            /\ Append1(UserEntry(MessageOf[p]))
            /\ db' = "running"
            /\ UNCHANGED retracted
  /\ UNCHANGED <<turnVars, inbox, work, status, stop, owed, readerVars>>

(* send_query up to its await; a cancelled actor answers with its          *)
(* CancelledError, which no handler of send_message catches.               *)
SendQuery(p) ==
  /\ post[p] = "logged"
  /\ post' = [post EXCEPT ![p] = CASE ending = "none" -> "waiting"
                                    [] ending = "failure" -> "refused"
                                    [] ending = "cancelled" -> "escaped"]
  /\ line' = IF up THEN line \cup {p} ELSE line
  /\ status' = IF ending = "cancelled" THEN "error" ELSE "running"
  /\ UNCHANGED <<logVars, turn, said, ending, inbox, work, stop, db, owed, readerVars>>

(* The same for one that was waiting when the actor was cancelled: the     *)
(* entry stays, and so does the row.                                       *)
Escape(p) ==
  /\ post[p] = "cut"
  /\ post' = [post EXCEPT ![p] = "escaped"]
  /\ status' = "error"
  /\ UNCHANGED <<logVars, turnVars, inbox, work, stop, db, owed, readerVars>>

(* Mutant: the entry of a message that was not delivered stays.            *)
WithdrawNothing(p) ==
  /\ post[p] = "refused"
  /\ post' = [post EXCEPT ![p] = "withdrawn"]
  /\ status' = "error"
  /\ UNCHANGED <<logVars, turnVars, inbox, work, stop, db, owed, readerVars>>

(* send_query raises: the entry is deleted again.                          *)
Withdraw(p) ==
  /\ post[p] = "refused"
  /\ post' = [post EXCEPT ![p] = "withdrawn"]
  /\ status' = "error"
  /\ log' = [s \in DOMAIN log \ {seqOf[p]} |-> log[s]]
  /\ retracted' = retracted \cup {MessageOf[p]}
  /\ UNCHANGED <<seqOf, top, reused, turnVars, inbox, work, stop, db, owed, readerVars>>

(* Mutant: the row keeps saying running.                                   *)
FailQuietly(p) ==
  /\ post[p] = "withdrawn"
  /\ post' = [post EXCEPT ![p] = "failed"]
  /\ UNCHANGED <<logVars, turnVars, inbox, work, statusVars, readerVars>>

Fail(p) ==
  /\ post[p] = "withdrawn"
  /\ post' = [post EXCEPT ![p] = "failed"]
  /\ db' = "error"
  /\ UNCHANGED <<logVars, turnVars, inbox, work, status, stop, owed, readerVars>>

(* interrupt_session. The turn that is then cut ends with ResultComes.     *)
InterruptSession ==
  /\ status = "running"
  /\ ~stop
  /\ stop' = TRUE
  /\ UNCHANGED <<logVars, post, turnVars, inbox, work, status, db, owed, readerVars>>
-----------------------------------------------------------------------------
(* The actor and its callbacks                                             *)

(* A query reaches the SDK; send_query returns before anything comes back, *)
(* and only then is the user's entry announced.                            *)
TurnStarts(p) ==
  /\ up
  /\ turn = NoPost
  /\ p \in line
  /\ line' = line \ {p}
  /\ turn' = p
  /\ said' = 0
  /\ post' = [post EXCEPT ![p] = "accepted"]
  /\ Broadcast(<<EntryItem(seqOf[p])>>)
  /\ UNCHANGED <<logVars, ending, inbox, work, statusVars, reader, last, due, got, streams>>

(* on_message, a message that becomes an entry.                            *)
TurnSpeaks ==
  /\ up
  /\ turn # NoPost
  /\ said < MaxSaid
  /\ said' = said + 1
  /\ inbox' = Append(inbox, [kind |-> "agent", of |-> turn, as |-> "running"])
  /\ UNCHANGED <<logVars, post, line, turn, ending, work, statusVars, readerVars>>

(* on_message, the result; interrupt_requested decides what it means.      *)
ResultComes ==
  /\ up
  /\ turn # NoPost
  /\ turn' = NoPost
  /\ inbox' = Append(inbox, [kind |-> "result", of |-> turn,
                             as |-> IF stop THEN "interrupted" ELSE "completed"])
  /\ Broadcast(<<Item("result", -1, AgentEntry(turn))>>)
  /\ UNCHANGED <<logVars, post, line, said, ending, work, statusVars,
                 reader, last, due, got, streams>>

(* What becomes of the queries in line when the actor ends: the one that   *)
(* cmd_task had fetched for a turn that breaks is dropped and its caller   *)
(* waits for ever, those the turn had put aside are refused, and the rest  *)
(* get what ended the actor.                                               *)
Leave(gone, aside, rest) ==
  /\ gone \subseteq line /\ \A p, q \in gone : p = q
  /\ aside \subseteq line \ gone
  /\ turn = NoPost => gone = {} /\ aside = {}
  /\ post' = [p \in Post |-> IF p \in gone THEN "lost"
                            ELSE IF p \in aside THEN "refused"
                            ELSE IF p \in line THEN rest ELSE post[p]]
  /\ turn' = NoPost /\ line' = {}

(* The actor task ends with an exception; _on_done. The inbox task still   *)
(* works off what it has.                                                  *)
ActorFails ==
  /\ up
  /\ ending' = "failure"
  /\ \E gone \in SUBSET line : Leave(gone, {}, "refused")
  /\ status' = "error"
  /\ owed' = "error"
  /\ Broadcast(<<Mark("status")>>)
  /\ UNCHANGED <<logVars, said, inbox, work, stop, db, reader, last, due, got, streams>>

(* _persist_actor_error_status                                             *)
PersistError ==
  /\ owed = "error"
  /\ owed' = "none"
  /\ db' = "error"
  /\ UNCHANGED <<logVars, post, turnVars, inbox, work, status, stop, readerVars>>

(* close_session, when the disconnect times out: _on_done ignores a task   *)
(* that was cancelled, and tells nobody.                                   *)
ActorCancelled ==
  /\ up
  /\ ending' = "cancelled"
  /\ \E gone, aside \in SUBSET line : Leave(gone, aside, "cut")
  /\ status' = "interrupted"
  /\ owed' = "closing"
  /\ UNCHANGED <<logVars, said, inbox, work, stop, db, readerVars>>

(* The rest of _evict_one, when the inbox task has worked off its queue.   *)
PersistClosed ==
  /\ owed = "closing" /\ inbox = <<>> /\ work = Idle
  /\ owed' = "none"
  /\ status' = IF status = "running" THEN "interrupted" ELSE status
  /\ db' = IF status' \in {"interrupted", "error"} THEN status' ELSE db
  /\ UNCHANGED <<logVars, post, turnVars, inbox, work, stop, readerVars>>
-----------------------------------------------------------------------------
(* The inbox task: SessionEntryPipeline, then _finalize_turn               *)

(* A message's entry is appended...                                        *)
LogMessage ==
  /\ work = Idle
  /\ inbox # <<>>
  /\ Head(inbox).kind = "agent"
  /\ inbox' = Tail(inbox)
  /\ work' = [Idle EXCEPT !.step = "announce", !.seq = LastSeq + 1]
  /\ Append1(AgentEntry(Head(inbox).of))
  /\ UNCHANGED <<seqOf, retracted, post, turnVars, statusVars, readerVars>>

(* ... and then announced.                                                 *)
AnnounceEntry ==
  /\ work.step = "announce"
  /\ work' = Idle
  /\ Broadcast(<<EntryItem(work.seq)>>)
  /\ UNCHANGED <<logVars, post, turnVars, inbox, statusVars,
                 reader, last, due, got, streams>>

(* A result; an interrupted turn leaves an entry unless the log's last one *)
(* says so already.                                                        *)
LogResult ==
  /\ work = Idle
  /\ inbox # <<>>
  /\ Head(inbox).kind = "result"
  /\ inbox' = Tail(inbox)
  /\ LET as == Head(inbox).as
         new == as = "interrupted" /\ (log = <<>> \/ log[LastSeq] # Interrupt)
     IN  /\ work' = [step |-> "complete", seq |-> IF new THEN LastSeq + 1 ELSE -1,
                     as |-> as, of |-> Head(inbox).of]
         /\ IF new THEN Append1(Interrupt) ELSE UNCHANGED <<log, top, reused>>
  /\ UNCHANGED <<seqOf, retracted, post, turnVars, statusVars, readerVars>>

(* log_turn_complete, and _finalize_turn up to its first await.            *)
CompleteTurn ==
  /\ work.step = "complete"
  /\ work' = [work EXCEPT !.step = "persist"]
  /\ status' = work.as
  /\ Broadcast((IF work.seq >= 0 THEN <<EntryItem(work.seq)>> ELSE <<>>) \o
               <<Item("complete", -1, AgentEntry(work.of))>>)
  /\ UNCHANGED <<logVars, post, turnVars, inbox, stop, db, owed,
                 reader, last, due, got, streams>>

PersistTurn ==
  /\ work.step = "persist"
  /\ work' = Idle
  /\ db' = work.as
  /\ stop' = FALSE
  /\ UNCHANGED <<logVars, post, turnVars, inbox, status, owed, readerVars>>

-----------------------------------------------------------------------------
(* The reader: stream_entry_events                                         *)

(* A running session: the subscription comes first...                      *)
Subscribe ==
  /\ reader = "off"
  /\ status = "running"
  /\ streams < MaxStreams
  /\ streams' = streams + 1
  /\ reader' = "subscribed"
  /\ chan' = <<>>
  /\ due' = NoPost
  /\ UNCHANGED <<logVars, post, turnVars, inbox, work, statusVars, last, got>>

(* ... then the entries above the cursor...                                *)
ListEntries ==
  /\ reader = "subscribed"
  /\ reader' = "listed"
  /\ LET new == {s \in DOMAIN log : s > last}
     IN  /\ got' = [s \in DOMAIN got \cup new |-> IF s \in new THEN log[s] ELSE got[s]]
         /\ last' = Max({last} \cup new)
  /\ UNCHANGED <<logVars, post, turnVars, inbox, work, statusVars, chan, due,
                 streams>>

(* Mutant: the subscription starts here.                                   *)
GoLiveFresh ==
  /\ reader = "listed"
  /\ reader' = IF status = "running" THEN "live" ELSE "ended"
  /\ chan' = <<>>
  /\ UNCHANGED <<logVars, post, turnVars, inbox, work, statusVars, last,
                 due, got, streams>>

(* ... then what is broadcast, unless nothing runs any more.               *)
GoLive ==
  /\ reader = "listed"
  /\ reader' = IF status = "running" THEN "live" ELSE "ended"
  /\ UNCHANGED <<logVars, post, turnVars, inbox, work, statusVars, chan, last,
                 due, got, streams>>

HearEntry ==
  /\ reader = "live"
  /\ chan # <<>>
  /\ Head(chan).kind = "entry"
  /\ chan' = Tail(chan)
  /\ LET i == Head(chan)
     IN  IF i.seq > last
           THEN /\ last' = i.seq
                /\ got' = [s \in DOMAIN got \cup {i.seq} |->
                             IF s = i.seq THEN i.entry ELSE got[s]]
           ELSE UNCHANGED <<last, got>>
  /\ UNCHANGED <<logVars, post, turnVars, inbox, work, statusVars, reader, due, streams>>

(* The raw result is held back until log_turn_complete.                    *)
HearResult ==
  /\ reader = "live"
  /\ chan # <<>>
  /\ Head(chan).kind = "result"
  /\ chan' = Tail(chan)
  /\ due' = Head(chan).entry.of
  /\ UNCHANGED <<logVars, post, turnVars, inbox, work, statusVars, reader, last,
                 got, streams>>

(* log_turn_complete ends the stream if a result is held back.             *)
HearComplete ==
  /\ reader = "live"
  /\ chan # <<>>
  /\ Head(chan).kind = "complete"
  /\ chan' = Tail(chan)
  /\ reader' = IF due = NoPost THEN "live"
               ELSE IF Head(chan).entry.of = due THEN "ended" ELSE "misled"
  /\ UNCHANGED <<logVars, post, turnVars, inbox, work, statusVars, last, due, got,
                 streams>>

(* A terminal runtime_status ends it at once.                              *)
HearStatus ==
  /\ reader = "live"
  /\ chan # <<>>
  /\ Head(chan).kind = "status"
  /\ chan' = Tail(chan)
  /\ reader' = "gave_up"
  /\ UNCHANGED <<logVars, post, turnVars, inbox, work, statusVars, last, due, got,
                 streams>>

(* The overflow signal ends the stream; the browser comes back with its    *)
(* cursor, as it does when the connection drops.                           *)
Reconnect ==
  /\ reader \in {"subscribed", "listed", "live"}
  /\ reader' = "off"
  /\ chan' = <<>>
  /\ UNCHANGED <<logVars, post, turnVars, inbox, work, statusVars, last, due, got,
                 streams>>

(* Heartbeats: nothing arrives any more and the turn is over.              *)
Heartbeat ==
  /\ reader = "live"
  /\ chan = <<>>
  /\ due # NoPost \/ status # "running"
  /\ reader' = "gave_up"
  /\ UNCHANGED <<logVars, post, turnVars, inbox, work, statusVars, chan, last, due,
                 got, streams>>
-----------------------------------------------------------------------------

PostStep ==
  \/ \E p \in Post : Accept(p) \/ SendQuery(p) \/ Escape(p) \/ Withdraw(p) \/ Fail(p)
  \/ InterruptSession

ActorStep ==
  \/ \E p \in Post : TurnStarts(p)
  \/ TurnSpeaks \/ ResultComes \/ ActorFails \/ PersistError
  \/ ActorCancelled \/ PersistClosed

InboxStep ==
  \/ LogMessage \/ AnnounceEntry \/ LogResult \/ CompleteTurn \/ PersistTurn

ReaderStep ==
  \/ Subscribe \/ ListEntries \/ GoLive \/ HearEntry \/ HearResult
  \/ HearComplete \/ HearStatus \/ Reconnect \/ Heartbeat

TimelineNext == PostStep \/ ActorStep \/ InboxStep \/ ReaderStep

TimelineSpec == TimelineInit /\ [][TimelineNext]_vars
-----------------------------------------------------------------------------
(* Properties                                                              *)

TimelineTypeOK ==
  /\ DOMAIN log \subseteq Nat
  /\ \A s \in DOMAIN log : log[s] \in {UserEntry(m) : m \in Message}
                                     \cup {AgentEntry(p) : p \in Post} \cup {Interrupt}
  /\ post \in [Post -> Stages]
  /\ seqOf \in [Post -> Nat \cup {-1}]
  /\ line \subseteq {p \in Post : post[p] = "waiting"}
  /\ turn \in {p \in Post : post[p] = "accepted"} \cup {NoPost}
  /\ said \in 0 .. MaxSaid
  /\ ending \in {"none", "failure", "cancelled"}
  /\ owed \in {"none", "error", "closing"}
  /\ work.step \in {"none", "announce", "complete", "persist"}
  /\ {status, db, work.as} \subseteq Statuses
  /\ stop \in BOOLEAN
  /\ reader \in {"off", "subscribed", "listed", "live", "ended", "misled", "gave_up"}
  /\ Len(chan) <= QueueSize
  /\ last \in Nat \cup {-1}
  /\ DOMAIN got \subseteq 0 .. last
  /\ streams \in 0 .. MaxStreams

(* What the SDK side of a request has come to, in the terms of             *)
(* SessionTurns, and that it comes to it as SessionTurns says: turns follow*)
(* one another, a query's turn is over when the SDK has ended it, and the  *)
(* requests that the end of the task finds or that come after it are given *)
(* an error for good. A dropped one is told nothing, ever.                 *)
Told(p) ==
  CASE post[p] \in {"refused", "withdrawn", "failed", "cut", "escaped"} -> "error"
    [] post[p] = "accepted" -> IF turn = p THEN "sent" ELSE "done"
    [] OTHER -> "none"

Delivery == INSTANCE SessionTurns
              WITH Cmd <- Post, Kind <- [p \in Post |-> "query"], NoCmd <- NoPost,
                   told <- [p \in Post |-> Told(p)], open <- up

TakesTurns == Delivery!Spec

(* The posts whose query the SDK has been given.                           *)
Given == {p \in Post : post[p] = "accepted"}

(* However often a message is posted again, the SDK gets it once; a sender *)
(* who is told that it was accepted finds it in the log. An entry turns    *)
(* every further post of its message away: it has a query on its way or    *)
(* delivered behind it, or one that the end of the actor caught. Of these, *)
(* a failing actor leaves one entry at most, that of a query it dropped    *)
(* with a broken turn; only a cancelled one leaves more. And only a post   *)
(* that was answered with an entry that another post then withdrew has     *)
(* nothing behind it.                                                      *)
Dropped == {p \in Post : post[p] = "lost"}
CutOff == {p \in Post : post[p] \in {"cut", "escaped"}}
Served(m) == \E p \in Post : /\ MessageOf[p] = m
                             /\ post[p] \in {"logged", "waiting", "refused", "accepted"}
AcceptedOnce ==
  /\ \A p, q \in Given : MessageOf[p] = MessageOf[q] => p = q
  /\ \A p \in Post : post[p] = "accepted" => /\ seqOf[p] \in DOMAIN log
                                             /\ log[seqOf[p]] = UserEntry(MessageOf[p])
  /\ \A m \in Message : HasEntry(m) =>
        Served(m) \/ \E p \in Dropped \cup CutOff : MessageOf[p] = m
  /\ \A p, q \in Dropped : p = q
  /\ Dropped # {} => ending # "none"
  /\ CutOff # {} => ending = "cancelled"
  /\ \A p \in Post : post[p] = "repeated" =>
        HasEntry(MessageOf[p]) \/ MessageOf[p] \in retracted

(* send_message (session_manager.py:910): "条目存在即上一次受理已（或正在） *)
(* 送入 SDK——投递失败的条目会被补偿删除，不会残留到这里" - when the actor  *)
(* has failed, no entry is left of a message that was not delivered.       *)
EntryMeansDelivery == ending = "failure" => \A m \in Message : HasEntry(m) => Served(m)

(* The subscription comes before the read of the log and the cursor        *)
(* filters what comes twice: what the agent writes reaches a reader        *)
(* without a gap, across overflows and reconnections. What it may lack     *)
(* below its cursor is a user's message that waited for its turn, an entry *)
(* that such a message overtook, and one at a seq that a withdrawn message *)
(* had before. And a stream that its turn's completion ends (the result is *)
(* held back until the entries are out) has come past all of them.         *)
ReaderKeepsUp ==
  /\ \A s \in DOMAIN log : (s <= last /\ s \notin reused) =>
        \/ s \in DOMAIN got /\ got[s] = log[s]
        \/ log[s].by = "user"
        \/ \E t \in DOMAIN got : t > s /\ got[t].by = "user"
  /\ reader = "ended" => \A s \in DOMAIN log : log[s] = AgentEntry(due) => s <= last

(* When everything has come to rest, neither the session nor its row still *)
(* says running, whatever ended its turns: a row left running would bar the*)
(* session's clean-up and keep readers waiting. The row of a session that  *)
(* was closed over a cancelled actor may say so for a post whose           *)
(* CancelledError skipped the handler that would have written it.          *)
AtRest ==
  /\ \A p \in Post : post[p] \in {"new", "repeated", "accepted", "failed", "lost", "escaped"}
  /\ turn = NoPost /\ inbox = <<>> /\ work = Idle /\ owed = "none"

SettledStatus ==
  AtRest => /\ status # "running"
            /\ db = "running" => \E p \in Post : post[p] = "escaped"

(* "once subscribed, no gap" (service.py:550, session_manager.py:1788): an  *)
(* accepted message below the cursor has been sent or is on its way.       *)
NoGaps ==
  reader = "live" =>
    \A p \in Given : seqOf[p] <= last =>
      \/ seqOf[p] \in DOMAIN got
      \/ \E i \in Range(chan) : i.kind = "entry" /\ i.seq = seqOf[p]
=============================================================================
