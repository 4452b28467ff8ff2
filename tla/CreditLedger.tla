---------------------------- MODULE CreditLedger ----------------------------
(***************************************************************************)
(* One user's credits: the balance in users.credits, the rows of           *)
(* transactions, and the api_calls whose costs are charged to it.          *)
(* UsageRepository charges a call when its success is recorded, and the    *)
(* WeChat notification credits a recharge order. Each session reads the    *)
(* balance, awaits, and writes what it computed from the value it read; on *)
(* PostgreSQL it holds the user's row FOR UPDATE in between, on SQLite the *)
(* clause is not emitted and a SELECT opens no transaction.                *)
(*                                                                         *)
(* A cost is the number of credits it converts to, and a call's price is   *)
(* what cost_calculator makes of its row.                                  *)
(***************************************************************************)
EXTENDS Integers, Sequences

CONSTANTS
  Call,        \* provider calls (api_calls rows)
  Order,       \* recharge orders
  Notice,      \* deliveries of payment notifications
  OrderOf,     \* the order a notification is about
  Worth,       \* the credits an order buys
  Estimate,    \* the cost preflight computes for a call
  Costs,       \* the costs a finished call may turn out to have
  Adjustment,  \* an administrator's requests to change the balance
  By,          \* the credits an adjustment adds or takes
  Initial,     \* the balance to begin with
  Locks,       \* SELECT ... FOR UPDATE locks the row (PostgreSQL)
  None,        \* no session
  MaxCrashes   \* bound: how often the server crashes

ASSUME LedgerAssumption ==
  /\ Call \cap (Notice \cup Order) = {}
  /\ Adjustment \cap (Call \cup Notice) = {}
  /\ None \notin Call \cup Notice \cup Adjustment
  /\ By \in [Adjustment -> Int \ {0}]
  /\ OrderOf \in [Notice -> Order]
  /\ Worth \in [Order -> Nat]
  /\ Estimate \in [Call -> Nat] /\ Costs \subseteq Nat
  /\ Initial \in Nat /\ Locks \in BOOLEAN
  /\ MaxCrashes \in Nat

VARIABLES
  credits, \* users.credits
  ledger,  \* the completed transactions rows, oldest first
  denied,  \* the calls with a failed (amount 0) transactions row
  call,    \* api_calls.status; "none" before start_call
  cost,    \* the cost recorded with a successful call
  caller,  \* where the coroutine that makes the call stands
  notice,  \* where the handler of a notification stands
  read,    \* the balance a session has read
  lock,    \* the session that holds the user's row, or None
  admin,   \* where the handler of an adjustment stands
  adjusted, \* what adjustments have added to the balance so far (history)
  overwritten, \* one has been computed from an old balance (history)
  crashes

charging == <<call, cost, caller, denied>>
adjusting == <<admin, adjusted, overwritten>>
vars == <<credits, ledger, denied, call, cost, caller, notice, read, lock, adjusting,
          crashes>>

Session == Call \cup Notice \cup Adjustment

(* The trade_no of a row is C<call id> or the order's R number; `adjusted` *)
(* is history.                                                             *)
Row == [no : Call \cup Order, amount : Int, before : Nat, after : Nat, adjusted : Int]

(* The unique index on transactions.trade_no.                              *)
Recorded(no) == \E i \in 1..Len(ledger) : ledger[i].no = no

(* One transaction: the new balance and the row that explains it.          *)
Post(s, no, amount) ==
  /\ credits' = read[s] + amount
  /\ ledger' = Append(ledger, [no |-> no, amount |-> amount,
                               before |-> read[s], after |-> read[s] + amount,
                               adjusted |-> adjusted])

(* Mutant: the balance is read without the row lock.                       *)
ReadBalanceUnlocked(s) ==
  /\ read' = [read EXCEPT ![s] = credits]
  /\ UNCHANGED lock

(* SELECT ... FOR UPDATE of the user, and the end of the transaction.      *)
ReadBalance(s) ==
  /\ Locks => lock = None
  /\ read' = [read EXCEPT ![s] = credits]
  /\ lock' = IF Locks THEN s ELSE lock

(* Mutant: the transaction is left open.                                   *)
UnlockNever(s) == s \in Session /\ UNCHANGED lock

Unlock(s) == lock' = IF lock = s THEN None ELSE lock

Init ==
  /\ credits = Initial /\ ledger = <<>> /\ denied = {}
  /\ call = [c \in Call |-> "none"] /\ cost = [c \in Call |-> 0]
  /\ caller = [c \in Call |-> "idle"]
  /\ notice = [n \in Notice |-> "idle"]
  /\ read = [s \in Session |-> 0] /\ lock = None /\ crashes = 0
  /\ admin = [a \in Adjustment |-> "idle"] /\ adjusted = 0 /\ overwritten = FALSE

-----------------------------------------------------------------------------
(* A provider call                                                         *)

StartCall(c) ==
  /\ caller[c] = "idle"
  /\ call' = [call EXCEPT ![c] = "pending"]
  /\ caller' = [caller EXCEPT ![c] = "preflight"]
  /\ UNCHANGED <<credits, ledger, denied, cost, notice, read, lock, crashes, adjusting>>

(* A plain read: a call the balance cannot pay for is refused.             *)
Preflight(c) ==
  /\ caller[c] = "preflight"
  /\ IF Estimate[c] <= credits
       THEN /\ caller' = [caller EXCEPT ![c] = "calling"]
            /\ UNCHANGED <<call, denied>>
       ELSE /\ caller' = [caller EXCEPT ![c] = "done"]
            /\ call' = [call EXCEPT ![c] = "failed"]
            /\ denied' = denied \cup {c}
  /\ UNCHANGED <<credits, ledger, cost, notice, read, lock, crashes, adjusting>>

ProviderDelivers(c) ==
  /\ caller[c] \in {"calling", "resuming"}
  /\ caller' = [caller EXCEPT ![c] = "won"]
  /\ UNCHANGED <<credits, ledger, denied, call, cost, notice, read, lock, crashes, adjusting>>

(* A resumed call whose job has not expired raises without a record.       *)
ProviderFails(c) ==
  /\ \/ /\ caller[c] \in {"calling", "resuming"}
        /\ caller' = [caller EXCEPT ![c] = "lost"]
     \/ /\ caller[c] = "resuming"
        /\ caller' = [caller EXCEPT ![c] = "gone"]
  /\ UNCHANGED <<credits, ledger, denied, call, cost, notice, read, lock, crashes, adjusting>>

(* Mutant: the row is updated whatever its status.                         *)
FinishSuccessAgain(c) ==
  /\ caller[c] = "won"
  /\ \E due \in Costs :
       /\ call' = [call EXCEPT ![c] = "success"]
       /\ cost' = [cost EXCEPT ![c] = due]
       /\ caller' = [caller EXCEPT ![c] = IF due > 0 THEN "charge" ELSE "recorded"]
  /\ UNCHANGED <<credits, ledger, denied, notice, read, lock, crashes, adjusting>>

(* Mutant: a success is recorded but the deduction is left to a resume.    *)
FinishSuccessUnbilled(c) ==
  /\ caller[c] = "won"
  /\ caller' = [caller EXCEPT ![c] = "recorded"]
  /\ \E due \in Costs : /\ call' = [call EXCEPT ![c] = "success"]
                         /\ cost' = [cost EXCEPT ![c] = due]
  /\ UNCHANGED <<credits, ledger, denied, notice, read, lock, crashes, adjusting>>

(* finish_call(status="success"), and finalize_pending_by_call_id for a    *)
(* resumed call: whoever moves the row out of pending, charges it.         *)
FinishSuccess(c) ==
  /\ caller[c] = "won"
  /\ \/ /\ call[c] = "pending"
        /\ \E due \in Costs :
             /\ call' = [call EXCEPT ![c] = "success"]
             /\ cost' = [cost EXCEPT ![c] = due]
             /\ caller' = [caller EXCEPT ![c] = IF due > 0 THEN "charge" ELSE "recorded"]
     \/ /\ call[c] # "pending"
        /\ caller' = [caller EXCEPT ![c] = "recorded"]
        /\ UNCHANGED <<call, cost>>
  /\ UNCHANGED <<credits, ledger, denied, notice, read, lock, crashes, adjusting>>

(* finish_call(status="failed"): a call that succeeded stays so.           *)
FinishFailed(c) ==
  /\ caller[c] = "lost"
  /\ caller' = [caller EXCEPT ![c] = "recorded"]
  /\ call' = [call EXCEPT ![c] = IF @ = "pending" THEN "failed" ELSE @]
  /\ UNCHANGED <<credits, ledger, denied, cost, notice, read, lock, crashes, adjusting>>

(* _deduct_credits_for_call, up to the balance it reads.                   *)
ChargeReads(c) ==
  /\ caller[c] = "charge"
  /\ \/ /\ Recorded(c) \/ c \in denied
        /\ caller' = [caller EXCEPT ![c] = "done"]
        /\ UNCHANGED <<read, lock>>
     \/ /\ ~Recorded(c) /\ c \notin denied
        /\ ReadBalance(c)
        /\ caller' = [caller EXCEPT ![c] = "charging"]
  /\ UNCHANGED <<credits, ledger, denied, call, cost, notice, crashes, adjusting>>

(* ... and from there: the charge, or the record that it was not covered,  *)
(* which the generator answers by recording a failure.                     *)
ChargeWrites(c) ==
  /\ caller[c] = "charging"
  /\ \/ /\ read[c] >= cost[c]
        /\ Post(c, c, -cost[c])
        /\ caller' = [caller EXCEPT ![c] = "recorded"]
        /\ UNCHANGED denied
     \/ /\ read[c] < cost[c]
        /\ denied' = denied \cup {c}
        /\ caller' = [caller EXCEPT ![c] = "lost"]
        /\ UNCHANGED <<credits, ledger>>
  /\ Unlock(c)
  /\ UNCHANGED <<call, cost, notice, read, crashes, adjusting>>

(* The task's own row is written after all of this: until then a crash     *)
(* leaves an orphan whose call is resumed, whatever was recorded of it.    *)
CallReturns(c) ==
  /\ caller[c] = "recorded"
  /\ caller' = [caller EXCEPT ![c] = "done"]
  /\ UNCHANGED <<credits, ledger, denied, call, cost, notice, read, lock, crashes, adjusting>>

(* asyncio.CancelledError is not an Exception: no handler records it, and  *)
(* a transaction under way is rolled back.                                 *)
Cancelled(c) ==
  /\ caller[c] \notin {"idle", "done", "gone", "crashed"}
  /\ caller' = [caller EXCEPT ![c] = "gone"]
  /\ Unlock(c)
  /\ UNCHANGED <<credits, ledger, denied, call, cost, notice, read, crashes, adjusting>>

(* resume_video_async, on the api_call_id persisted with the task.         *)
Resume(c) ==
  /\ caller[c] = "crashed"
  /\ caller' = [caller EXCEPT ![c] = "resuming"]
  /\ UNCHANGED <<credits, ledger, denied, call, cost, notice, read, lock, crashes, adjusting>>

-----------------------------------------------------------------------------
(* A recharge                                                              *)

(* WeChat delivers a notification, and again until it is acknowledged.     *)
Arrives(n) ==
  /\ notice[n] = "idle"
  /\ notice' = [notice EXCEPT ![n] = "sent"]
  /\ UNCHANGED <<credits, ledger, charging, read, lock, crashes, adjusting>>

NoticeChecks(n) ==
  /\ notice[n] = "sent"
  /\ notice' = [notice EXCEPT ![n] = IF Recorded(OrderOf[n]) THEN "acked" ELSE "new"]
  /\ UNCHANGED <<credits, ledger, charging, read, lock, crashes, adjusting>>

NoticeReads(n) ==
  /\ notice[n] = "new"
  /\ ReadBalance(n)
  /\ notice' = [notice EXCEPT ![n] = "crediting"]
  /\ UNCHANGED <<credits, ledger, charging, crashes, adjusting>>

(* Mutant: no unique index on trade_no.                                    *)
NoticeWritesAgain(n) ==
  /\ notice[n] = "crediting"
  /\ Post(n, OrderOf[n], Worth[OrderOf[n]])
  /\ notice' = [notice EXCEPT ![n] = "acked"]
  /\ Unlock(n)
  /\ UNCHANGED <<charging, read, crashes, adjusting>>

(* A second row of the same order violates the unique index; everything is *)
(* rolled back and WeChat is told to try again.                            *)
NoticeWrites(n) ==
  /\ notice[n] = "crediting"
  /\ \/ /\ ~Recorded(OrderOf[n])
        /\ Post(n, OrderOf[n], Worth[OrderOf[n]])
        /\ notice' = [notice EXCEPT ![n] = "acked"]
     \/ /\ Recorded(OrderOf[n])
        /\ notice' = [notice EXCEPT ![n] = "sent"]
        /\ UNCHANGED <<credits, ledger>>
  /\ Unlock(n)
  /\ UNCHANGED <<charging, read, crashes, adjusting>>

-----------------------------------------------------------------------------
(* An administrator                                                        *)

(* adjust_user_credits: the user is read without a lock.                   *)
AdjustReads(a) ==
  /\ admin[a] = "idle"
  /\ read' = [read EXCEPT ![a] = credits]
  /\ admin' = [admin EXCEPT ![a] = IF credits + By[a] < 0 THEN "refused" ELSE "read"]
  /\ UNCHANGED <<credits, ledger, charging, notice, lock, adjusted, overwritten, crashes>>

(* The UPDATE waits for the row, and writes what was computed before; no   *)
(* transactions row explains it.                                           *)
AdjustWrites(a) ==
  /\ admin[a] = "read"
  /\ Locks => lock = None
  /\ credits' = read[a] + By[a]
  /\ adjusted' = adjusted + By[a]
  /\ overwritten' = (overwritten \/ read[a] # credits)
  /\ admin' = [admin EXCEPT ![a] = "done"]
  /\ UNCHANGED <<ledger, charging, notice, read, lock, crashes>>

-----------------------------------------------------------------------------
(* The server                                                              *)

(* A call whose id was persisted before its submission may be resumed.     *)
Crash ==
  /\ crashes < MaxCrashes
  /\ crashes' = crashes + 1
  /\ caller' = [c \in Call |->
       CASE caller[c] \in {"idle", "done", "gone", "crashed"} -> caller[c]
         [] caller[c] = "preflight" -> "gone"
         [] OTHER -> "crashed"]
  /\ notice' = [n \in Notice |-> IF notice[n] \in {"idle", "acked"} THEN notice[n]
                                                                    ELSE "sent"]
  /\ admin' = [a \in Adjustment |-> IF admin[a] = "read" THEN "refused" ELSE admin[a]]
  /\ lock' = None /\ read' = [s \in Session |-> 0]
  /\ UNCHANGED <<credits, ledger, denied, call, cost, adjusted, overwritten>>

-----------------------------------------------------------------------------
Caller(c) ==
  \/ StartCall(c) \/ Preflight(c) \/ ProviderDelivers(c) \/ ProviderFails(c)
  \/ FinishSuccess(c) \/ FinishFailed(c) \/ ChargeReads(c) \/ ChargeWrites(c)
  \/ CallReturns(c) \/ Cancelled(c) \/ Resume(c)

Notified(n) == NoticeChecks(n) \/ NoticeReads(n) \/ NoticeWrites(n)

Next ==
  \/ Crash
  \/ \E c \in Call : Caller(c)
  \/ \E n \in Notice : Arrives(n) \/ Notified(n)
  \/ \E a \in Adjustment : AdjustReads(a) \/ AdjustWrites(a)

Spec == Init /\ [][Next]_vars

(* The event loop serves every handler, and WeChat repeats a notification  *)
(* until it is acknowledged.                                               *)
Fairness ==
  /\ \A c \in Call : WF_vars(ChargeWrites(c))
  /\ \A n \in Notice : WF_vars(Notified(n))

FairSpec == Spec /\ Fairness

-----------------------------------------------------------------------------
(* Properties                                                              *)

LedgerTypeOK ==
  /\ credits \in Int
  /\ ledger \in Seq(Row) /\ denied \subseteq Call
  /\ call \in [Call -> {"none", "pending", "success", "failed"}]
  /\ cost \in [Call -> Nat]
  /\ caller \in [Call -> {"idle", "preflight", "calling", "resuming", "won", "lost",
                          "charge", "charging", "recorded", "done", "gone", "crashed"}]
  /\ notice \in [Notice -> {"idle", "sent", "new", "crediting", "acked"}]
  /\ read \in [Session -> Int]
  /\ lock \in Session \cup {None}
  /\ admin \in [Adjustment -> {"idle", "read", "done", "refused"}]
  /\ adjusted \in Int /\ overwritten \in BOOLEAN
  /\ crashes \in 0..MaxCrashes

(* The transactions, and what administrators added in between, account for *)
(* the balance, whatever interleaving of charges and recharges wrote them: *)
(* each starts from where the one before it ended, and the last one ends   *)
(* at users.credits. This is what a charge that was computed from a stale  *)
(* balance would break; an adjustment that overlaps a charge does break it,*)
(* and is the only thing that may (adjust_user_credits reads without the   *)
(* lock that _deduct_credits_for_call takes).                              *)
BooksBalance ==
  ~overwritten =>
    /\ \A i \in 2..Len(ledger) :
         ledger[i].before = ledger[i - 1].after + (ledger[i].adjusted - ledger[i - 1].adjusted)
    /\ ledger = <<>> => credits = Initial + adjusted
    /\ ledger # <<>> =>
         /\ ledger[1].before = Initial + ledger[1].adjusted
         /\ credits = ledger[Len(ledger)].after + (adjusted - ledger[Len(ledger)].adjusted)

(* transaction.py: "every change of users.credits writes a row". Not so    *)
(* for an adjustment.                                                      *)
EveryChangeHasARow ==
  /\ ledger = <<>> => credits = Initial
  /\ ledger # <<>> => ledger[Len(ledger)].after = credits

(* A call is charged once and an order is credited once, across crashes,   *)
(* resumed calls and repeated notifications.                               *)
NobodyPaysTwice ==
  \A i, j \in 1..Len(ledger) : ledger[i].no = ledger[j].no => i = j

(* What was charged is what the call's row says it cost, and only calls    *)
(* that succeeded were charged: once charged, the row never moves again.   *)
ChargesMatchCalls ==
  \A i \in 1..Len(ledger) : ledger[i].no \in Call =>
    /\ call[ledger[i].no] = "success"
    /\ ledger[i].amount = -cost[ledger[i].no]

Billed(c) == cost[c] > 0 => Recorded(c) \/ c \in denied

(* When the caller of a successful call goes on, the call is charged or    *)
(* known to be uncovered - as long as nothing crashed on the way.          *)
SuccessIsBilled ==
  crashes = 0 =>
    \A c \in Call : call[c] = "success" /\ caller[c] \in {"recorded", "done"} => Billed(c)

(* The same with crashes. resume_video_async: the resume path records the  *)
(* cost as the first attempt would have, "避免视频已生成但账本永久漏记".   *)
ResumedCallsAreBilled ==
  \A c \in Call : call[c] = "success" /\ caller[c] \in {"recorded", "done"} => Billed(c)

(* A paid order reaches the balance, although notifications race, fail on  *)
(* the unique index, and die with the server.                              *)
PaidOrdersAreCredited ==
  \A n \in Notice : (notice[n] # "idle") ~> Recorded(OrderOf[n])
=============================================================================
