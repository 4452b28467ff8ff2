------------------------- MODULE CreditLedgerProofs -------------------------
(***************************************************************************)
(* What CreditLedger promises, proved for every set of calls, orders,      *)
(* notifications and adjustments, every cost and any number of crashes.    *)
(* Only one theorem needs the database to lock the rows it reads FOR       *)
(* UPDATE: that the transactions account for the balance.                  *)
(***************************************************************************)
EXTENDS CreditLedger, TLAPS

(* A posted row is the last one; the others stay where they are.           *)
LEMMA PostAppends ==
  ASSUME LedgerTypeOK, NEW s \in Session, NEW no \in Call \cup Order, NEW amount \in Int,
         read[s] >= 0, read[s] + amount >= 0,
         Post(s, no, amount)
  PROVE  /\ ledger' \in Seq(Row) /\ Len(ledger') = Len(ledger) + 1
         /\ \A i \in 1..Len(ledger) : ledger'[i] = ledger[i]
         /\ ledger'[Len(ledger')] = [no |-> no, amount |-> amount, before |-> read[s],
                                     after |-> read[s] + amount, adjusted |-> adjusted]
         /\ credits' = read[s] + amount
<1> DEFINE row == [no |-> no, amount |-> amount, before |-> read[s],
                   after |-> read[s] + amount, adjusted |-> adjusted]
<1>1. row \in Row /\ ledger \in Seq(Row)
  BY DEF LedgerTypeOK, Row, Session
<1>2. ledger' = Append(ledger, row) /\ credits' = read[s] + amount
  BY DEF Post
<1> HIDE DEF row
<1>3. /\ ledger' \in Seq(Row) /\ Len(ledger') = Len(ledger) + 1
      /\ \A i \in 1..Len(ledger) : ledger'[i] = ledger[i]
      /\ ledger'[Len(ledger')] = row
  BY <1>1, <1>2
<1> QED BY <1>2, <1>3 DEF row

(***************************************************************************)
(* Types. A balance that was read is never negative, nor is the one that   *)
(* an adjustment is about to write.                                        *)
(***************************************************************************)

TypeInv ==
  /\ LedgerTypeOK
  /\ credits >= 0 /\ \A s \in Session : read[s] >= 0
  /\ \A a \in Adjustment : admin[a] = "read" => read[a] + By[a] >= 0

(* What the locking read gives its session, and no other.                  *)
LEMMA Reading ==
  ASSUME TypeInv, NEW s \in Call \cup Notice, ReadBalance(s)
  PROVE  /\ read' \in [Session -> Int] /\ \A r \in Session : read'[r] >= 0
         /\ \A a \in Adjustment : read'[a] = read[a]
         /\ read'[s] = credits /\ \A r \in Session : r # s => read'[r] = read[r]
         /\ lock' \in Session \cup {None}
<1>1. read' = [read EXCEPT ![s] = credits] /\ read \in [Session -> Int] /\ credits \in Int
  BY DEF ReadBalance, TypeInv, LedgerTypeOK
<1>2. lock' = s \/ lock' = lock
  BY DEF ReadBalance
<1>3. lock' \in Session \cup {None} /\ s \in Session
  BY <1>2 DEF TypeInv, LedgerTypeOK, Session
<1>4. \A a \in Adjustment : a # s /\ a \in Session
  BY LedgerAssumption DEF Session
<1> QED BY <1>1, <1>3, <1>4 DEF TypeInv

(* A step that leaves the balance, the rows and what was read alone.       *)
LEMMA TypeFrame ==
  ASSUME TypeInv, UNCHANGED <<credits, ledger, read, adjusting>>,
         denied' \subseteq Call,
         call' \in [Call -> {"none", "pending", "success", "failed"}],
         cost' \in [Call -> Nat],
         caller' \in [Call -> {"idle", "preflight", "calling", "resuming", "won", "lost",
                          "charge", "charging", "recorded", "done", "gone", "crashed"}],
         notice' \in [Notice -> {"idle", "sent", "new", "crediting", "acked"}],
         lock' \in Session \cup {None},
         crashes' \in 0..MaxCrashes
  PROVE  TypeInv'
BY DEF TypeInv, LedgerTypeOK, adjusting

(* Charging writes no negative balance, crediting adds a natural number.   *)
LEMMA TypeStep ==
  ASSUME TypeInv, [Next]_vars
  PROVE  TypeInv'
<1> USE LedgerAssumption
<1>t. LedgerTypeOK
  BY DEF TypeInv
<1>l. \A s \in Session : Unlock(s) => lock' \in Session \cup {None}
  BY <1>t DEF Unlock, LedgerTypeOK
<1>1. CASE Crash
  <2>1. \A c \in Call : caller'[c] \in {caller[c], "gone", "crashed"}
    <3> SUFFICES ASSUME NEW c \in Call PROVE caller'[c] \in {caller[c], "gone", "crashed"}
      OBVIOUS
    <3>1. CASE caller[c] \in {"idle", "done", "gone", "crashed"}
      BY <1>1, <3>1 DEF Crash
    <3>2. CASE caller[c] = "preflight"
      BY <1>1, <3>2 DEF Crash
    <3>3. CASE caller[c] \notin {"idle", "done", "gone", "crashed", "preflight"}
      BY <1>1, <3>3 DEF Crash
    <3> QED BY <3>1, <3>2, <3>3
  <2>2. caller' = [c \in Call |-> caller'[c]]
    BY <1>1 DEF Crash
  <2>3. caller' \in [Call -> {"idle", "preflight", "calling", "resuming", "won", "lost",
                          "charge", "charging", "recorded", "done", "gone", "crashed"}]
    BY <1>t, <2>1, <2>2 DEF LedgerTypeOK
  <2>4. notice' \in [Notice -> {"idle", "sent", "new", "crediting", "acked"}]
    BY <1>t, <1>1 DEF Crash, LedgerTypeOK
  <2>5. crashes' \in 0..MaxCrashes /\ lock' \in Session \cup {None}
        /\ UNCHANGED <<credits, ledger, denied, call, cost, adjusted, overwritten>>
    BY <1>t, <1>1 DEF Crash, LedgerTypeOK
  <2>6. read' \in [Session -> Int] /\ \A s \in Session : read'[s] >= 0
    BY <1>1 DEF Crash
  <2>7. /\ admin' \in [Adjustment -> {"idle", "read", "done", "refused"}]
        /\ \A a \in Adjustment : admin'[a] # "read"
    BY <1>t, <1>1 DEF Crash, LedgerTypeOK
  <2> QED BY <1>t, <2>3, <2>4, <2>5, <2>6, <2>7 DEF LedgerTypeOK, TypeInv
<1>2. ASSUME NEW c \in Call, Caller(c) PROVE TypeInv'
  <2>s. c \in Session
    BY DEF Session
  <2>a. UNCHANGED adjusting
    BY <1>2 DEF Caller, StartCall, Preflight, ProviderDelivers, ProviderFails, FinishSuccess,
         FinishFailed, ChargeReads, ChargeWrites, CallReturns, Cancelled, Resume
  <2>b. UNCHANGED <<admin, adjusted, overwritten>>
    BY <2>a DEF adjusting
  <2>1. CASE StartCall(c) \/ ProviderDelivers(c) \/ ProviderFails(c) \/ CallReturns(c) \/ Resume(c)
    <3>1. UNCHANGED <<credits, ledger, read, denied, cost, notice, lock, crashes>>
      BY <2>1 DEF StartCall, ProviderDelivers, ProviderFails, CallReturns, Resume
    <3>2. call' \in [Call -> {"none", "pending", "success", "failed"}]
      BY <1>t, <2>1 DEF StartCall, ProviderDelivers, ProviderFails, CallReturns, Resume,
                        LedgerTypeOK
    <3>3. caller' \in [Call -> {"idle", "preflight", "calling", "resuming", "won", "lost",
                          "charge", "charging", "recorded", "done", "gone", "crashed"}]
      BY <1>t, <2>1 DEF StartCall, ProviderDelivers, ProviderFails, CallReturns, Resume,
                        LedgerTypeOK
    <3> QED BY <1>t, <2>a, <3>1, <3>2, <3>3, TypeFrame DEF LedgerTypeOK
  <2>2. CASE Preflight(c) \/ FinishSuccess(c) \/ FinishFailed(c)
    <3>1. /\ call' \in [Call -> {"none", "pending", "success", "failed"}]
          /\ cost' \in [Call -> Nat] /\ denied' \subseteq Call
      <4>1. CASE Preflight(c) \/ FinishFailed(c)
        BY <1>t, <4>1 DEF Preflight, FinishFailed, LedgerTypeOK
      <4>2. CASE FinishSuccess(c)
        <5>1. UNCHANGED denied
          BY <4>2 DEF FinishSuccess
        <5>2. CASE UNCHANGED <<call, cost>>
          BY <1>t, <5>1, <5>2 DEF LedgerTypeOK
        <5>3. CASE \E due \in Costs : /\ call' = [call EXCEPT ![c] = "success"]
                                      /\ cost' = [cost EXCEPT ![c] = due]
          <6>1. PICK due \in Costs : /\ call' = [call EXCEPT ![c] = "success"]
                                     /\ cost' = [cost EXCEPT ![c] = due]
            BY <5>3
          <6>2. due \in Nat
            OBVIOUS
          <6>3. cost' \in [Call -> Nat]
            BY <1>t, <6>1, <6>2 DEF LedgerTypeOK
          <6>4. call' \in [Call -> {"none", "pending", "success", "failed"}]
            BY <1>t, <6>1 DEF LedgerTypeOK
          <6> QED BY <1>t, <5>1, <6>3, <6>4 DEF LedgerTypeOK
        <5> QED BY <4>2, <5>2, <5>3 DEF FinishSuccess
      <4> QED BY <2>2, <4>1, <4>2
    <3>2. caller' \in [Call -> {"idle", "preflight", "calling", "resuming", "won", "lost",
                          "charge", "charging", "recorded", "done", "gone", "crashed"}]
      <4>1. CASE Preflight(c)
        <5>1. \/ caller' = [caller EXCEPT ![c] = "calling"]
              \/ caller' = [caller EXCEPT ![c] = "done"]
          BY <4>1 DEF Preflight
        <5> QED BY <1>t, <5>1 DEF LedgerTypeOK
      <4>2. CASE FinishSuccess(c)
        BY <1>t, <4>2 DEF FinishSuccess, LedgerTypeOK
      <4>3. CASE FinishFailed(c)
        BY <1>t, <4>3 DEF FinishFailed, LedgerTypeOK
      <4> QED BY <2>2, <4>1, <4>2, <4>3
    <3>3. UNCHANGED <<credits, ledger, read, notice, lock, crashes>>
      BY <2>2 DEF Preflight, FinishSuccess, FinishFailed
    <3> QED BY <1>t, <2>a, <3>1, <3>2, <3>3, TypeFrame DEF LedgerTypeOK
  <2>3. CASE Cancelled(c)
    BY <1>t, <1>l, <2>s, <2>3, TypeFrame DEF Cancelled, LedgerTypeOK
  <2>4. CASE ChargeReads(c)
    <3>1. CASE UNCHANGED <<read, lock>>
      BY <1>t, <2>4, <3>1, TypeFrame DEF ChargeReads, LedgerTypeOK
    <3>2. CASE ReadBalance(c)
      <4>1. /\ caller' \in [Call -> {"idle", "preflight", "calling", "resuming", "won", "lost",
                            "charge", "charging", "recorded", "done", "gone", "crashed"}]
            /\ UNCHANGED <<credits, ledger, denied, call, cost, notice, crashes>>
        BY <1>t, <2>4 DEF ChargeReads, LedgerTypeOK
      <4>2. /\ read' \in [Session -> Int] /\ \A r \in Session : read'[r] >= 0
            /\ \A a \in Adjustment : read'[a] = read[a]
            /\ lock' \in Session \cup {None}
        BY <3>2, Reading
      <4> QED BY <1>t, <2>b, <4>1, <4>2 DEF LedgerTypeOK, TypeInv
    <3> QED BY <2>4, <3>1, <3>2 DEF ChargeReads
  <2>5. CASE ChargeWrites(c)
    <3>0. lock' \in Session \cup {None}
      BY <1>l, <2>s, <2>5 DEF ChargeWrites
    <3>1. CASE /\ read[c] >= cost[c] /\ Post(c, c, -cost[c]) /\ UNCHANGED denied
               /\ caller' = [caller EXCEPT ![c] = "recorded"]
      <4>1. /\ -cost[c] \in Int /\ read[c] \in Int /\ cost[c] \in Nat /\ c \in Call \cup Order
            /\ read[c] >= 0 /\ read[c] + (-cost[c]) >= 0
        BY <1>t, <2>s, <3>1 DEF LedgerTypeOK, TypeInv
      <4>2. ledger' \in Seq(Row) /\ credits' = read[c] + (-cost[c])
        BY <1>t, <2>s, <3>1, <4>1, PostAppends
      <4>3. UNCHANGED <<call, cost, notice, read, crashes, denied>>
        BY <2>5, <3>1 DEF ChargeWrites
      <4> QED BY <1>t, <2>b, <3>0, <3>1, <4>1, <4>2, <4>3 DEF TypeInv, LedgerTypeOK
    <3>2. CASE caller' = [caller EXCEPT ![c] = "lost"] /\ UNCHANGED <<credits, ledger>>
      <4>1. denied' \subseteq Call
        BY <1>t, <2>5 DEF ChargeWrites, LedgerTypeOK
      <4> QED BY <1>t, <2>5, <3>0, <3>2, <4>1, TypeFrame DEF ChargeWrites, LedgerTypeOK
    <3> QED BY <2>5, <3>1, <3>2 DEF ChargeWrites
  <2> QED BY <1>2, <2>1, <2>2, <2>3, <2>4, <2>5 DEF Caller
<1>3. ASSUME NEW n \in Notice, Arrives(n) \/ Notified(n) PROVE TypeInv'
  <2>s. n \in Session /\ OrderOf[n] \in Order /\ Worth[OrderOf[n]] \in Nat
    BY DEF Session
  <2>a. UNCHANGED adjusting
    BY <1>3 DEF Arrives, Notified, NoticeChecks, NoticeReads, NoticeWrites
  <2>b. UNCHANGED <<admin, adjusted, overwritten>>
    BY <2>a DEF adjusting
  <2>1. CASE Arrives(n) \/ NoticeChecks(n)
    <3>1. notice' \in [Notice -> {"idle", "sent", "new", "crediting", "acked"}]
      BY <1>t, <2>1 DEF Arrives, NoticeChecks, LedgerTypeOK
    <3>2. UNCHANGED <<credits, ledger, denied, call, cost, caller, read, lock, crashes>>
      BY <2>1 DEF Arrives, NoticeChecks, charging
    <3> QED BY <1>t, <2>a, <3>1, <3>2, TypeFrame DEF LedgerTypeOK
  <2>2. CASE NoticeReads(n)
    <3>1. notice' \in [Notice -> {"idle", "sent", "new", "crediting", "acked"}]
      BY <1>t, <2>2 DEF NoticeReads, LedgerTypeOK
    <3>2. UNCHANGED <<credits, ledger, denied, call, cost, caller, crashes>> /\ ReadBalance(n)
      BY <2>2 DEF NoticeReads, charging
    <3> QED BY <1>t, <2>s, <2>b, <3>1, <3>2, Reading DEF LedgerTypeOK, TypeInv
  <2>3. CASE NoticeWrites(n)
    <3>0. /\ lock' \in Session \cup {None}
          /\ UNCHANGED <<denied, call, cost, caller, read, crashes>>
          /\ notice' \in [Notice -> {"idle", "sent", "new", "crediting", "acked"}]
      BY <1>t, <1>l, <2>s, <2>3 DEF NoticeWrites, charging, LedgerTypeOK
    <3>1. CASE Post(n, OrderOf[n], Worth[OrderOf[n]])
      <4>1. read[n] \in Int /\ read[n] >= 0 /\ OrderOf[n] \in Call \cup Order
            /\ Worth[OrderOf[n]] \in Int
        BY <1>t, <2>s DEF LedgerTypeOK, TypeInv
      <4>2. read[n] + Worth[OrderOf[n]] >= 0
        BY <2>s, <4>1
      <4>3. ledger' \in Seq(Row) /\ credits' = read[n] + Worth[OrderOf[n]]
        <5> DEFINE no == OrderOf[n]
                   amount == Worth[OrderOf[n]]
        <5>1. /\ no \in Call \cup Order /\ amount \in Int
              /\ read[n] >= 0 /\ read[n] + amount >= 0 /\ Post(n, no, amount)
          BY <3>1, <4>1, <4>2
        <5> HIDE DEF no, amount
        <5>2. ledger' \in Seq(Row) /\ credits' = read[n] + amount
          BY <1>t, <2>s, <5>1, PostAppends
        <5> QED BY <5>2 DEF amount
      <4> QED BY <1>t, <2>b, <3>0, <4>1, <4>2, <4>3 DEF TypeInv, LedgerTypeOK
    <3>2. CASE UNCHANGED <<credits, ledger>>
      BY <1>t, <2>a, <3>0, <3>2, TypeFrame DEF LedgerTypeOK
    <3> QED BY <2>3, <3>1, <3>2 DEF NoticeWrites
  <2> QED BY <1>3, <2>1, <2>2, <2>3 DEF Notified
<1>4. CASE UNCHANGED vars
  BY <1>t, <1>4, TypeFrame DEF vars, LedgerTypeOK
<1>5. ASSUME NEW a \in Adjustment, AdjustReads(a) PROVE TypeInv'
  <2>1. read' = [read EXCEPT ![a] = credits] /\ a \in Session
    BY <1>5 DEF AdjustReads, Session
  <2>2. read' \in [Session -> Int] /\ \A s \in Session : read'[s] >= 0
    BY <1>t, <2>1 DEF LedgerTypeOK, TypeInv
  <2>3. /\ admin' \in [Adjustment -> {"idle", "read", "done", "refused"}]
        /\ \A b \in Adjustment : admin'[b] = "read" => read'[b] + By[b] >= 0
    <3>1. admin' = [admin EXCEPT ![a] = IF credits + By[a] < 0 THEN "refused" ELSE "read"]
      BY <1>5 DEF AdjustReads
    <3>2. \A b \in Adjustment : b \in Session /\ By[b] \in Int
      BY DEF Session
    <3>3. admin' \in [Adjustment -> {"idle", "read", "done", "refused"}]
      BY <1>t, <3>1 DEF LedgerTypeOK
    <3>4. ASSUME NEW b \in Adjustment, admin'[b] = "read" PROVE read'[b] + By[b] >= 0
      <4>1. CASE b = a
        <5>1. ~(credits + By[a] < 0)
          BY <1>t, <3>1, <3>4, <4>1 DEF LedgerTypeOK
        <5>2. read'[a] = credits
          BY <1>t, <2>1 DEF LedgerTypeOK
        <5> QED BY <1>t, <3>2, <4>1, <5>1, <5>2 DEF LedgerTypeOK
      <4>2. CASE b # a
        <5>1. admin[b] = "read" /\ read'[b] = read[b]
          BY <1>t, <2>1, <3>1, <3>2, <3>4, <4>2 DEF LedgerTypeOK
        <5> QED BY <5>1 DEF TypeInv
      <4> QED BY <4>1, <4>2
    <3> QED BY <3>3, <3>4
  <2>4. UNCHANGED <<credits, ledger, denied, call, cost, caller, notice, lock, adjusted,
                    overwritten, crashes>>
    BY <1>5 DEF AdjustReads, charging
  <2> QED BY <1>t, <2>2, <2>3, <2>4 DEF LedgerTypeOK, TypeInv
<1>6. ASSUME NEW a \in Adjustment, AdjustWrites(a) PROVE TypeInv'
  <2>1. a \in Session /\ By[a] \in Int
    BY DEF Session
  <2>2. credits' \in Int /\ credits' >= 0 /\ adjusted' \in Int
    BY <1>t, <1>6, <2>1 DEF AdjustWrites, LedgerTypeOK, TypeInv
  <2>3. /\ admin' \in [Adjustment -> {"idle", "read", "done", "refused"}]
        /\ \A b \in Adjustment : admin'[b] = "read" => admin[b] = "read"
    BY <1>t, <1>6 DEF AdjustWrites, LedgerTypeOK
  <2>4. overwritten' \in BOOLEAN
    BY <1>6 DEF AdjustWrites
  <2>5. UNCHANGED <<ledger, denied, call, cost, caller, notice, read, lock, crashes>>
    BY <1>6 DEF AdjustWrites, charging
  <2> QED BY <1>t, <2>2, <2>3, <2>4, <2>5 DEF LedgerTypeOK, TypeInv
<1> QED BY <1>1, <1>2, <1>3, <1>4, <1>5, <1>6 DEF Next

(* The types hold initially.                                               *)
LEMMA TypeInit == Init => TypeInv
<1> SUFFICES ASSUME Init PROVE TypeInv
  OBVIOUS
<1> USE LedgerAssumption
<1>1. /\ credits \in Int /\ credits >= 0 /\ denied \subseteq Call
      /\ adjusted \in Int /\ crashes \in 0..MaxCrashes
  BY DEF Init
<1>2. <<>> \in Seq(Row)
  OBVIOUS
<1>3. ledger = <<>> /\ overwritten = FALSE /\ lock = None
  BY DEF Init
<1>4. ledger \in Seq(Row) /\ overwritten \in BOOLEAN /\ lock \in Session \cup {None}
  BY <1>2, <1>3
<1>5. /\ call \in [Call -> {"none", "pending", "success", "failed"}]
      /\ cost \in [Call -> Nat]
      /\ caller \in [Call -> {"idle", "preflight", "calling", "resuming", "won", "lost",
                          "charge", "charging", "recorded", "done", "gone", "crashed"}]
      /\ notice \in [Notice -> {"idle", "sent", "new", "crediting", "acked"}]
  BY DEF Init
<1>6. /\ read \in [Session -> Int] /\ \A s \in Session : read[s] >= 0
      /\ admin \in [Adjustment -> {"idle", "read", "done", "refused"}]
      /\ \A a \in Adjustment : admin[a] # "read"
  BY DEF Init
<1> QED BY <1>1, <1>4, <1>5, <1>6 DEF TypeInv, LedgerTypeOK

(* The columns keep their types.                                           *)
THEOREM LedgerTyping == Spec => []LedgerTypeOK
<1>1. TypeInv /\ [Next]_vars => TypeInv'
  BY TypeStep
<1>2. TypeInv => LedgerTypeOK
  BY DEF TypeInv
<1> QED BY <1>1, <1>2, TypeInit, PTL DEF Spec

(***************************************************************************)
(* The books balance                                                       *)
(***************************************************************************)

(* Who is about to write holds the row, and the balance is what it read.   *)
LockInv ==
  /\ \A c \in Call : caller[c] = "charging" => lock = c /\ read[c] = credits
  /\ \A n \in Notice : notice[n] = "crediting" => lock = n /\ read[n] = credits

(* A row that starts from the balance continues the chain.                 *)
LEMMA PostBalances ==
  ASSUME TypeInv, BooksBalance, NEW s \in Session, NEW no \in Call \cup Order,
         NEW amount \in Int, read[s] = credits, read[s] + amount >= 0,
         Post(s, no, amount), UNCHANGED adjusting
  PROVE  BooksBalance'
<1> SUFFICES ASSUME ~overwritten PROVE BooksBalance'
  BY DEF BooksBalance, adjusting
<1>a. adjusted' = adjusted /\ adjusted \in Int
  BY DEF adjusting, TypeInv, LedgerTypeOK
<1>0. /\ ledger' \in Seq(Row) /\ Len(ledger') = Len(ledger) + 1
      /\ \A i \in 1..Len(ledger) : ledger'[i] = ledger[i]
      /\ ledger'[Len(ledger')] = [no |-> no, amount |-> amount, before |-> read[s],
                                  after |-> read[s] + amount, adjusted |-> adjusted]
      /\ credits' = read[s] + amount
  BY PostAppends DEF TypeInv
<1>1. /\ Len(ledger') = Len(ledger) + 1 /\ Len(ledger) \in Nat
      /\ \A i \in 1..Len(ledger) : ledger'[i] = ledger[i]
      /\ ledger'[Len(ledger')].before = credits
      /\ ledger'[Len(ledger')].after = credits' /\ credits' \in Int
      /\ ledger'[Len(ledger')].adjusted = adjusted
      /\ ledger' # <<>>
  BY <1>0 DEF TypeInv, LedgerTypeOK
<1>2. ledger # <<>> =>
        /\ Len(ledger) >= 1
        /\ credits = ledger[Len(ledger)].after + (adjusted - ledger[Len(ledger)].adjusted)
        /\ ledger[1].before = Initial + ledger[1].adjusted
  BY DEF BooksBalance, TypeInv, LedgerTypeOK
<1>3. ledger = <<>> => Len(ledger) = 0 /\ credits = Initial + adjusted
  BY DEF BooksBalance
<1>4. \A i \in 2..Len(ledger') :
        ledger'[i].before = ledger'[i - 1].after + (ledger'[i].adjusted - ledger'[i - 1].adjusted)
  <2> SUFFICES ASSUME NEW i \in 2..Len(ledger')
               PROVE  ledger'[i].before = ledger'[i - 1].after
                                            + (ledger'[i].adjusted - ledger'[i - 1].adjusted)
    OBVIOUS
  <2>1. CASE i \in 2..Len(ledger)
    <3>1. i - 1 \in 1..Len(ledger) /\ i \in 1..Len(ledger)
      BY <1>1, <2>1
    <3> QED BY <1>1, <2>1, <3>1 DEF BooksBalance
  <2>2. CASE i = Len(ledger')
    <3>1. i - 1 = Len(ledger) /\ Len(ledger) \in 1..Len(ledger) /\ ledger # <<>>
      BY <1>1, <1>3, <2>2
    <3> QED BY <1>1, <1>2, <2>2, <3>1
  <2> QED BY <1>1, <2>1, <2>2
<1>5. ledger'[1].before = Initial + ledger'[1].adjusted
  BY <1>1, <1>2, <1>3
<1>6. credits' = ledger'[Len(ledger')].after + (adjusted' - ledger'[Len(ledger')].adjusted)
  BY <1>1, <1>a
<1> QED BY <1>1, <1>4, <1>5, <1>6 DEF BooksBalance

(* Where SELECT ... FOR UPDATE locks, the transactions and the adjustments *)
(* account for the balance, until an adjustment is computed from a stale   *)
(* one: no charge and no recharge ever is.                                 *)
THEOREM BooksAlwaysBalance ==
  ASSUME Locks = TRUE
  PROVE  Spec => []BooksBalance
<1>1. Init => LockInv /\ BooksBalance
  BY LedgerAssumption DEF Init, LockInv, BooksBalance
<1>2. ASSUME TypeInv, LockInv, BooksBalance, [Next]_vars
      PROVE  LockInv' /\ BooksBalance'
  <2> USE LedgerAssumption
  <2>t. LedgerTypeOK
    BY <1>2 DEF TypeInv
  <2>u. UNCHANGED <<credits, ledger, adjusted, overwritten>> => BooksBalance'
    BY <1>2 DEF BooksBalance
  <2>1. CASE Crash
    BY <1>2, <2>t, <2>u, <2>1 DEF Crash, LockInv, LedgerTypeOK
  <2>2. ASSUME NEW c \in Call, Caller(c) PROVE LockInv' /\ BooksBalance'
    <3>a. UNCHANGED adjusting
      BY <2>2 DEF Caller, StartCall, Preflight, ProviderDelivers, ProviderFails,
           FinishSuccess, FinishFailed, ChargeReads, ChargeWrites, CallReturns, Cancelled, Resume
    <3>u. UNCHANGED <<credits, ledger>> => BooksBalance'
      BY <2>u, <3>a DEF adjusting
    <3>1. CASE \/ StartCall(c) \/ Preflight(c) \/ ProviderDelivers(c) \/ ProviderFails(c)
               \/ FinishSuccess(c) \/ FinishFailed(c) \/ CallReturns(c) \/ Resume(c)
      <4>1. UNCHANGED <<credits, ledger, notice, read, lock>>
        BY <3>1 DEF StartCall, Preflight, ProviderDelivers, ProviderFails, FinishSuccess,
                    FinishFailed, CallReturns, Resume
      <4>2. \A d \in Call : caller'[d] = "charging" => caller[d] = "charging"
        BY <2>t, <3>1 DEF StartCall, Preflight, ProviderDelivers, ProviderFails,
                          FinishSuccess, FinishFailed, CallReturns, Resume, LedgerTypeOK
      <4> QED BY <1>2, <3>u, <4>1, <4>2 DEF LockInv
    <3>2. CASE Cancelled(c)
      BY <1>2, <2>t, <3>u, <3>2 DEF Cancelled, Unlock, LockInv, LedgerTypeOK
    <3>3. CASE ChargeReads(c)
      BY <1>2, <2>t, <3>u, <3>3 DEF ChargeReads, ReadBalance, LockInv, LedgerTypeOK, Session
    <3>4. CASE ChargeWrites(c)
      <4>1. lock = c /\ read[c] = credits /\ c \in Session
        BY <1>2, <3>4 DEF ChargeWrites, LockInv, Session
      <4>2. LockInv'
        <5>1. /\ \A d \in Call : d # c => caller[d] # "charging"
              /\ \A n \in Notice : notice[n] # "crediting"
          BY <1>2, <4>1 DEF LockInv
        <5> QED BY <2>t, <3>4, <5>1 DEF ChargeWrites, LockInv, LedgerTypeOK
      <4>3. CASE read[c] >= cost[c] /\ Post(c, c, -cost[c])
        <5>1. -cost[c] \in Int /\ read[c] + (-cost[c]) >= 0
          BY <2>t, <4>1, <4>3 DEF LedgerTypeOK
        <5> QED BY <1>2, <3>a, <4>1, <4>2, <4>3, <5>1, PostBalances
      <4>4. CASE UNCHANGED <<credits, ledger>>
        BY <3>u, <4>2, <4>4
      <4> QED BY <3>4, <4>3, <4>4 DEF ChargeWrites
    <3> QED BY <2>2, <3>1, <3>2, <3>3, <3>4 DEF Caller
  <2>3. ASSUME NEW n \in Notice, Arrives(n) \/ Notified(n) PROVE LockInv' /\ BooksBalance'
    <3>a. UNCHANGED adjusting
      BY <2>3 DEF Arrives, Notified, NoticeChecks, NoticeReads, NoticeWrites
    <3>u. UNCHANGED <<credits, ledger>> => BooksBalance'
      BY <2>u, <3>a DEF adjusting
    <3>1. CASE Arrives(n) \/ NoticeChecks(n)
      BY <1>2, <2>t, <3>u, <3>1 DEF Arrives, NoticeChecks, charging, LockInv, LedgerTypeOK
    <3>2. CASE NoticeReads(n)
      BY <1>2, <2>t, <3>u, <3>2
         DEF NoticeReads, ReadBalance, charging, LockInv, LedgerTypeOK, Session
    <3>3. CASE NoticeWrites(n)
      <4>1. lock = n /\ read[n] = credits /\ n \in Session
        BY <1>2, <3>3 DEF NoticeWrites, LockInv, Session
      <4>2. LockInv'
        <5>1. /\ \A c \in Call : caller[c] # "charging"
              /\ \A m \in Notice : m # n => notice[m] # "crediting"
          BY <1>2, <4>1 DEF LockInv
        <5> QED BY <2>t, <3>3, <5>1 DEF NoticeWrites, charging, LockInv, LedgerTypeOK
      <4>3. CASE Post(n, OrderOf[n], Worth[OrderOf[n]])
        <5>1. /\ Worth[OrderOf[n]] \in Int /\ read[n] + Worth[OrderOf[n]] >= 0
              /\ OrderOf[n] \in Call \cup Order
          BY <1>2, <2>t, <4>1 DEF LedgerTypeOK, TypeInv
        <5> QED BY <1>2, <3>a, <4>1, <4>2, <4>3, <5>1, PostBalances
      <4>4. CASE UNCHANGED <<credits, ledger>>
        BY <3>u, <4>2, <4>4
      <4> QED BY <3>3, <4>3, <4>4 DEF NoticeWrites
    <3> QED BY <2>3, <3>1, <3>2, <3>3 DEF Notified
  <2>4. CASE UNCHANGED vars
    BY <1>2, <2>u, <2>4 DEF vars, adjusting, LockInv
  <2>5. ASSUME NEW a \in Adjustment, AdjustReads(a) PROVE LockInv' /\ BooksBalance'
    <3>1. /\ UNCHANGED <<credits, ledger, adjusted, overwritten, caller, notice, lock>>
          /\ read' = [read EXCEPT ![a] = credits]
      BY <2>5 DEF AdjustReads, charging
    <3>2. \A s \in Call \cup Notice : read'[s] = read[s]
      BY <2>t, <3>1 DEF LedgerTypeOK, Session
    <3> QED BY <1>2, <2>u, <3>1, <3>2 DEF LockInv
  <2>6. ASSUME NEW a \in Adjustment, AdjustWrites(a) PROVE LockInv' /\ BooksBalance'
    <3>1. /\ lock = None /\ UNCHANGED <<ledger, caller, notice>>
          /\ credits' = read[a] + By[a] /\ adjusted' = adjusted + By[a]
          /\ overwritten' = (overwritten \/ read[a] # credits)
      BY <2>6 DEF AdjustWrites, charging
    <3>2. LockInv'
      BY <1>2, <3>1 DEF LockInv
    <3>3. ASSUME ~overwritten' PROVE BooksBalance'
      <4>1. /\ ~overwritten /\ credits' = credits + By[a]
            /\ credits \in Int /\ adjusted \in Int /\ By[a] \in Int
        BY <2>t, <3>1, <3>3 DEF LedgerTypeOK
      <4>2. ledger # <<>> => /\ ledger[Len(ledger)].after \in Int
                             /\ ledger[Len(ledger)].adjusted \in Int
        <5> SUFFICES ASSUME ledger # <<>> PROVE ledger[Len(ledger)] \in Row
          BY DEF Row
        <5> QED BY <2>t DEF LedgerTypeOK
      <4>3. ledger = <<>> => credits' = Initial + adjusted'
        BY <1>2, <3>1, <4>1 DEF BooksBalance
      <4>4. ledger # <<>> =>
              credits' = ledger[Len(ledger)].after + (adjusted' - ledger[Len(ledger)].adjusted)
        BY <1>2, <3>1, <4>1, <4>2 DEF BooksBalance
      <4> QED BY <1>2, <3>1, <4>1, <4>3, <4>4 DEF BooksBalance
    <3> QED BY <3>2, <3>3 DEF BooksBalance
  <2> QED BY <1>2, <2>1, <2>2, <2>3, <2>4, <2>5, <2>6 DEF Next
<1>3. TypeInv /\ [Next]_vars => TypeInv'
  BY TypeStep
<1> QED BY <1>1, <1>2, <1>3, TypeInit, PTL DEF Spec

(***************************************************************************)
(* Nobody pays twice                                                       *)
(***************************************************************************)

(* How far the coroutine is, and what the row says; a call that is about   *)
(* to be charged has not been.                                             *)
ChargeInv ==
  /\ \A c \in Call : caller[c] = "idle" => call[c] = "none"
  /\ \A c \in Call : caller[c] = "preflight" => call[c] = "pending"
  /\ \A c \in Call : caller[c] \in {"charge", "charging"} => call[c] = "success"
  /\ \A c \in Call : caller[c] = "charging" => ~Recorded(c)
  /\ NobodyPaysTwice
  /\ ChargesMatchCalls

(* Steps that post nothing and move no successful call.                    *)
LEMMA ChargeFrame ==
  ASSUME TypeInv, ChargeInv, UNCHANGED ledger,
         \A c \in Call : call[c] = "success" => call'[c] = call[c] /\ cost'[c] = cost[c],
         \A c \in Call : \/ caller'[c] = caller[c] /\ call'[c] = call[c]
                         \/ caller'[c] = "preflight" /\ call'[c] = "pending"
                         \/ caller'[c] = "charge" /\ call'[c] = "success"
                         \/ caller'[c] = "charging" /\ call'[c] = "success" /\ ~Recorded(c)
                         \/ caller'[c] \notin {"idle", "preflight", "charge", "charging"}
  PROVE  ChargeInv'
<1>1. \A no : Recorded(no)' = Recorded(no)
  BY DEF Recorded
<1>2. NobodyPaysTwice'
  BY DEF ChargeInv, NobodyPaysTwice
<1>3. ChargesMatchCalls'
  BY DEF ChargeInv, ChargesMatchCalls
<1>4. /\ \A c \in Call : caller'[c] = "idle" => call'[c] = "none"
      /\ \A c \in Call : caller'[c] = "preflight" => call'[c] = "pending"
      /\ \A c \in Call : caller'[c] \in {"charge", "charging"} => call'[c] = "success"
      /\ \A c \in Call : caller'[c] = "charging" => ~Recorded(c)
  BY DEF ChargeInv
<1> QED BY <1>1, <1>2, <1>3, <1>4 DEF ChargeInv

(* Posting a row whose number is new.                                      *)
LEMMA ChargePost ==
  ASSUME TypeInv, ChargeInv, NEW s \in Session, NEW no \in Call \cup Order,
         NEW amount \in Int, read[s] + amount >= 0, Post(s, no, amount),
         ~Recorded(no), UNCHANGED <<call, cost>>,
         no \in Call => call[no] = "success" /\ amount = -cost[no],
         \A c \in Call : \/ caller'[c] = caller[c] /\ c # no
                         \/ caller'[c] = "recorded"
  PROVE  ChargeInv'
<1>0. read[s] >= 0
  BY DEF TypeInv
<1>p. /\ Len(ledger') = Len(ledger) + 1
      /\ \A i \in 1..Len(ledger) : ledger'[i] = ledger[i]
      /\ ledger'[Len(ledger')] = [no |-> no, amount |-> amount, before |-> read[s],
                                  after |-> read[s] + amount, adjusted |-> adjusted]
  BY <1>0, PostAppends DEF TypeInv
<1>1. /\ Len(ledger') = Len(ledger) + 1 /\ Len(ledger) \in Nat
      /\ \A i \in 1..Len(ledger) : ledger'[i] = ledger[i]
      /\ ledger'[Len(ledger')].no = no
      /\ ledger'[Len(ledger')].amount = amount
  BY <1>p DEF TypeInv, LedgerTypeOK
<1>2. \A i \in 1..Len(ledger) : ledger[i].no # no
  BY DEF Recorded
<1>3. NobodyPaysTwice'
  <2> SUFFICES ASSUME NEW i \in 1..Len(ledger'), NEW j \in 1..Len(ledger'),
                      ledger'[i].no = ledger'[j].no
               PROVE  i = j
    BY DEF NobodyPaysTwice
  <2>1. CASE i \in 1..Len(ledger) /\ j \in 1..Len(ledger)
    BY <1>1, <2>1 DEF ChargeInv, NobodyPaysTwice
  <2>2. CASE i = Len(ledger') /\ j = Len(ledger')
    BY <2>2
  <2>3. CASE i = Len(ledger') /\ j \in 1..Len(ledger)
    BY <1>1, <1>2, <2>3
  <2>4. CASE i \in 1..Len(ledger) /\ j = Len(ledger')
    BY <1>1, <1>2, <2>4
  <2> QED BY <1>1, <2>1, <2>2, <2>3, <2>4
<1>4. ChargesMatchCalls'
  <2> SUFFICES ASSUME NEW i \in 1..Len(ledger'), ledger'[i].no \in Call
               PROVE  /\ call[ledger'[i].no] = "success"
                      /\ ledger'[i].amount = -cost[ledger'[i].no]
    BY DEF ChargesMatchCalls
  <2>1. CASE i \in 1..Len(ledger)
    BY <1>1, <2>1 DEF ChargeInv, ChargesMatchCalls
  <2>2. CASE i = Len(ledger')
    BY <1>1, <2>2
  <2> QED BY <1>1, <2>1, <2>2
<1>5. \A c \in Call : c # no /\ ~Recorded(c) => ~Recorded(c)'
  BY <1>1 DEF Recorded
<1> QED BY <1>3, <1>4, <1>5 DEF ChargeInv

(* ChargeInv is inductive.                                                 *)
LEMMA ChargeStep ==
  ASSUME TypeInv, ChargeInv, [Next]_vars
  PROVE  ChargeInv'
<1> USE LedgerAssumption
<1>t. LedgerTypeOK
  BY DEF TypeInv
<1>1. CASE Crash
  <2>1. UNCHANGED <<ledger, call, cost>>
    BY <1>1 DEF Crash
  <2>2. \A c \in Call : \/ caller'[c] = caller[c]
                        \/ caller'[c] \in {"gone", "crashed"}
    <3> SUFFICES ASSUME NEW c \in Call
                 PROVE  caller'[c] = caller[c] \/ caller'[c] \in {"gone", "crashed"}
      OBVIOUS
    <3>1. CASE caller[c] \in {"idle", "done", "gone", "crashed"}
      BY <1>1, <3>1 DEF Crash
    <3>2. CASE caller[c] = "preflight"
      BY <1>1, <3>2 DEF Crash
    <3>3. CASE caller[c] \notin {"idle", "done", "gone", "crashed", "preflight"}
      BY <1>1, <3>3 DEF Crash
    <3> QED BY <3>1, <3>2, <3>3
  <2> QED BY <2>1, <2>2, ChargeFrame
<1>2. ASSUME NEW c \in Call, Caller(c) PROVE ChargeInv'
  <2>1. CASE \/ StartCall(c) \/ Preflight(c) \/ FinishFailed(c)
    BY <1>t, <2>1, ChargeFrame
       DEF StartCall, Preflight, FinishFailed, LedgerTypeOK, ChargeInv
  <2>2. CASE \/ ProviderDelivers(c) \/ ProviderFails(c) \/ CallReturns(c)
             \/ Cancelled(c) \/ Resume(c)
    <3>1. /\ UNCHANGED <<ledger, call, cost>>
          /\ \A d \in Call : \/ caller'[d] = caller[d]
                             \/ caller'[d] \notin {"idle", "preflight", "charge", "charging"}
      BY <1>t, <2>2 DEF ProviderDelivers, ProviderFails, CallReturns, Cancelled, Resume,
                        LedgerTypeOK
    <3> QED BY <3>1, ChargeFrame
  <2>3. CASE FinishSuccess(c)
    BY <1>t, <2>3, ChargeFrame DEF FinishSuccess, LedgerTypeOK
  <2>4. CASE ChargeReads(c)
    BY <1>t, <2>4, ChargeFrame DEF ChargeReads, LedgerTypeOK, ChargeInv
  <2>5. CASE ChargeWrites(c)
    <3>1. call[c] = "success" /\ ~Recorded(c)
      BY <2>5 DEF ChargeWrites, ChargeInv
    <3>2. CASE /\ read[c] >= cost[c] /\ Post(c, c, -cost[c])
               /\ caller' = [caller EXCEPT ![c] = "recorded"]
      <4>1. c \in Session /\ -cost[c] \in Int /\ read[c] + (-cost[c]) >= 0
        BY <1>t, <3>2 DEF LedgerTypeOK, Session
      <4>2. UNCHANGED <<call, cost>>
        BY <2>5 DEF ChargeWrites
      <4> QED BY <1>t, <3>1, <3>2, <4>1, <4>2, ChargePost DEF LedgerTypeOK
    <3>3. CASE caller' = [caller EXCEPT ![c] = "lost"] /\ UNCHANGED ledger
      BY <1>t, <2>5, <3>3, ChargeFrame DEF ChargeWrites, LedgerTypeOK
    <3> QED BY <2>5, <3>2, <3>3 DEF ChargeWrites
  <2> QED BY <1>2, <2>1, <2>2, <2>3, <2>4, <2>5 DEF Caller
<1>3. ASSUME NEW n \in Notice, Arrives(n) \/ Notified(n) PROVE ChargeInv'
  <2>0. UNCHANGED <<call, cost, caller>>
    BY <1>3 DEF Arrives, Notified, NoticeChecks, NoticeReads, NoticeWrites, charging
  <2>1. CASE UNCHANGED ledger
    BY <2>0, <2>1, ChargeFrame
  <2>2. CASE ~Recorded(OrderOf[n]) /\ Post(n, OrderOf[n], Worth[OrderOf[n]])
    <3>1. /\ n \in Session /\ Worth[OrderOf[n]] \in Nat /\ read[n] \in Int /\ read[n] >= 0
          /\ OrderOf[n] \in Order /\ OrderOf[n] \notin Call
      BY <1>t DEF LedgerTypeOK, Session, TypeInv
    <3>2. Worth[OrderOf[n]] \in Int /\ read[n] + Worth[OrderOf[n]] >= 0
      BY <3>1
    <3> QED BY <2>0, <2>2, <3>1, <3>2, ChargePost
  <2> QED BY <1>3, <2>1, <2>2 DEF Arrives, Notified, NoticeChecks, NoticeReads, NoticeWrites
<1>4. CASE UNCHANGED vars
  BY <1>4, ChargeFrame DEF vars
<1>5. ASSUME NEW a \in Adjustment, AdjustReads(a) \/ AdjustWrites(a) PROVE ChargeInv'
  BY <1>5, ChargeFrame DEF AdjustReads, AdjustWrites, charging
<1> QED BY <1>1, <1>2, <1>3, <1>4, <1>5 DEF Next

(* ChargeInv holds in every state, on either database.                     *)
THEOREM ChargeAlways == Spec => [](TypeInv /\ ChargeInv)
<1>1. Init => ChargeInv
  BY DEF Init, ChargeInv, NobodyPaysTwice, ChargesMatchCalls, Recorded
<1>2. TypeInv /\ ChargeInv /\ [Next]_vars => TypeInv' /\ ChargeInv'
  BY TypeStep, ChargeStep
<1> QED BY <1>1, <1>2, TypeInit, PTL DEF Spec

(* A call is charged once and an order is credited once, even where the    *)
(* database does not lock.                                                 *)
THEOREM PaidOnlyOnce == Spec => []NobodyPaysTwice
<1>1. ChargeInv => NobodyPaysTwice
  BY DEF ChargeInv
<1> QED BY <1>1, ChargeAlways, PTL

(* Only successful calls are charged, and for the cost in their row.       *)
THEOREM ChargesAreJust == Spec => []ChargesMatchCalls
<1>1. ChargeInv => ChargesMatchCalls
  BY DEF ChargeInv
<1> QED BY <1>1, ChargeAlways, PTL

(***************************************************************************)
(* A success is billed                                                     *)
(***************************************************************************)

(* Where the coroutine stands, as long as nothing has crashed: the row is  *)
(* pending until it is recorded, so whoever records it also charges it,    *)
(* and the failure that follows an uncovered charge is about a denied call.*)
BillInv ==
  crashes = 0 => \A c \in Call :
    /\ caller[c] \notin {"resuming", "crashed"}
    /\ caller[c] \in {"calling", "won"} => call[c] = "pending"
    /\ caller[c] = "lost" /\ call[c] = "success" => c \in denied
    /\ caller[c] \in {"recorded", "done"} /\ call[c] = "success" => Billed(c)

(* A posted row is recorded, and the rows before it stay.                  *)
LEMMA PostRecords ==
  ASSUME TypeInv, NEW s \in Session, NEW no \in Call \cup Order, NEW amount \in Int,
         read[s] + amount >= 0, Post(s, no, amount)
  PROVE  Recorded(no)' /\ \A o : Recorded(o) => Recorded(o)'
<1>0. LedgerTypeOK /\ read[s] >= 0
  BY DEF TypeInv
<1>1. /\ Len(ledger') = Len(ledger) + 1
      /\ \A i \in 1..Len(ledger) : ledger'[i] = ledger[i]
      /\ ledger'[Len(ledger')] = [no |-> no, amount |-> amount, before |-> read[s],
                                  after |-> read[s] + amount, adjusted |-> adjusted]
  BY <1>0, PostAppends
<1>2. ledger'[Len(ledger')].no = no
  BY <1>1
<1>3. Len(ledger) \in Nat
  BY <1>0 DEF LedgerTypeOK
<1> QED BY <1>1, <1>2, <1>3 DEF Recorded

(* Rows of the ledger stay, whoever posts.                                 *)
LEMMA RecordedStays ==
  ASSUME TypeInv, [Next]_vars, NEW no, Recorded(no)
  PROVE  Recorded(no)'
<1> USE LedgerAssumption
<1>1. CASE UNCHANGED ledger
  BY <1>1 DEF Recorded
<1>2. ASSUME NEW c \in Call, ChargeWrites(c), ~UNCHANGED ledger PROVE Recorded(no)'
  <2>1. /\ c \in Session /\ -cost[c] \in Int /\ read[c] + (-cost[c]) >= 0
        /\ Post(c, c, -cost[c])
    BY <1>2 DEF ChargeWrites, TypeInv, LedgerTypeOK, Session
  <2> QED BY <2>1, PostRecords
<1>3. ASSUME NEW n \in Notice, NoticeWrites(n), ~UNCHANGED ledger PROVE Recorded(no)'
  <2>1. /\ n \in Session /\ read[n] \in Int /\ read[n] >= 0
        /\ Worth[OrderOf[n]] \in Nat /\ OrderOf[n] \in Call \cup Order
    BY DEF TypeInv, LedgerTypeOK, Session
  <2>2. /\ Worth[OrderOf[n]] \in Int /\ read[n] + Worth[OrderOf[n]] >= 0
        /\ Post(n, OrderOf[n], Worth[OrderOf[n]])
    BY <1>3, <2>1 DEF NoticeWrites
  <2> QED BY <2>1, <2>2, PostRecords
<1>4. \/ UNCHANGED ledger \/ \E c \in Call : ChargeWrites(c)
      \/ \E n \in Notice : NoticeWrites(n)
  BY DEF Next, vars, Crash, Caller, StartCall, Preflight, ProviderDelivers, ProviderFails,
         FinishSuccess, FinishFailed, ChargeReads, CallReturns, Cancelled, Resume, Arrives,
         Notified, NoticeChecks, NoticeReads, AdjustReads, AdjustWrites
<1> QED BY <1>1, <1>2, <1>3, <1>4

(* A call that this step leaves alone, and whose row is settled, stays     *)
(* billed: rows and refusals are only added.                               *)
LEMMA BilledStays ==
  ASSUME TypeInv, [Next]_vars, denied \subseteq denied',
         NEW c \in Call, cost'[c] = cost[c], Billed(c)
  PROVE  Billed(c)'
BY RecordedStays DEF Billed

(* BillInv is inductive.                                                   *)
LEMMA BillStep ==
  ASSUME TypeInv, ChargeInv, BillInv, [Next]_vars
  PROVE  BillInv'
<1> USE LedgerAssumption
<1>t. LedgerTypeOK
  BY DEF TypeInv
<1>1. CASE Crash
  BY <1>t, <1>1 DEF Crash, BillInv, LedgerTypeOK
<1>2. ASSUME UNCHANGED <<call, cost, caller, denied, crashes>> PROVE BillInv'
  BY <1>2, BilledStays DEF BillInv
<1>3. ASSUME NEW c \in Call, Caller(c) PROVE BillInv'
  <2>0. UNCHANGED crashes
    BY <1>3 DEF Caller, StartCall, Preflight, ProviderDelivers, ProviderFails,
         FinishSuccess, FinishFailed, ChargeReads, ChargeWrites, CallReturns, Cancelled, Resume
  <2> SUFFICES ASSUME crashes = 0, NEW d \in Call
               PROVE  /\ caller'[d] \notin {"resuming", "crashed"}
                      /\ caller'[d] \in {"calling", "won"} => call'[d] = "pending"
                      /\ caller'[d] = "lost" /\ call'[d] = "success" => d \in denied'
                      /\ caller'[d] \in {"recorded", "done"} /\ call'[d] = "success"
                           => Billed(d)'
    BY <2>0 DEF BillInv
  <2>i. /\ caller[d] \notin {"resuming", "crashed"}
        /\ caller[d] \in {"calling", "won"} => call[d] = "pending"
        /\ caller[d] = "lost" /\ call[d] = "success" => d \in denied
        /\ caller[d] \in {"recorded", "done"} /\ call[d] = "success" => Billed(d)
    BY DEF BillInv
  <2>d. denied \subseteq denied'
    BY <1>3 DEF Caller, StartCall, Preflight, ProviderDelivers, ProviderFails,
         FinishSuccess, FinishFailed, ChargeReads, ChargeWrites, CallReturns, Cancelled, Resume
  <2>b. cost'[d] = cost[d] /\ Billed(d) => Billed(d)'
    BY <2>d, BilledStays
  <2>1. CASE d # c
    <3>1. caller'[d] = caller[d] /\ call'[d] = call[d] /\ cost'[d] = cost[d]
      BY <1>t, <1>3, <2>1
         DEF Caller, StartCall, Preflight, ProviderDelivers, ProviderFails, FinishSuccess,
             FinishFailed, ChargeReads, ChargeWrites, CallReturns, Cancelled, Resume,
             LedgerTypeOK
    <3> QED BY <2>i, <2>d, <2>b, <3>1
  <2>2. CASE d = c
    <3>1. CASE StartCall(c) \/ Preflight(c) \/ ProviderDelivers(c) \/ ProviderFails(c)
                 \/ Cancelled(c) \/ Resume(c)
      BY <1>t, <2>i, <2>2, <3>1
         DEF StartCall, Preflight, ProviderDelivers, ProviderFails, Cancelled, Resume,
             ChargeInv, LedgerTypeOK
    <3>2. CASE FinishSuccess(c)
      <4>1. PICK due \in Costs :
               /\ call' = [call EXCEPT ![c] = "success"]
               /\ cost' = [cost EXCEPT ![c] = due]
               /\ caller' = [caller EXCEPT ![c] = IF due > 0 THEN "charge" ELSE "recorded"]
        BY <2>i, <2>2, <3>2 DEF FinishSuccess
      <4>2. due > 0 => caller'[c] = "charge"
        BY <1>t, <4>1 DEF LedgerTypeOK
      <4>3. ~(due > 0) => Billed(c)' /\ caller'[c] = "recorded"
        BY <1>t, <4>1 DEF LedgerTypeOK, Billed
      <4> QED BY <2>2, <4>2, <4>3
    <3>3. CASE FinishFailed(c)
      <4>1. /\ caller[c] = "lost" /\ caller'[c] = "recorded"
            /\ call'[c] = "success" => call[c] = "success"
            /\ UNCHANGED <<cost, denied>>
        BY <1>t, <3>3 DEF FinishFailed, LedgerTypeOK
      <4>2. c \in denied => Billed(c)
        BY DEF Billed
      <4> QED BY <2>i, <2>b, <2>2, <4>1, <4>2
    <3>4. CASE ChargeReads(c)
      <4>1. /\ UNCHANGED <<call, cost, denied>>
            /\ caller'[c] = "charging" \/ (caller'[c] = "done" /\ (Recorded(c) \/ c \in denied))
        BY <1>t, <3>4 DEF ChargeReads, LedgerTypeOK
      <4>2. Recorded(c) \/ c \in denied => Billed(c)
        BY DEF Billed
      <4> QED BY <2>b, <2>2, <4>1, <4>2
    <3>5. CASE ChargeWrites(c)
      <4>1. CASE read[c] >= cost[c] /\ Post(c, c, -cost[c])
                 /\ caller' = [caller EXCEPT ![c] = "recorded"]
        <5>1. /\ c \in Session /\ -cost[c] \in Int /\ read[c] + (-cost[c]) >= 0
              /\ read[c] >= 0 /\ c \in Call \cup Order
          BY <1>t, <4>1 DEF LedgerTypeOK, Session, TypeInv
        <5>2. Recorded(c)'
          BY <4>1, <5>1, PostRecords
        <5>3. Billed(c)' /\ caller'[c] = "recorded"
          BY <1>t, <4>1, <5>2 DEF Billed, LedgerTypeOK
        <5> QED BY <2>2, <5>3
      <4>2. CASE denied' = denied \cup {c} /\ caller' = [caller EXCEPT ![c] = "lost"]
        BY <1>t, <2>2, <4>2 DEF LedgerTypeOK
      <4> QED BY <3>5, <4>1, <4>2 DEF ChargeWrites
    <3>6. CASE CallReturns(c)
      <4>1. /\ caller[c] = "recorded" /\ caller'[c] = "done" /\ UNCHANGED <<call, cost>>
        BY <1>t, <3>6 DEF CallReturns, LedgerTypeOK
      <4> QED BY <2>i, <2>b, <2>2, <4>1
    <3> QED BY <1>3, <3>1, <3>2, <3>3, <3>4, <3>5, <3>6 DEF Caller
  <2> QED BY <2>1, <2>2
<1>4. ASSUME NEW n \in Notice, Arrives(n) \/ Notified(n) PROVE BillInv'
  BY <1>2, <1>4 DEF Arrives, Notified, NoticeChecks, NoticeReads, NoticeWrites, charging
<1>5. CASE UNCHANGED vars
  BY <1>2, <1>5 DEF vars
<1>6. ASSUME NEW a \in Adjustment, AdjustReads(a) \/ AdjustWrites(a) PROVE BillInv'
  BY <1>2, <1>6 DEF AdjustReads, AdjustWrites, charging
<1> QED BY <1>1, <1>3, <1>4, <1>5, <1>6 DEF Next

(* As long as nothing crashed, the caller of a successful call goes on     *)
(* only when the call is charged or known to be uncovered, on either       *)
(* database. The hypothesis on crashes is needed: a resumed call whose row *)
(* is already a success is never charged.                                  *)
THEOREM SuccessIsAlwaysBilled == Spec => []SuccessIsBilled
<1>1. Init => BillInv
  BY DEF Init, BillInv
<1>2. TypeInv /\ ChargeInv /\ BillInv /\ [Next]_vars => BillInv'
  BY BillStep
<1>3. BillInv => SuccessIsBilled
  BY DEF BillInv, SuccessIsBilled
<1> QED BY <1>1, <1>2, <1>3, ChargeAlways, PTL DEF Spec
=============================================================================
