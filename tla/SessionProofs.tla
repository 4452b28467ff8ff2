--------------------------- MODULE SessionProofs ---------------------------
(***************************************************************************)
(* A session seen from its two sides, for every set of commands and of     *)
(* posts. The task that owns its client drops no command, carries none out *)
(* twice, and its turns follow one another as SessionTurns says. Of a      *)
(* message that users post, over and over perhaps, the log holds one entry *)
(* and the task is given one query; no session is left saying that it runs,*)
(* and what the agent writes reaches a reader without a gap.               *)
(***************************************************************************)
EXTENDS SessionActor, SessionTimeline, FiniteSetTheorems, TLAPS

(***************************************************************************)
(* Sequences                                                               *)
(***************************************************************************)

Distinct(s) == \A i, j \in DOMAIN s : s[i] = s[j] => i = j

(* What is appended to a sequence is in it, behind the rest.               *)
LEMMA Appended ==
  ASSUME NEW S, NEW s \in Seq(S), NEW e \in S
  PROVE  /\ Append(s, e) \in Seq(S)
         /\ Range(Append(s, e)) = Range(s) \cup {e}
         /\ Distinct(s) /\ e \notin Range(s) => Distinct(Append(s, e))
<1>1. /\ Append(s, e) \in Seq(S) /\ Len(s) \in Nat
      /\ DOMAIN s = 1..Len(s) /\ DOMAIN Append(s, e) = 1..(Len(s) + 1)
      /\ Append(s, e)[Len(s) + 1] = e
      /\ \A i \in 1..Len(s) : Append(s, e)[i] = s[i]
  OBVIOUS
<1>2. \A i \in 1..(Len(s) + 1) : i \in 1..Len(s) \/ i = Len(s) + 1
  BY <1>1
<1>3. Range(Append(s, e)) = Range(s) \cup {e}
  BY <1>1, <1>2 DEF Range
<1>4. ASSUME Distinct(s), e \notin Range(s) PROVE Distinct(Append(s, e))
  BY <1>1, <1>2, <1>4 DEF Distinct, Range
<1> QED BY <1>1, <1>3, <1>4

(* The head of a sequence and its tail make it up.                         *)
LEMMA HeadAndTail ==
  ASSUME NEW S, NEW s \in Seq(S), s # <<>>
  PROVE  /\ Head(s) \in S /\ Tail(s) \in Seq(S)
         /\ Range(s) = {Head(s)} \cup Range(Tail(s))
         /\ Distinct(s) => Distinct(Tail(s)) /\ Head(s) \notin Range(Tail(s))
<1>1. /\ Len(s) \in Nat \ {0} /\ DOMAIN s = 1..Len(s)
      /\ Head(s) = s[1] /\ Head(s) \in S
      /\ Tail(s) \in Seq(S) /\ DOMAIN Tail(s) = 1..(Len(s) - 1)
      /\ \A i \in 1..(Len(s) - 1) : Tail(s)[i] = s[i + 1]
  OBVIOUS
<1>2. /\ \A i \in 1..Len(s) : i = 1 \/ (i - 1 \in 1..(Len(s) - 1) /\ (i - 1) + 1 = i)
      /\ \A i \in 1..(Len(s) - 1) : i + 1 \in 1..Len(s) /\ i + 1 # 1
      /\ 1 \in 1..Len(s)
  BY <1>1
<1>3. Range(s) = {Head(s)} \cup Range(Tail(s))
  <2>1. \A x \in Range(s) : x = Head(s) \/ x \in Range(Tail(s))
    <3> TAKE x \in Range(s)
    <3>1. PICK i \in 1..Len(s) : x = s[i]
      BY <1>1 DEF Range
    <3>2. CASE i = 1
      BY <1>1, <3>1, <3>2
    <3>3. CASE i # 1
      <4>1. i - 1 \in DOMAIN Tail(s) /\ (i - 1) + 1 = i
        BY <1>1, <1>2, <3>3
      <4>2. Tail(s)[i - 1] = x
        BY <1>1, <3>1, <4>1
      <4> QED BY <4>1, <4>2 DEF Range
    <3> QED BY <3>2, <3>3
  <2>2. Head(s) \in Range(s)
    BY <1>1, <1>2 DEF Range
  <2>3. \A x \in Range(Tail(s)) : x \in Range(s)
    BY <1>1, <1>2 DEF Range
  <2> QED BY <2>1, <2>2, <2>3
<1>4. ASSUME Distinct(s) PROVE Distinct(Tail(s)) /\ Head(s) \notin Range(Tail(s))
  <2>1. ASSUME NEW i \in DOMAIN Tail(s), NEW j \in DOMAIN Tail(s), Tail(s)[i] = Tail(s)[j]
        PROVE  i = j
    <3>1. i + 1 \in DOMAIN s /\ j + 1 \in DOMAIN s /\ s[i + 1] = s[j + 1]
      BY <1>1, <1>2, <2>1
    <3>2. i + 1 = j + 1
      BY <1>4, <3>1 DEF Distinct
    <3> QED BY <1>1, <3>2
  <2>2. ASSUME NEW i \in DOMAIN Tail(s) PROVE Head(s) # Tail(s)[i]
    <3>1. /\ i + 1 \in DOMAIN s /\ i + 1 # 1 /\ 1 \in DOMAIN s
          /\ Tail(s)[i] = s[i + 1] /\ Head(s) = s[1]
      BY <1>1, <1>2
    <3> QED BY <1>4, <3>1 DEF Distinct
  <2> QED BY <2>1, <2>2 DEF Distinct, Range
<1> QED BY <1>1, <1>3, <1>4

(* Sequences by their indices.                                             *)
LEMMA AppendAt ==
  ASSUME NEW S, NEW q \in Seq(S), NEW e \in S
  PROVE  /\ Append(q, e) \in Seq(S) /\ Len(q) \in Nat /\ DOMAIN q = 1..Len(q)
         /\ DOMAIN Append(q, e) = 1..(Len(q) + 1)
         /\ Append(q, e)[Len(q) + 1] = e
         /\ \A i \in DOMAIN q : Append(q, e)[i] = q[i]
         /\ \A i \in DOMAIN Append(q, e) : i \in DOMAIN q \/ i = Len(q) + 1
OBVIOUS

LEMMA TailAt ==
  ASSUME NEW S, NEW q \in Seq(S), q # <<>>
  PROVE  /\ Tail(q) \in Seq(S) /\ Len(q) \in Nat \ {0} /\ DOMAIN q = 1..Len(q)
         /\ Head(q) = q[1] /\ Head(q) \in S /\ 1 \in DOMAIN q
         /\ DOMAIN Tail(q) = 1..(Len(q) - 1)
         /\ \A i \in DOMAIN Tail(q) : i + 1 \in DOMAIN q /\ Tail(q)[i] = q[i + 1] /\ i + 1 > 1
         /\ \A i \in DOMAIN q : i = 1 \/ (i - 1 \in DOMAIN Tail(q) /\ Tail(q)[i - 1] = q[i])
OBVIOUS

(* Joined sequences, index by index.                                       *)
LEMMA JoinedAt ==
  ASSUME NEW S, NEW q \in Seq(S), NEW r \in Seq(S)
  PROVE  /\ q \o r \in Seq(S)
         /\ \A i \in DOMAIN q : i \in DOMAIN (q \o r) /\ (q \o r)[i] = q[i]
         /\ \A i \in DOMAIN (q \o r) :
              \/ i \in DOMAIN q
              \/ /\ (q \o r)[i] \in Range(r)
                 /\ \A j \in DOMAIN q : j < i
         /\ \A x \in Range(r) : \E i \in DOMAIN (q \o r) : (q \o r)[i] = x
<1>1. /\ q \o r \in Seq(S) /\ Len(q) \in Nat /\ Len(r) \in Nat
      /\ DOMAIN q = 1..Len(q) /\ DOMAIN r = 1..Len(r)
      /\ DOMAIN (q \o r) = 1..(Len(q) + Len(r))
      /\ \A i \in 1..(Len(q) + Len(r)) :
           (q \o r)[i] = IF i <= Len(q) THEN q[i] ELSE r[i - Len(q)]
  OBVIOUS
<1>2. \A i \in DOMAIN q : i \in DOMAIN (q \o r) /\ (q \o r)[i] = q[i]
  BY <1>1
<1>3. ASSUME NEW i \in DOMAIN (q \o r), i \notin DOMAIN q
      PROVE  (q \o r)[i] \in Range(r) /\ \A j \in DOMAIN q : j < i
  <2>1. i - Len(q) \in DOMAIN r /\ (q \o r)[i] = r[i - Len(q)] /\ \A j \in DOMAIN q : j < i
    BY <1>1, <1>3
  <2> QED BY <2>1 DEF Range
<1>4. ASSUME NEW x \in Range(r)
      PROVE  \E i \in DOMAIN (q \o r) : (q \o r)[i] = x
  <2>1. PICK k \in DOMAIN r : x = r[k]
    BY <1>4 DEF Range
  <2>2. /\ k + Len(q) \in DOMAIN (q \o r) /\ (k + Len(q)) - Len(q) = k
        /\ ~(k + Len(q) <= Len(q))
    BY <1>1
  <2> QED BY <1>1, <2>1, <2>2
<1> QED BY <1>1, <1>2, <1>3, <1>4

(* Two sequences, one behind the other.                                    *)
LEMMA Joined ==
  ASSUME NEW S, NEW s \in Seq(S), NEW t \in Seq(S)
  PROVE  /\ s \o t \in Seq(S)
         /\ Range(s \o t) = Range(s) \cup Range(t)
         /\ Distinct(s) /\ Distinct(t) /\ Range(s) \cap Range(t) = {} => Distinct(s \o t)
<1>1. /\ s \o t \in Seq(S) /\ Len(s) \in Nat /\ Len(t) \in Nat
      /\ DOMAIN s = 1..Len(s) /\ DOMAIN t = 1..Len(t)
      /\ DOMAIN (s \o t) = 1..(Len(s) + Len(t))
      /\ \A i \in 1..Len(s) : (s \o t)[i] = s[i]
      /\ \A i \in 1..(Len(s) + Len(t)) : i > Len(s) => (s \o t)[i] = t[i - Len(s)]
  OBVIOUS
<1>2. /\ \A i \in 1..(Len(s) + Len(t)) : i \in 1..Len(s) \/ i - Len(s) \in 1..Len(t)
      /\ \A i \in 1..Len(s) : i \in 1..(Len(s) + Len(t))
      /\ \A i \in 1..Len(t) : /\ i + Len(s) \in 1..(Len(s) + Len(t))
                              /\ i + Len(s) > Len(s) /\ (i + Len(s)) - Len(s) = i
  BY <1>1
<1>3. Range(s \o t) = Range(s) \cup Range(t)
  <2>1. \A x \in Range(s \o t) : x \in Range(s) \/ x \in Range(t)
    BY <1>1, <1>2 DEF Range
  <2>2. \A x \in Range(s) : x \in Range(s \o t)
    BY <1>1, <1>2 DEF Range
  <2>3. \A x \in Range(t) : x \in Range(s \o t)
    BY <1>1, <1>2 DEF Range
  <2> QED BY <2>1, <2>2, <2>3
<1>4. ASSUME Distinct(s), Distinct(t), Range(s) \cap Range(t) = {} PROVE Distinct(s \o t)
  <2> SUFFICES ASSUME NEW i \in 1..(Len(s) + Len(t)), NEW j \in 1..(Len(s) + Len(t)),
                      (s \o t)[i] = (s \o t)[j]
               PROVE  i = j
    BY <1>1 DEF Distinct
  <2>1. CASE i <= Len(s) /\ j <= Len(s)
    BY <1>1, <1>4, <2>1 DEF Distinct
  <2>2. CASE i > Len(s) /\ j > Len(s)
    <3>1. i - Len(s) \in DOMAIN t /\ j - Len(s) \in DOMAIN t
      BY <1>1, <2>2
    <3>2. t[i - Len(s)] = t[j - Len(s)]
      BY <1>1, <2>2
    <3> QED BY <1>1, <1>4, <3>1, <3>2 DEF Distinct
  <2>3. CASE i <= Len(s) /\ j > Len(s)
    <3>1. s[i] = t[j - Len(s)] /\ i \in DOMAIN s /\ j - Len(s) \in DOMAIN t
      BY <1>1, <2>3
    <3> QED BY <1>4, <3>1 DEF Range
  <2>4. CASE i > Len(s) /\ j <= Len(s)
    <3>1. s[j] = t[i - Len(s)] /\ j \in DOMAIN s /\ i - Len(s) \in DOMAIN t
      BY <1>1, <2>4
    <3> QED BY <1>4, <3>1 DEF Range
  <2> QED BY <1>1, <2>1, <2>2, <2>3, <2>4
<1> QED BY <1>1, <1>3, <1>4

(***************************************************************************)
(* Every command has a place                                               *)
(***************************************************************************)

Driving == {"driving", "interrupting", "aborting"}
Broken == at \in {"closing", "ended"}

InPlace(c) == c \in Range(queue) \/ c \in Range(pending) \/ c = current \/ c = held

(* A command is in one place at most, and all but the one whose turn it is *)
(* wait without an answer.                                                 *)
PlaceInv ==
  /\ Distinct(queue) /\ Distinct(pending)
  /\ \A c \in Range(queue) :
       c \notin Range(pending) /\ c # current /\ c # held /\ told[c] = "none" /\ c \in Issued
  /\ \A c \in Range(pending) :
       c # current /\ c # held /\ told[c] = "none" /\ c \in Issued
  /\ held # NoCmd => held # current /\ told[held] = "none" /\ held \in Issued
  /\ current # NoCmd =>
       /\ current \in Issued
       /\ told[current] = IF at = "sending" THEN "none" ELSE "sent"
  /\ \A c \in Cmd : c \notin Issued => told[c] = "none"
  /\ at = "ended" => queue = <<>>

(* A command that waits is somewhere, but for one, and that one only when  *)
(* the task broke off.                                                     *)
LostInv ==
  \/ \A c \in Issued : told[c] \in Answered \/ InPlace(c)
  \/ /\ Broken /\ fatal
     /\ \E x \in Cmd : \A c \in Issued : told[c] \in Answered \/ InPlace(c) \/ c = x

ActorInv == ActorTypeOK /\ PlaceInv /\ LostInv

(* What the members of the sequences are.                                  *)
LEMMA Members ==
  ASSUME ActorTypeOK
  PROVE  Range(queue) \subseteq Cmd /\ Range(pending) \subseteq Query /\ Issued \subseteq Cmd
BY DEF ActorTypeOK, Issued, Range

(* Whoever breaks off answers the query and those behind it; one fetched   *)
(* command may be lost.                                                    *)
LEMMA BreakingOff ==
  ASSUME ActorInv, ~Broken, BreakOff, UNCHANGED <<queue, asked>>,
         told' \in [Cmd -> {"none", "sent"} \cup Answered],
         \A c \in Cmd : told'[c] = told[c] \/ told'[c] \in Answered,
         \A c \in Cmd : told[c] \in Answered => told'[c] = told[c],
         \A c \in Range(queue) : told'[c] = told[c],
         \A c \in Range(pending) : told'[c] \in Answered,
         current # NoCmd => told'[current] \in Answered,
         \A c \in Cmd : c \notin Issued => told'[c] = told[c]
  PROVE  ActorInv'
<1> USE CmdAssumption, Members DEF ActorInv
<1>1. ActorTypeOK'
  BY DEF ActorTypeOK, BreakOff
<1>2. Range(<<>>) = {} /\ Distinct(<<>>)
  BY DEF Range, Distinct
<1>3. PlaceInv'
  BY <1>2 DEF PlaceInv, BreakOff, Issued, ActorTypeOK
<1>4. LostInv'
  <2>1. \A c \in Issued : told[c] \in Answered \/ InPlace(c)
    BY DEF LostInv
  <2>2. \A c \in Issued : told'[c] \in Answered \/ c \in Range(queue)' \/ c = held
    BY <2>1 DEF InPlace, BreakOff
  <2>3. CASE held = NoCmd
    BY <2>2, <2>3 DEF LostInv, InPlace, BreakOff, Issued
  <2>4. CASE held # NoCmd
    BY <2>2, <2>4 DEF LostInv, InPlace, BreakOff, Issued, Broken, ActorTypeOK
  <2> QED BY <2>3, <2>4
<1> QED BY <1>1, <1>3, <1>4

(* A command that the loop begins is out of all places, or current.        *)
LEMMA Beginning ==
  ASSUME ActorInv, NEW c \in Cmd, told[c] = "none", c \in Issued, c # current,
         at \in {"idle", "driving"},
         NEW note, note = (IF current = NoCmd THEN told ELSE [told EXCEPT ![current] = "done"]),
         Begin(c, note), pending' = <<>>, UNCHANGED <<fatal, asked>>,
         queue' \in Seq(Cmd), Distinct(queue'), c \notin Range(queue'),
         Range(queue) \cup Range(pending) \cup {held}
           \subseteq Range(queue') \cup {c, NoCmd},
         Range(queue') \subseteq Range(queue) \cup Range(pending) \cup ({held} \ {NoCmd})
  PROVE  ActorInv'
<1> USE CmdAssumption, Members DEF ActorInv
<1>1. /\ told \in [Cmd -> {"none", "sent"} \cup Answered]
      /\ note \in [Cmd -> {"none", "sent"} \cup Answered]
      /\ \A d \in Cmd : note[d] = IF d = current THEN "done" ELSE told[d]
      /\ at # "ended" /\ ~Broken
  BY DEF ActorTypeOK, Answered, Broken
<1>2. /\ held' = NoCmd /\ stream' = "open" /\ at' \in {"sending", "idle", "closing"}
      /\ \/ at' = "sending" /\ current' = c /\ told' = note /\ Kind[c] = "query"
         \/ at' # "sending" /\ current' = NoCmd /\ told' = [note EXCEPT ![c] = "done"]
  BY DEF Begin
<1>3. /\ told' \in [Cmd -> {"none", "sent"} \cup Answered]
      /\ \A d \in Cmd : told'[d] = IF d = current THEN "done"
                                   ELSE IF d = c /\ current' = NoCmd THEN "done"
                                   ELSE told[d]
  BY <1>1, <1>2 DEF Answered
<1>4. Range(<<>>) = {} /\ Distinct(<<>>)
  BY DEF Range, Distinct
<1>5. ActorTypeOK'
  BY <1>2, <1>3 DEF ActorTypeOK, Query
<1>6. \A d \in Range(queue') : /\ told[d] = "none" /\ d \in Issued /\ d # current /\ d # NoCmd
                               /\ d # c
  BY DEF PlaceInv, ActorTypeOK
<1>7. PlaceInv'
  BY <1>1, <1>2, <1>3, <1>4, <1>6 DEF PlaceInv, Issued
<1>8. LostInv'
  <2>1. \A d \in Issued : told[d] \in Answered \/ InPlace(d)
    BY <1>1 DEF LostInv
  <2>2. ASSUME NEW d \in Issued PROVE told'[d] \in Answered \/ InPlace(d)'
    BY <1>2, <1>3, <2>1 DEF InPlace, Answered
  <2> QED BY <2>2 DEF LostInv, Issued
<1> QED BY <1>5, <1>7, <1>8

(* What Refused does to each command.                                      *)
LEMMA Refusing ==
  ASSUME ActorTypeOK, NEW cs
  PROVE  /\ Refused(cs) \in [Cmd -> {"none", "sent"} \cup Answered]
         /\ \A c \in Cmd : /\ c \notin cs \/ told[c] \in Answered => Refused(cs)[c] = told[c]
                           /\ c \in cs => Refused(cs)[c] \in Answered
                           /\ Refused(cs)[c] = told[c]
                                \/ (Refused(cs)[c] = "error" /\ told[c] \notin Answered)
BY DEF Refused, ActorTypeOK, Answered

(* The steps at which the task breaks off.                                 *)
LEMMA BreakSteps ==
  ASSUME ActorInv, Cancelled \/ QueryRefused \/ TurnFails \/ InterruptRaises \/ AbortRaises
  PROVE  ActorInv'
<1> USE CmdAssumption, Members
<1>0. ActorTypeOK /\ PlaceInv /\ told \in [Cmd -> {"none", "sent"} \cup Answered]
      /\ current \in Cmd \cup {NoCmd} /\ held \in Cmd \cup {NoCmd}
  BY DEF ActorInv, ActorTypeOK, Query
<1>1. PICK cs : /\ cs \in {{current}, Range(pending) \cup {current},
                           Range(pending) \cup {current, held}}
                /\ \A c \in Cmd : told'[c] = Refused(cs)[c]
                                   \/ (Cancelled /\ at = "interrupting" /\ c = held
                                        /\ told'[c] = "done")
                /\ BreakOff /\ UNCHANGED <<queue, asked>> /\ ~Broken
                /\ cs = {current} => pending = <<>>
                /\ told' \in [Cmd -> {"none", "sent"} \cup Answered]
  <2>1. CASE Cancelled
    <3>1. \A c \in Cmd : told'[c] = IF at = "interrupting" /\ c = held THEN "done"
                                    ELSE Refused(Range(pending) \cup {current})[c]
      BY <2>1 DEF Cancelled
    <3>2. told' = [c \in Cmd |-> IF at = "interrupting" /\ c = held THEN "done"
                                 ELSE Refused(Range(pending) \cup {current})[c]]
      BY <2>1 DEF Cancelled
    <3>3. told' \in [Cmd -> {"none", "sent"} \cup Answered]
      BY <3>2, <1>0, Refusing DEF Answered
    <3>4. BreakOff /\ UNCHANGED <<queue, asked>> /\ ~Broken
      BY <2>1 DEF Cancelled, Broken
    <3>5. Range(pending) \cup {current} = {current} => pending = <<>>
      <4> SUFFICES ASSUME pending # <<>>, Range(pending) \cup {current} = {current}
                   PROVE  FALSE
        OBVIOUS
      <4>1. pending \in Seq(Query) /\ Head(pending) \in Range(pending)
        BY <1>0, HeadAndTail DEF ActorTypeOK
      <4> QED BY <1>0, <4>1 DEF PlaceInv
    <3> QED BY <2>1, <3>1, <3>3, <3>4, <3>5
  <2>2. CASE QueryRefused
    BY <1>0, <2>2, Refusing DEF QueryRefused, Broken, ActorTypeOK
  <2>3. CASE TurnFails \/ AbortRaises \/ InterruptRaises
    <3>1. PICK cs \in {Range(pending) \cup {current}, Range(pending) \cup {current, held}} :
             /\ told' = Refused(cs) /\ BreakOff /\ UNCHANGED <<queue, asked>> /\ ~Broken
      BY <2>3 DEF TurnFails, AbortRaises, InterruptRaises, Broken
    <3>2. cs = {current} => pending = <<>>
      <4> SUFFICES ASSUME pending # <<>>, cs = {current} PROVE FALSE
        OBVIOUS
      <4>1. pending \in Seq(Query) /\ Head(pending) \in Range(pending)
        BY <1>0, HeadAndTail DEF ActorTypeOK
      <4> QED BY <1>0, <3>1, <4>1 DEF PlaceInv
    <3> QED BY <1>0, <3>1, <3>2, Refusing
  <2> QED BY <2>1, <2>2, <2>3
<1>2. Range(<<>>) = {}
  BY DEF Range
<1>3. \A c \in Cmd : /\ told'[c] = told[c] \/ told'[c] \in Answered
                     /\ told[c] \in Answered => told'[c] = told[c]
  BY <1>0, <1>1, Refusing DEF PlaceInv, Answered
<1>4. /\ \A c \in Range(queue) : told'[c] = told[c]
      /\ \A c \in Cmd : c \notin Issued => told'[c] = told[c]
  BY <1>0, <1>1, Refusing DEF PlaceInv
<1>5. /\ \A c \in Range(pending) : told'[c] \in Answered
      /\ current # NoCmd => told'[current] \in Answered
  BY <1>0, <1>1, <1>2, Refusing DEF PlaceInv, Answered, Query
<1> QED BY <1>1, <1>3, <1>4, <1>5, BreakingOff

(* ActorInv is inductive.                                                  *)
LEMMA ActorInvStep ==
  ASSUME ActorInv, [ActorNext]_actorVars
  PROVE  ActorInv'
<1> USE CmdAssumption, Members
<1>0. /\ ActorTypeOK /\ PlaceInv /\ LostInv
      /\ queue \in Seq(Cmd) /\ pending \in Seq(Query) /\ asked \in Seq(Cmd)
      /\ Range(<<>>) = {} /\ Distinct(<<>>)
  BY DEF ActorInv, ActorTypeOK, Range, Distinct
<1>1. ASSUME NEW c \in Cmd, Enqueue(c) PROVE ActorInv'
  <2>1. /\ asked' \in Seq(Cmd) /\ Issued' = Issued \cup {c} /\ c \notin Issued
        /\ UNCHANGED <<at, pending, current, held, stream, fatal>>
    BY <1>0, <1>1, Appended DEF Enqueue, Issued
  <2>2. told[c] = "none" /\ c \notin Range(queue)
    BY <1>0, <2>1 DEF PlaceInv
  <2>3. CASE at = "ended"
    <3>1. /\ told' = Refused({c}) /\ UNCHANGED queue
      BY <1>1, <2>3 DEF Enqueue
    <3>2. /\ told' \in [Cmd -> {"none", "sent"} \cup Answered] /\ told'[c] \in Answered
          /\ \A d \in Cmd : d # c => told'[d] = told[d]
      BY <1>0, <3>1, Refusing
    <3>3. ActorTypeOK' /\ PlaceInv'
      BY <1>0, <2>1, <2>3, <3>1, <3>2 DEF ActorTypeOK, PlaceInv
    <3>4. \A d \in Cmd : InPlace(d)' <=> InPlace(d)
      BY <2>1, <3>1 DEF InPlace
    <3>5. LostInv'
      <4>1. CASE \A d \in Issued : told[d] \in Answered \/ InPlace(d)
        BY <1>0, <2>1, <3>2, <3>4, <4>1 DEF LostInv
      <4>2. CASE /\ Broken /\ fatal
                 /\ \E x \in Cmd :
                      \A d \in Issued : told[d] \in Answered \/ InPlace(d) \/ d = x
        <5>1. PICK x \in Cmd :
                \A d \in Issued : told[d] \in Answered \/ InPlace(d) \/ d = x
          BY <4>2
        <5>2. \A d \in Issued' : told'[d] \in Answered \/ InPlace(d)' \/ d = x
          BY <1>0, <2>1, <3>2, <3>4, <5>1
        <5> QED BY <2>1, <4>2, <5>2 DEF LostInv, Broken
      <4> QED BY <1>0, <4>1, <4>2 DEF LostInv
    <3> QED BY <3>3, <3>5 DEF ActorInv
  <2>4. CASE at # "ended"
    <3>0. queue' = Append(queue, c) /\ UNCHANGED told /\ Distinct(queue)
      BY <1>0, <1>1, <2>4 DEF Enqueue, PlaceInv
    <3>1. /\ queue' \in Seq(Cmd) /\ Range(queue') = Range(queue) \cup {c}
          /\ Distinct(queue') /\ UNCHANGED told
      BY <1>0, <2>2, <3>0, Appended
    <3>2. ActorTypeOK' /\ PlaceInv'
      BY <1>0, <2>1, <2>2, <2>4, <3>1 DEF ActorTypeOK, PlaceInv
    <3>3. LostInv'
      BY <1>0, <2>1, <2>2, <2>4, <3>1 DEF LostInv, InPlace, Broken
    <3> QED BY <3>2, <3>3 DEF ActorInv
  <2> QED BY <2>3, <2>4
<1>2. CASE Cancelled \/ QueryRefused \/ TurnFails \/ InterruptRaises \/ AbortRaises
  BY <1>2, BreakSteps
<1>3. CASE Connected \/ \E how \in {"end", "fail"} : StreamOver(how)
  BY <1>0, <1>3
     DEF Connected, StreamOver, ActorInv, ActorTypeOK, PlaceInv, LostInv, InPlace, Broken,
         Issued
<1>4. CASE ConnectFails \/ End
  <2>1. /\ at \in {"starting", "closing"} /\ at' = "ended" /\ queue' = <<>>
        /\ told' = Refused(Range(queue)) /\ fatal' \in BOOLEAN /\ (fatal => fatal')
        /\ UNCHANGED <<pending, current, held, stream, asked>>
    BY <1>0, <1>4 DEF ConnectFails, End, ActorTypeOK
  <2>2. /\ told' \in [Cmd -> {"none", "sent"} \cup Answered]
        /\ \A c \in Range(queue) : told'[c] \in Answered
        /\ \A c \in Cmd : c \notin Range(queue) => told'[c] = told[c]
        /\ \A c \in Cmd : told[c] \in Answered => told'[c] = told[c]
    BY <1>0, <2>1, Refusing
  <2>3. pending = <<>> /\ current = NoCmd /\ held = NoCmd
    BY <1>0, <2>1 DEF ActorTypeOK
  <2>4. ActorTypeOK' /\ PlaceInv'
    BY <1>0, <2>1, <2>2, <2>3 DEF ActorTypeOK, PlaceInv, Issued
  <2>5. LostInv'
    BY <1>0, <2>1, <2>2, <2>3 DEF LostInv, InPlace, Broken, Issued
  <2> QED BY <2>4, <2>5 DEF ActorInv
<1>5. CASE TakeCommand
  <2>1. /\ at = "idle" /\ queue # <<>> /\ Begin(Head(queue), told) /\ queue' = Tail(queue)
        /\ UNCHANGED <<pending, fatal, asked>>
    BY <1>5 DEF TakeCommand
  <2>2. pending = <<>> /\ current = NoCmd /\ held = NoCmd
    BY <1>0, <2>1 DEF ActorTypeOK
  <2>3. /\ Head(queue) \in Cmd /\ queue' \in Seq(Cmd) /\ Distinct(queue')
        /\ Head(queue) \notin Range(queue') /\ Range(queue) = {Head(queue)} \cup Range(queue')
    BY <1>0, <2>1, HeadAndTail DEF PlaceInv
  <2>4. told[Head(queue)] = "none" /\ Head(queue) \in Issued
    BY <1>0, <2>3 DEF PlaceInv
  <2> QED BY <1>0, <2>1, <2>2, <2>3, <2>4, Beginning
<1>6. CASE QuerySent
  <2>1. /\ at = "sending" /\ at' = "driving" /\ told' = [told EXCEPT ![current] = "sent"]
        /\ UNCHANGED <<queue, pending, current, held, stream, fatal, asked>>
        /\ current \in Cmd /\ told[current] = "none" /\ current \in Issued
    BY <1>0, <1>6 DEF QuerySent, ActorTypeOK, PlaceInv, Query
  <2>2. /\ told' \in [Cmd -> {"none", "sent"} \cup Answered] /\ told'[current] = "sent"
        /\ \A c \in Cmd : c # current => told'[c] = told[c]
    BY <1>0, <2>1 DEF ActorTypeOK
  <2>3. ActorTypeOK' /\ PlaceInv'
    BY <1>0, <2>1, <2>2 DEF ActorTypeOK, PlaceInv, Issued
  <2>4. LostInv'
    BY <1>0, <2>1, <2>2 DEF LostInv, InPlace, Broken, Issued
  <2> QED BY <2>3, <2>4 DEF ActorInv
<1>7. CASE Fetch
  <2>1. /\ at = "driving" /\ held = NoCmd /\ held' = Head(queue) /\ queue' = Tail(queue)
        /\ queue # <<>> /\ UNCHANGED <<at, pending, current, stream, fatal, told, asked>>
    BY <1>7 DEF Fetch
  <2>2. /\ held' \in Cmd /\ queue' \in Seq(Cmd) /\ Distinct(queue')
        /\ held' \notin Range(queue') /\ Range(queue) = {held'} \cup Range(queue')
    BY <1>0, <2>1, HeadAndTail DEF PlaceInv
  <2>3. ActorTypeOK' /\ PlaceInv'
    BY <1>0, <2>1, <2>2 DEF ActorTypeOK, PlaceInv, Issued
  <2>4. LostInv'
    BY <1>0, <2>1, <2>2 DEF LostInv, InPlace, Broken, Issued
  <2> QED BY <2>3, <2>4 DEF ActorInv
<1>8. CASE TurnEnds
  <2> DEFINE over == [told EXCEPT ![current] = "done"]
             back == IF held # NoCmd THEN <<held>> ELSE <<>>
  <2>1. /\ at = "driving" /\ current \in Cmd /\ current # NoCmd /\ pending' = <<>>
        /\ held \in Cmd \cup {NoCmd} /\ UNCHANGED <<fatal, asked>>
    BY <1>0, <1>8 DEF TurnEnds, ActorTypeOK, Query
  <2>2. CASE pending # <<>>
    <3>1. Begin(Head(pending), over) /\ queue' = (queue \o back) \o Tail(pending)
      BY <1>8, <2>2 DEF TurnEnds
    <3>2. /\ Head(pending) \in Query /\ Tail(pending) \in Seq(Cmd) /\ Distinct(Tail(pending))
          /\ Head(pending) \notin Range(Tail(pending))
          /\ Range(pending) = {Head(pending)} \cup Range(Tail(pending))
      BY <1>0, <2>2, HeadAndTail DEF PlaceInv, Query
    <3>3. back \in Seq(Cmd) /\ Range(back) = {held} \ {NoCmd} /\ Distinct(back)
      <4>1. CASE held = NoCmd
        BY <1>0, <4>1
      <4>2. CASE held # NoCmd
        <5>1. back = <<held>> /\ back \in Seq(Cmd) /\ DOMAIN back = {1} /\ back[1] = held
          BY <2>1, <4>2
        <5> QED BY <4>2, <5>1 DEF Range, Distinct
      <4> QED BY <4>1, <4>2
    <3>4. /\ queue \o back \in Seq(Cmd) /\ Distinct(queue \o back)
          /\ Range(queue \o back) = Range(queue) \cup ({held} \ {NoCmd})
      <4>1. Range(queue) \cap Range(back) = {} /\ Distinct(queue)
        BY <1>0, <3>3 DEF PlaceInv
      <4> HIDE DEF back
      <4> QED BY <1>0, <3>3, <4>1, Joined
    <3>5. /\ queue' \in Seq(Cmd) /\ Distinct(queue')
          /\ Range(queue') = Range(queue) \cup ({held} \ {NoCmd}) \cup Range(Tail(pending))
      <4>1. Range(queue \o back) \cap Range(Tail(pending)) = {}
        BY <1>0, <3>2, <3>4 DEF PlaceInv
      <4> DEFINE front == queue \o back
                 rest == Tail(pending)
      <4> HIDE DEF front, rest
      <4>2. /\ front \in Seq(Cmd) /\ Distinct(front) /\ rest \in Seq(Cmd) /\ Distinct(rest)
            /\ Range(front) \cap Range(rest) = {}
            /\ queue' = front \o rest
            /\ Range(front) = Range(queue) \cup ({held} \ {NoCmd})
        BY <3>1, <3>2, <3>4, <4>1 DEF front, rest
      <4>3. /\ front \o rest \in Seq(Cmd) /\ Distinct(front \o rest)
            /\ Range(front \o rest) = Range(front) \cup Range(rest)
        BY <4>2, Joined
      <4> QED BY <4>2, <4>3 DEF rest
    <3>6. /\ Head(pending) \in Cmd /\ told[Head(pending)] = "none" /\ Head(pending) \in Issued
          /\ Head(pending) # current /\ Head(pending) \notin Range(queue')
      BY <1>0, <3>2, <3>5 DEF PlaceInv, Query
    <3> QED BY <2>1, <3>1, <3>2, <3>5, <3>6, Beginning
  <2>3. CASE pending = <<>> /\ held # NoCmd
    <3>1. Begin(held, over) /\ queue' = queue
      BY <1>8, <2>3 DEF TurnEnds
    <3>2. /\ held \in Cmd /\ told[held] = "none" /\ held \in Issued /\ held # current
          /\ held \notin Range(queue') /\ Distinct(queue') /\ queue' \in Seq(Cmd)
      BY <1>0, <2>1, <2>3, <3>1 DEF PlaceInv
    <3> QED BY <1>0, <2>1, <2>3, <3>1, <3>2, Beginning
  <2>4. CASE pending = <<>> /\ held = NoCmd
    <3>1. /\ at' = "idle" /\ current' = NoCmd /\ told' = over /\ stream' = "open"
          /\ UNCHANGED <<held, queue>>
      BY <1>8, <2>4 DEF TurnEnds
    <3>2. /\ told' \in [Cmd -> {"none", "sent"} \cup Answered] /\ told'[current] \in Answered
          /\ \A c \in Cmd : c # current => told'[c] = told[c]
      BY <1>0, <2>1, <3>1 DEF ActorTypeOK, Answered
    <3>3. ActorTypeOK' /\ PlaceInv'
      BY <1>0, <2>1, <2>4, <3>1, <3>2 DEF ActorTypeOK, PlaceInv, Issued
    <3>4. LostInv'
      BY <1>0, <2>1, <2>4, <3>1, <3>2 DEF LostInv, InPlace, Broken, Issued
    <3> QED BY <3>3, <3>4 DEF ActorInv
  <2> QED BY <2>2, <2>3, <2>4
<1>9. CASE HandleHeld
  <2>1. CASE Kind[held] = "query"
    <3>1. /\ at = "driving" /\ held # NoCmd /\ held' = NoCmd /\ pending' = Append(pending, held)
          /\ UNCHANGED <<at, queue, current, stream, fatal, told, asked>>
      BY <1>9, <2>1 DEF HandleHeld
    <3>2. held \in Query /\ held \notin Range(pending)
      BY <1>0, <2>1, <3>1 DEF ActorTypeOK, PlaceInv, Query
    <3>3. /\ pending' \in Seq(Query) /\ Range(pending') = Range(pending) \cup {held}
          /\ Distinct(pending')
      BY <1>0, <3>1, <3>2, Appended DEF PlaceInv
    <3>4. ActorTypeOK' /\ PlaceInv'
      BY <1>0, <3>1, <3>2, <3>3 DEF ActorTypeOK, PlaceInv, Issued
    <3>5. LostInv'
      BY <1>0, <3>1, <3>2, <3>3 DEF LostInv, InPlace, Broken, Issued
    <3> QED BY <3>4, <3>5 DEF ActorInv
  <2>2. CASE Kind[held] # "query"
    <3>1. /\ at = "driving" /\ held # NoCmd
          /\ at' = IF Kind[held] = "interrupt" THEN "interrupting" ELSE "aborting"
          /\ UNCHANGED <<pending, held, queue, current, stream, fatal, told, asked>>
      BY <1>9, <2>2 DEF HandleHeld
    <3>2. ActorTypeOK' /\ PlaceInv'
      BY <1>0, <2>2, <3>1 DEF ActorTypeOK, PlaceInv, Issued
    <3>3. LostInv'
      BY <1>0, <3>1 DEF LostInv, InPlace, Broken, Issued
    <3> QED BY <3>2, <3>3 DEF ActorInv
  <2> QED BY <2>1, <2>2
<1>10. CASE Interrupted
  <2>1. /\ at = "interrupting" /\ at' = "driving" /\ held \in Cmd /\ held # NoCmd
        /\ told' = [told EXCEPT ![held] = "done"] /\ held' = NoCmd
        /\ UNCHANGED <<queue, pending, current, stream, fatal, asked>>
    BY <1>0, <1>10 DEF Interrupted, ActorTypeOK
  <2>2. /\ told' \in [Cmd -> {"none", "sent"} \cup Answered] /\ told'[held] \in Answered
        /\ \A c \in Cmd : c # held => told'[c] = told[c]
    BY <1>0, <2>1 DEF ActorTypeOK, Answered
  <2>3. ActorTypeOK' /\ PlaceInv'
    BY <1>0, <2>1, <2>2 DEF ActorTypeOK, PlaceInv, Issued
  <2>4. LostInv'
    BY <1>0, <2>1, <2>2 DEF LostInv, InPlace, Broken, Issued
  <2> QED BY <2>3, <2>4 DEF ActorInv
<1>11. CASE Aborted
  <2>1. /\ at = "aborting" /\ at' = "closing" /\ pending' = <<>> /\ current' = NoCmd
        /\ held' = NoCmd /\ stream' = "open" /\ UNCHANGED <<queue, fatal, asked>>
        /\ told' = [Refused(Range(pending)) EXCEPT ![current] = "done", ![held] = "done"]
        /\ held \in Cmd /\ current \in Cmd
    BY <1>0, <1>11 DEF Aborted, ActorTypeOK, Query
  <2>2. /\ told' \in [Cmd -> {"none", "sent"} \cup Answered]
        /\ \A c \in Cmd : IF c = held \/ c = current THEN told'[c] = "done"
                          ELSE told'[c] = Refused(Range(pending))[c]
    BY <1>0, <2>1, Refusing DEF Answered
  <2>3. /\ told'[held] \in Answered /\ told'[current] \in Answered
        /\ \A c \in Range(pending) : told'[c] \in Answered
        /\ \A c \in Cmd : c \notin Range(pending) \cup {held, current} => told'[c] = told[c]
        /\ \A c \in Cmd : told[c] \in Answered => told'[c] \in Answered
    BY <1>0, <2>1, <2>2, Refusing DEF Answered, Query
  <2>4. ActorTypeOK' /\ PlaceInv'
    BY <1>0, <2>1, <2>2, <2>3 DEF ActorTypeOK, PlaceInv, Issued
  <2>5. LostInv'
    BY <1>0, <2>1, <2>3 DEF LostInv, InPlace, Broken, Issued
  <2> QED BY <2>4, <2>5 DEF ActorInv
<1>12. CASE UNCHANGED actorVars
  BY <1>0, <1>12 DEF actorVars, ActorInv, ActorTypeOK, PlaceInv, LostInv, InPlace, Broken,
                     Issued
<1> QED BY <1>1, <1>2, <1>3, <1>4, <1>5, <1>6, <1>7, <1>8, <1>9, <1>10, <1>11, <1>12
        DEF ActorNext, TaskStep

(* ActorInv holds initially.                                               *)
LEMMA ActorStart == ActorInit => ActorInv
<1> SUFFICES ASSUME ActorInit PROVE ActorInv
  OBVIOUS
<1>1. Range(<<>>) = {} /\ Distinct(<<>>)
  BY DEF Range, Distinct
<1>2. ActorTypeOK
  <2>1. <<>> \in Seq(Cmd) /\ <<>> \in Seq(Query)
    OBVIOUS
  <2> QED BY <2>1 DEF ActorInit, ActorTypeOK
<1>3. PlaceInv
  BY <1>1 DEF ActorInit, PlaceInv, Issued
<1>4. LostInv
  BY <1>1 DEF ActorInit, LostInv, Issued
<1> QED BY <1>2, <1>3, <1>4 DEF ActorInv

(* ActorInv always holds.                                                  *)
LEMMA ActorAlways == ActorSpec => []ActorInv
<1>1. ActorInv /\ [ActorNext]_actorVars => ActorInv'
  BY ActorInvStep
<1> QED BY <1>1, ActorStart, PTL DEF ActorSpec

(* A command or none, as a sequence.                                       *)
LEMMA OneOrNone ==
  ASSUME NEW c \in Cmd \cup {NoCmd}
  PROVE  One(c) \in Seq(Cmd) /\ Distinct(One(c)) /\ Range(One(c)) = {c} \ {NoCmd}
<1>1. CASE c = NoCmd
  BY <1>1 DEF One, Distinct, Range
<1>2. CASE c # NoCmd
  <2>1. One(c) = <<c>> /\ One(c) \in Seq(Cmd) /\ DOMAIN One(c) = {1} /\ One(c)[1] = c
    BY <1>2 DEF One
  <2> QED BY <1>2, <2>1 DEF Distinct, Range
<1> QED BY <1>1, <1>2

(* The places together hold each command once.                             *)
LEMMA PlacesJoined ==
  ASSUME ActorInv
  PROVE  /\ Places \in Seq(Cmd) /\ Distinct(Places)
         /\ Range(Places) = Range(queue) \cup Range(pending) \cup ({current, held} \ {NoCmd})
<1> USE CmdAssumption, Members
<1>0. /\ ActorTypeOK /\ PlaceInv
      /\ queue \in Seq(Cmd) /\ pending \in Seq(Cmd) /\ Distinct(queue) /\ Distinct(pending)
      /\ current \in Cmd \cup {NoCmd} /\ held \in Cmd \cup {NoCmd}
  BY DEF ActorInv, ActorTypeOK, PlaceInv, Query
<1> DEFINE two == queue \o pending
           three == two \o One(current)
<1>1. /\ two \in Seq(Cmd) /\ Distinct(two) /\ Range(two) = Range(queue) \cup Range(pending)
  <2>1. Range(queue) \cap Range(pending) = {}
    BY <1>0 DEF PlaceInv
  <2> QED BY <1>0, <2>1, Joined
<1> HIDE DEF two
<1>2. /\ three \in Seq(Cmd) /\ Distinct(three)
      /\ Range(three) = Range(two) \cup ({current} \ {NoCmd})
  <2>1. Range(two) \cap Range(One(current)) = {}
    BY <1>0, <1>1, OneOrNone DEF PlaceInv
  <2> QED BY <1>0, <1>1, <2>1, OneOrNone, Joined
<1> HIDE DEF three
<1>3. /\ three \o One(held) \in Seq(Cmd) /\ Distinct(three \o One(held))
      /\ Range(three \o One(held)) = Range(three) \cup ({held} \ {NoCmd})
  <2>1. Range(three) \cap Range(One(held)) = {}
    BY <1>0, <1>1, <1>2, OneOrNone DEF PlaceInv
  <2> QED BY <1>0, <1>2, <2>1, OneOrNone, Joined
<1>4. Places = three \o One(held)
  BY DEF Places, two, three
<1> QED BY <1>1, <1>2, <1>3, <1>4

(* Whatever the SDK, the callers and a cancellation do, in any order: a    *)
(* command whose issuer waits is in one place and one only, but for the one*)
(* that is lost when the task breaks off.                                  *)
THEOREM NothingIsDropped == ActorSpec => []EveryCommandHasAPlace
<1>1. ActorInv => EveryCommandHasAPlace
  <2> SUFFICES ASSUME ActorInv PROVE EveryCommandHasAPlace
    OBVIOUS
  <2> USE CmdAssumption, Members
  <2>0. ActorTypeOK /\ PlaceInv /\ LostInv
    BY DEF ActorInv
  <2>1. at = "ended" => Places = <<>>
    BY <2>0 DEF ActorTypeOK, PlaceInv, Places, One
  <2>2. \A i, j \in DOMAIN Places : Places[i] = Places[j] => i = j
    BY PlacesJoined DEF Distinct
  <2>3. \A i \in DOMAIN Places : Places[i] \in Waiting
    <3>1. Range(Places) \subseteq Waiting
      BY <2>0, PlacesJoined DEF PlaceInv, Waiting, Answered, Query
    <3> QED BY <3>1 DEF Range
  <2>4. Cardinality(Waiting \ Range(Places))
          <= IF at \in {"closing", "ended"} /\ fatal THEN 1 ELSE 0
    <3>1. \A c \in Waiting \ Range(Places) : told[c] \notin Answered /\ ~InPlace(c)
      BY <2>0, PlacesJoined DEF Waiting, InPlace
    <3>2. CASE Waiting \ Range(Places) = {}
      BY <3>2, FS_EmptySet
    <3>3. CASE Waiting \ Range(Places) # {}
      <4>1. PICK x \in Cmd : Waiting \ Range(Places) = {x}
        BY <2>0, <3>1, <3>3 DEF LostInv, Waiting
      <4>2. Broken /\ fatal
        BY <2>0, <3>1, <3>3 DEF LostInv, Waiting
      <4> QED BY <4>1, <4>2, FS_Singleton DEF Broken
    <3> QED BY <3>2, <3>3
  <2> QED BY <2>1, <2>2, <2>3, <2>4 DEF EveryCommandHasAPlace
<1> QED BY <1>1, ActorAlways, PTL

(* A task that ends without an exception has answered every command, also  *)
(* those that came while it ended; one that breaks off leaves at most one  *)
(* caller waiting (SessionActorHang.cfg shows that it may leave one).      *)
THEOREM EndingAnswersEverybody ==
  ActorSpec => [](at = "ended" => Waiting = {} \/ (fatal /\ \E x \in Cmd : Waiting = {x}))
<1>1. ASSUME ActorInv, at = "ended"
      PROVE  Waiting = {} \/ (fatal /\ \E x \in Cmd : Waiting = {x})
  <2> USE CmdAssumption, Members
  <2>0. ActorTypeOK /\ PlaceInv /\ LostInv
    BY <1>1 DEF ActorInv
  <2>1. \A c \in Issued : ~InPlace(c)
    BY <1>1, <2>0 DEF InPlace, ActorTypeOK, PlaceInv, Issued
  <2>2. CASE \A c \in Issued : told[c] \in Answered \/ InPlace(c)
    BY <2>1, <2>2 DEF Waiting
  <2>3. CASE fatal /\ \E x \in Cmd :
                        \A c \in Issued : told[c] \in Answered \/ InPlace(c) \/ c = x
    <3>1. PICK x \in Cmd : \A c \in Issued : told[c] \in Answered \/ c = x
      BY <2>1, <2>3
    <3>2. Waiting \subseteq {x}
      BY <3>1 DEF Waiting
    <3> QED BY <2>3, <3>2
  <2> QED BY <2>0, <2>2, <2>3 DEF LostInv
<1> QED BY <1>1, ActorAlways, PTL

(***************************************************************************)
(* Turns                                                                   *)
(***************************************************************************)

(* Each step of the task is one that SessionTurns allows.                  *)
LEMMA TurnStep ==
  ASSUME ActorInv, [ActorNext]_actorVars
  PROVE  [Turns!Next]_(Turns!turnVars)
<1> USE CmdAssumption, Members
<1>0. /\ ActorTypeOK /\ PlaceInv /\ told \in [Cmd -> {"none", "sent"} \cup Answered]
      /\ queue \in Seq(Cmd) /\ pending \in Seq(Query)
  BY DEF ActorInv, ActorTypeOK
<1>u. ASSUME UNCHANGED <<told, current>>, Broken' <=> Broken
      PROVE  [Turns!Next]_(Turns!turnVars)
  BY <1>u DEF Turns!turnVars, Broken
<1>p. ASSUME ~Broken, ~Broken', \A c \in Cmd : Turns!Advance(c),
             \/ current' = current
             \/ /\ current # NoCmd => told'[current] = "done"
                /\ current' \in Cmd => Kind[current'] = "query" /\ told[current'] = "none"
      PROVE  [Turns!Next]_(Turns!turnVars)
  BY <1>p DEF Turns!Next, Turns!Proceed, Broken
<1>c. ASSUME ~Broken, Broken', current' = NoCmd,
             \A c \in Cmd : \/ Turns!Advance(c)
                            \/ told[c] \notin Answered /\ told'[c] = "error"
      PROVE  [Turns!Next]_(Turns!turnVars)
  BY <1>c DEF Turns!Next, Turns!Close, Turns!Final, Answered, Broken
<1>r. ASSUME Broken, Broken', current' = current,
             \A c \in Cmd : \/ told'[c] = told[c]
                            \/ told[c] \notin Answered /\ told'[c] = "error"
      PROVE  [Turns!Next]_(Turns!turnVars)
  BY <1>r DEF Turns!Next, Turns!Refuse, Turns!Final, Answered, Broken
<1>b. ASSUME NEW c \in Cmd, NEW note,
             told[c] = "none", c # current, current = NoCmd \/ told[current] = "sent", ~Broken,
             note = (IF current = NoCmd THEN told ELSE [told EXCEPT ![current] = "done"]),
             Begin(c, note)
      PROVE  [Turns!Next]_(Turns!turnVars)
  <2>1. \A d \in Cmd : note[d] = IF d = current THEN "done" ELSE told[d]
    BY <1>0, <1>b
  <2>2. \/ at' = "sending" /\ current' = c /\ told' = note /\ Kind[c] = "query"
        \/ /\ at' \in {"idle", "closing"} /\ current' = NoCmd
           /\ told' = [note EXCEPT ![c] = "done"] /\ Kind[c] # "query"
    BY <1>b DEF Begin
  <2>3. /\ note \in [Cmd -> {"none", "sent"} \cup Answered]
        /\ \A d \in Cmd : told'[d] = IF d = current THEN "done"
                                     ELSE IF d = c /\ Kind[c] # "query" THEN "done"
                                     ELSE told[d]
    BY <1>0, <1>b, <2>1, <2>2 DEF Answered
  <2>4. \A d \in Cmd : Turns!Advance(d)
    BY <1>b, <2>3 DEF Turns!Advance
  <2>5. current # NoCmd => current \in Cmd /\ told'[current] = "done"
    BY <1>0, <2>3 DEF ActorTypeOK, Query
  <2>6. CASE at' = "closing"
    BY <1>b, <1>c, <2>2, <2>4, <2>6 DEF Broken
  <2>7. CASE at' # "closing"
    BY <1>b, <1>p, <2>2, <2>3, <2>4, <2>5, <2>7 DEF Broken
  <2> QED BY <2>6, <2>7

<1>1. ASSUME NEW c \in Cmd, Enqueue(c) PROVE [Turns!Next]_(Turns!turnVars)
  <2>1. UNCHANGED <<at, current>> /\ c \notin Issued
    BY <1>1 DEF Enqueue
  <2>2. CASE at = "ended"
    <3>1. told' = Refused({c})
      BY <1>1, <2>2 DEF Enqueue
    <3> QED BY <1>0, <1>r, <2>1, <2>2, <3>1, Refusing DEF Broken
  <2>3. CASE at # "ended"
    BY <1>1, <1>u, <2>1, <2>3 DEF Enqueue, Broken
  <2> QED BY <2>2, <2>3
<1>2. CASE Cancelled
  <2>1. /\ \A c \in Cmd : told'[c] = IF at = "interrupting" /\ c = held THEN "done"
                                     ELSE Refused(Range(pending) \cup {current})[c]
        /\ BreakOff /\ ~Broken
    BY <1>2 DEF Cancelled, Broken
  <2>2. at = "interrupting" => held \in Cmd /\ Kind[held] # "query" /\ told[held] = "none"
    BY <1>0 DEF ActorTypeOK, PlaceInv
  <2>3. \A c \in Cmd : \/ Turns!Advance(c)
                       \/ told[c] \notin Answered /\ told'[c] = "error"
    BY <1>0, <2>1, <2>2, Refusing DEF Turns!Advance
  <2> QED BY <1>c, <2>1, <2>3 DEF BreakOff, Broken
<1>3. CASE QueryRefused \/ TurnFails \/ InterruptRaises \/ AbortRaises
  <2>1. /\ \E cs : told' = Refused(cs)
        /\ BreakOff /\ ~Broken
    BY <1>3 DEF QueryRefused, TurnFails, InterruptRaises, AbortRaises, Broken
  <2>2. \A c \in Cmd : \/ told'[c] = told[c]
                       \/ told[c] \notin Answered /\ told'[c] = "error"
    BY <1>0, <2>1, Refusing
  <2> QED BY <1>c, <2>1, <2>2 DEF BreakOff, Broken, Turns!Advance
<1>4. CASE Connected \/ Fetch \/ HandleHeld \/ \E how \in {"end", "fail"} : StreamOver(how)
  BY <1>u, <1>4 DEF Connected, Fetch, HandleHeld, StreamOver, Broken
<1>5. CASE ConnectFails \/ End
  <2>1. /\ told' = Refused(Range(queue)) /\ at' = "ended" /\ UNCHANGED current
        /\ at \in {"starting", "closing"} /\ current = NoCmd
    BY <1>0, <1>5 DEF ConnectFails, End, ActorTypeOK
  <2>2. \A c \in Cmd : \/ told'[c] = told[c]
                       \/ told[c] \notin Answered /\ told'[c] = "error"
    BY <1>0, <2>1, Refusing
  <2> QED BY <1>c, <1>r, <2>1, <2>2 DEF Broken, Turns!Advance
<1>6. CASE TakeCommand
  <2>1. at = "idle" /\ queue # <<>> /\ Begin(Head(queue), told) /\ current = NoCmd
    BY <1>0, <1>6 DEF TakeCommand, ActorTypeOK
  <2>2. Head(queue) \in Cmd /\ Head(queue) \in Range(queue)
    BY <1>0, <2>1, HeadAndTail
  <2>3. told[Head(queue)] = "none" /\ Head(queue) # current
    BY <1>0, <2>2 DEF PlaceInv
  <2> QED BY <1>b, <2>1, <2>2, <2>3 DEF Broken
<1>7. CASE TurnEnds
  <2> DEFINE over == [told EXCEPT ![current] = "done"]
  <2>1. /\ at = "driving" /\ current \in Cmd /\ current # NoCmd /\ told[current] = "sent"
        /\ \/ pending # <<>> /\ Begin(Head(pending), over)
           \/ held # NoCmd /\ held \in Cmd /\ Begin(held, over)
           \/ at' = "idle" /\ current' = NoCmd /\ told' = over
    BY <1>0, <1>7 DEF TurnEnds, ActorTypeOK, PlaceInv, Query
  <2>2. CASE pending # <<>> /\ Begin(Head(pending), over)
    <3>1. Head(pending) \in Query /\ Head(pending) \in Range(pending)
      BY <1>0, <2>2, HeadAndTail
    <3>2. told[Head(pending)] = "none" /\ Head(pending) # current /\ Head(pending) \in Cmd
      BY <1>0, <3>1 DEF PlaceInv, Query
    <3> QED BY <1>b, <2>1, <2>2, <3>2 DEF Broken
  <2>3. CASE held # NoCmd /\ held \in Cmd /\ Begin(held, over)
    <3>1. told[held] = "none" /\ held # current
      BY <1>0, <2>3 DEF PlaceInv
    <3> QED BY <1>b, <2>1, <2>3, <3>1 DEF Broken
  <2>4. CASE at' = "idle" /\ current' = NoCmd /\ told' = over
    <3>1. \A d \in Cmd : told'[d] = IF d = current THEN "done" ELSE told[d]
      BY <1>0, <2>4
    <3>2. \A d \in Cmd : Turns!Advance(d)
      BY <2>1, <3>1 DEF Turns!Advance
    <3> QED BY <1>p, <2>1, <2>4, <3>1, <3>2 DEF Broken
  <2> QED BY <2>1, <2>2, <2>3, <2>4
<1>8. CASE QuerySent
  <2>1. /\ at = "sending" /\ at' = "driving" /\ told' = [told EXCEPT ![current] = "sent"]
        /\ current \in Cmd /\ told[current] = "none" /\ UNCHANGED current
    BY <1>0, <1>8 DEF QuerySent, ActorTypeOK, PlaceInv, Query
  <2>2. \A d \in Cmd : told'[d] = IF d = current THEN "sent" ELSE told[d]
    BY <1>0, <2>1
  <2> QED BY <1>p, <2>1, <2>2 DEF Broken, Turns!Advance
<1>9. CASE Interrupted
  <2>1. /\ at = "interrupting" /\ at' = "driving" /\ told' = [told EXCEPT ![held] = "done"]
        /\ held \in Cmd /\ told[held] = "none" /\ Kind[held] # "query" /\ UNCHANGED current
    BY <1>0, <1>9 DEF Interrupted, ActorTypeOK, PlaceInv
  <2>2. \A d \in Cmd : told'[d] = IF d = held THEN "done" ELSE told[d]
    BY <1>0, <2>1
  <2> QED BY <1>p, <2>1, <2>2 DEF Broken, Turns!Advance
<1>10. CASE Aborted
  <2>1. /\ at = "aborting" /\ at' = "closing" /\ current' = NoCmd
        /\ told' = [Refused(Range(pending)) EXCEPT ![current] = "done", ![held] = "done"]
        /\ held \in Cmd /\ told[held] = "none" /\ Kind[held] # "query"
        /\ current \in Cmd /\ told[current] = "sent"
    BY <1>0, <1>10 DEF Aborted, ActorTypeOK, PlaceInv, Query
  <2>2. \A d \in Cmd : told'[d] = IF d = held \/ d = current THEN "done"
                                  ELSE Refused(Range(pending))[d]
    BY <1>0, <2>1, Refusing
  <2>3. \A d \in Cmd : \/ Turns!Advance(d)
                       \/ told[d] \notin Answered /\ told'[d] = "error"
    BY <1>0, <2>1, <2>2, Refusing DEF Turns!Advance
  <2> QED BY <1>c, <2>1, <2>3 DEF Broken
<1>11. CASE UNCHANGED actorVars
  BY <1>u, <1>11 DEF actorVars, Broken
<1> QED BY <1>1, <1>2, <1>3, <1>4, <1>5, <1>6, <1>7, <1>8, <1>9, <1>10, <1>11
        DEF ActorNext, TaskStep

(* The task implements SessionTurns: one turn after the other, each ended  *)
(* by the SDK, and no answer is revised.                                   *)
THEOREM TurnsFollowOneAnother == ActorSpec => TurnsInTurn
<1>1. ActorInit => Turns!Init
  BY DEF ActorInit, Turns!Init
<1>2. ActorInv /\ [ActorNext]_actorVars => [Turns!Next]_(Turns!turnVars)
  BY TurnStep
<1> QED BY <1>1, <1>2, ActorAlways, PTL DEF ActorSpec, TurnsInTurn, Turns!Spec

-----------------------------------------------------------------------------
(***************************************************************************)
(* The log of users' messages                                              *)
(***************************************************************************)

(* A set of numbers with an upper bound has a greatest element.            *)
LEMMA GreatestExists ==
  ASSUME NEW S \in SUBSET Nat, S # {}, NEW n \in Nat, \A s \in S : s <= n
  PROVE  Max(S) \in S /\ \A s \in S : s <= Max(S)
<1> DEFINE Bounds == {b \in Nat : \A s \in S : s <= b}
<1>1. PICK b \in Bounds : \A c \in Bounds : ~ (<<c, b>> \in OpToRel(<, Nat))
  <2>1. Bounds \subseteq Nat /\ Bounds # {}
    OBVIOUS
  <2>2. IsWellFoundedOn(OpToRel(<, Nat), Nat)
    BY NatLessThanWellFounded
  <2> QED BY <2>1, <2>2, WFMin
<1>2. \A c \in Bounds : c >= b
  <2> SUFFICES ASSUME NEW c \in Bounds, c < b PROVE FALSE
    OBVIOUS
  <2>1. <<c, b>> \in Nat \X Nat /\ <<c, b>>[1] < <<c, b>>[2]
    OBVIOUS
  <2>2. <<c, b>> \in OpToRel(<, Nat)
    BY <2>1, Zenon DEF OpToRel
  <2> QED BY <1>1, <2>2
<1>3. b \in S
  <2> SUFFICES ASSUME b \notin S PROVE FALSE
    OBVIOUS
  <2>1. PICK s \in S : TRUE
    OBVIOUS
  <2>2. \A x \in S : x <= b - 1
    OBVIOUS
  <2>3. b - 1 \in Bounds
    BY <2>1, <2>2
  <2> QED BY <1>2, <2>3
<1>4. \E x \in S : \A y \in S : x >= y
  BY <1>3
<1> QED BY <1>4 DEF Max

(* Seqs are numbers, and there is a last one.                              *)
Bounded == DOMAIN log \in SUBSET Nat /\ \E n \in Nat : \A s \in DOMAIN log : s <= n

(* A seq that append gives out has not been in the log.                    *)
LEMMA FreshSeq ==
  ASSUME Bounded
  PROVE  LastSeq + 1 \in Nat /\ \A s \in DOMAIN log : s < LastSeq + 1
<1>1. CASE DOMAIN log = {}
  BY <1>1 DEF LastSeq
<1>2. CASE DOMAIN log # {}
  <2>1. LastSeq \in DOMAIN log /\ \A s \in DOMAIN log : s <= LastSeq
    BY <1>2, GreatestExists DEF Bounded, LastSeq
  <2> QED BY <2>1 DEF Bounded
<1> QED BY <1>1, <1>2

(* The posts that have an entry in the log.                                *)
Holding == {p \in Post : post[p] \in {"logged", "waiting", "refused", "accepted",
                                       "lost", "cut", "escaped"}}

(* What is in the log of users' messages, and who has written it.          *)
HolderInv ==
  /\ Bounded
  /\ post \in [Post -> Stages]
  /\ seqOf \in [Post -> Nat \cup {-1}]
  /\ line \subseteq {p \in Post : post[p] = "waiting"}
  /\ \A p \in Holding : seqOf[p] \in DOMAIN log /\ log[seqOf[p]] = UserEntry(MessageOf[p])
  /\ \A p, q \in Holding : MessageOf[p] = MessageOf[q] => p = q
  /\ \A m \in Message : \A s \in DOMAIN log :
        log[s] = UserEntry(m) => \E p \in Holding : seqOf[p] = s
  /\ \A p \in Post : post[p] = "repeated" =>
        HasEntry(MessageOf[p]) \/ MessageOf[p] \in retracted

(* What only the end of the actor does to a post: it drops one at most, and*)
(* only a cancelled one cuts off.                                          *)
EndInv ==
  /\ ending \in {"none", "failure", "cancelled"}
  /\ \A p, q \in Dropped : p = q
  /\ Dropped # {} => ending # "none"
  /\ CutOff # {} => ending = "cancelled"

(* Entries tell who wrote them and for which message.                      *)
LEMMA Entries ==
  /\ \A m, n : UserEntry(m) = UserEntry(n) => m = n
  /\ \A m, p : UserEntry(m) # AgentEntry(p)
  /\ \A m : UserEntry(m) # Interrupt
<1>1. "user" # "agent" /\ "user" # "system"
  OBVIOUS
<1> QED BY <1>1 DEF UserEntry, AgentEntry, Interrupt

(* An append puts its entry behind all others.                             *)
LEMMA AppendedToLog ==
  ASSUME Bounded, NEW e, log' = Written(e)
  PROVE  /\ Bounded'
         /\ DOMAIN log' = DOMAIN log \cup {LastSeq + 1} /\ LastSeq + 1 \notin DOMAIN log
         /\ log'[LastSeq + 1] = e
         /\ \A s \in DOMAIN log : log'[s] = log[s]
         /\ LastSeq + 1 \in Nat
<1>1. /\ LastSeq + 1 \in Nat /\ \A s \in DOMAIN log : s < LastSeq + 1
      /\ DOMAIN log \subseteq Nat
  BY FreshSeq DEF Bounded
<1>2. LastSeq + 1 \notin DOMAIN log
  BY <1>1
<1>3. /\ DOMAIN log' = DOMAIN log \cup {LastSeq + 1}
      /\ log'[LastSeq + 1] = e
      /\ \A s \in DOMAIN log : log'[s] = log[s]
  BY <1>2 DEF Written
<1>4. \A s \in DOMAIN log' : s \in Nat /\ s <= LastSeq + 1
  BY <1>1, <1>3
<1> QED BY <1>1, <1>2, <1>3, <1>4 DEF Bounded

(* Steps that leave the users' entries and who holds them alone.           *)
LEMMA HoldersFrame ==
  ASSUME HolderInv, UNCHANGED <<seqOf, retracted>>,
         log' = log \/ \E e : log' = Written(e) /\ \A m : e # UserEntry(m),
         post' \in [Post -> Stages],
         line' \subseteq {p \in Post : post'[p] = "waiting"},
         Holding' = Holding,
         \A p \in Post : post'[p] = "repeated" => post[p] = "repeated"
  PROVE  HolderInv'
<1>1. CASE log' = log
  BY <1>1 DEF HolderInv, Bounded, HasEntry
<1>2. ASSUME NEW e, log' = Written(e), \A m : e # UserEntry(m) PROVE HolderInv'
  <2>1. /\ Bounded'
        /\ DOMAIN log' = DOMAIN log \cup {LastSeq + 1}
        /\ log'[LastSeq + 1] = e
        /\ \A s \in DOMAIN log : log'[s] = log[s]
    BY <1>2, AppendedToLog DEF HolderInv
  <2>2. \A m : HasEntry(m) => HasEntry(m)'
    BY <2>1 DEF HasEntry
  <2>3. \A m \in Message : \A s \in DOMAIN log' :
          log'[s] = UserEntry(m) => \E p \in Holding' : seqOf'[p] = s
    BY <1>2, <2>1 DEF HolderInv
  <2>4. \A p \in Holding' : seqOf'[p] \in DOMAIN log' /\ log'[seqOf'[p]] = UserEntry(MessageOf[p])
    BY <2>1 DEF HolderInv
  <2> QED BY <2>1, <2>2, <2>3, <2>4 DEF HolderInv
<1> QED BY <1>1, <1>2

(* A message is accepted only if no entry of it stands.                    *)
LEMMA AcceptKeeps ==
  ASSUME HolderInv, NEW p \in Post, Accept(p)
  PROVE  HolderInv'
<1>m. MessageOf[p] \in Message
  BY PostAssumption
<1>1. CASE HasEntry(MessageOf[p])
  <2>1. /\ UNCHANGED <<log, seqOf, retracted, line>>
        /\ post' = [post EXCEPT ![p] = "repeated"] /\ post[p] = "new"
    BY <1>1 DEF Accept, logVars, turnVars
  <2>2. /\ Holding' = Holding
        /\ post' \in [Post -> Stages]
        /\ line' \subseteq {q \in Post : post'[q] = "waiting"}
        /\ \A q \in Post : post'[q] = "repeated" => post[q] = "repeated" \/ q = p
    BY <2>1 DEF HolderInv, Holding, Stages
  <2> QED BY <1>1, <2>1, <2>2 DEF HolderInv, Bounded, HasEntry
<1>2. CASE ~HasEntry(MessageOf[p])
  <2>1. /\ UNCHANGED <<retracted, line>> /\ post[p] = "new"
        /\ post' = [post EXCEPT ![p] = "logged"]
        /\ seqOf' = [seqOf EXCEPT ![p] = LastSeq + 1]
        /\ log' = Written(UserEntry(MessageOf[p]))
    BY <1>2 DEF Accept, turnVars, Append1
  <2>2. /\ Bounded'
        /\ DOMAIN log' = DOMAIN log \cup {LastSeq + 1} /\ LastSeq + 1 \notin DOMAIN log
        /\ log'[LastSeq + 1] = UserEntry(MessageOf[p])
        /\ \A s \in DOMAIN log : log'[s] = log[s]
        /\ LastSeq + 1 \in Nat
    BY <2>1, AppendedToLog DEF HolderInv
  <2>3. /\ Holding' = Holding \cup {p} /\ p \notin Holding
        /\ post' \in [Post -> Stages]
        /\ seqOf' \in [Post -> Nat \cup {-1}]
        /\ line' \subseteq {q \in Post : post'[q] = "waiting"}
        /\ \A q \in Post : post'[q] = "repeated" => post[q] = "repeated"
        /\ seqOf'[p] = LastSeq + 1
        /\ \A q \in Holding : seqOf'[q] = seqOf[q]
    BY <2>1, <2>2 DEF HolderInv, Holding, Stages
  <2>4. \A q \in Holding : MessageOf[q] # MessageOf[p]
    BY <1>2 DEF HolderInv, HasEntry
  <2>5. \A m : HasEntry(m) => HasEntry(m)'
    BY <2>2 DEF HasEntry
  <2>6. \A q \in Holding' : seqOf'[q] \in DOMAIN log' /\ log'[seqOf'[q]] = UserEntry(MessageOf[q])
    BY <2>2, <2>3 DEF HolderInv
  <2>7. \A m \in Message : \A s \in DOMAIN log' :
          log'[s] = UserEntry(m) => \E q \in Holding' : seqOf'[q] = s
    BY <2>2, <2>3 DEF HolderInv
  <2>8. \A q, r \in Holding' : MessageOf[q] = MessageOf[r] => q = r
    BY <2>3, <2>4 DEF HolderInv
  <2>9. \A q \in Post : post'[q] = "repeated" =>
          HasEntry(MessageOf[q])' \/ MessageOf[q] \in retracted'
    BY <2>1, <2>3, <2>5 DEF HolderInv
  <2> QED BY <2>2, <2>3, <2>6, <2>7, <2>8, <2>9 DEF HolderInv
<1> QED BY <1>1, <1>2

(* Who withdraws its entry takes nobody else's: holders have their own.    *)
LEMMA WithdrawKeeps ==
  ASSUME HolderInv, NEW p \in Post, Withdraw(p)
  PROVE  HolderInv'
<1>1. /\ UNCHANGED <<seqOf, line>> /\ post[p] = "refused"
      /\ post' = [post EXCEPT ![p] = "withdrawn"]
      /\ log' = [s \in DOMAIN log \ {seqOf[p]} |-> log[s]]
      /\ retracted' = retracted \cup {MessageOf[p]}
  BY DEF Withdraw, turnVars
<1>2. /\ DOMAIN log' = DOMAIN log \ {seqOf[p]}
      /\ \A s \in DOMAIN log' : log'[s] = log[s]
  BY <1>1
<1>3. /\ Holding' = Holding \ {p} /\ p \in Holding
      /\ post' \in [Post -> Stages]
      /\ line' \subseteq {q \in Post : post'[q] = "waiting"}
      /\ \A q \in Post : post'[q] = "repeated" => post[q] = "repeated"
  BY <1>1 DEF HolderInv, Holding, Stages
<1>4. \A q \in Holding' : seqOf[q] # seqOf[p]
  BY <1>3, Entries DEF HolderInv
<1>5. Bounded'
  BY <1>2 DEF HolderInv, Bounded
<1>6. \A q \in Holding' : seqOf'[q] \in DOMAIN log' /\ log'[seqOf'[q]] = UserEntry(MessageOf[q])
  BY <1>1, <1>2, <1>3, <1>4 DEF HolderInv
<1>7. \A m \in Message : \A s \in DOMAIN log' :
        log'[s] = UserEntry(m) => \E q \in Holding' : seqOf'[q] = s
  BY <1>1, <1>2, <1>3 DEF HolderInv
<1>8. \A m : HasEntry(m) => HasEntry(m)' \/ m = MessageOf[p]
  BY <1>2, <1>3, Entries DEF HasEntry, HolderInv
<1>9. \A q \in Post : post'[q] = "repeated" =>
        HasEntry(MessageOf[q])' \/ MessageOf[q] \in retracted'
  BY <1>1, <1>3, <1>8 DEF HolderInv
<1>10. /\ seqOf' \in [Post -> Nat \cup {-1}]
       /\ \A q, r \in Holding' : MessageOf[q] = MessageOf[r] => q = r
  BY <1>1, <1>3 DEF HolderInv
<1> QED BY <1>3, <1>5, <1>6, <1>7, <1>9, <1>10 DEF HolderInv

(* The end of the actor takes the queries out of the line and their entries*)
(* nowhere: of those in line, at most one is dropped.                      *)
LEMMA ActorEnds ==
  ASSUME HolderInv, ActorFails \/ ActorCancelled
  PROVE  /\ UNCHANGED <<logVars, inbox, work, db>> /\ up /\ turn' = NoPost /\ line' = {}
         /\ ending' \in {"failure", "cancelled"}
         /\ post' \in [Post -> Stages]
         /\ \A p \in Post : p \notin line => post'[p] = post[p]
         /\ \A p \in line : post[p] = "waiting" /\ post'[p] \in {"lost", "refused", "cut"}
         /\ \A p, q \in line : post'[p] = "lost" /\ post'[q] = "lost" => p = q
         /\ ending' = "failure" => \A p \in line : post'[p] # "cut"
<1>1. ASSUME NEW gone, NEW aside, NEW rest \in {"refused", "cut"}, Leave(gone, aside, rest)
      PROVE  /\ turn' = NoPost /\ line' = {}
             /\ post' \in [Post -> Stages]
             /\ \A p \in Post : p \notin line => post'[p] = post[p]
             /\ \A p \in line : /\ post[p] = "waiting"
                                /\ post'[p] \in {"lost", "refused", rest}
             /\ \A p, q \in line : post'[p] = "lost" /\ post'[q] = "lost" => p = q
  <2>1. /\ gone \subseteq line /\ aside \subseteq line /\ \A p, q \in gone : p = q
        /\ post' = [p \in Post |-> IF p \in gone THEN "lost"
                                  ELSE IF p \in aside THEN "refused"
                                  ELSE IF p \in line THEN rest ELSE post[p]]
        /\ turn' = NoPost /\ line' = {}
    BY <1>1 DEF Leave
  <2>2. \A p \in line : p \in Post /\ post[p] = "waiting"
    BY DEF HolderInv
  <2>3. \A p \in Post : post'[p] = IF p \in gone THEN "lost"
                                  ELSE IF p \in aside THEN "refused"
                                  ELSE IF p \in line THEN rest ELSE post[p]
    BY <2>1
  <2>4. post' \in [Post -> Stages]
    BY <2>1 DEF HolderInv, Stages
  <2>5. \A p \in line : post'[p] = "lost" => p \in gone
    BY <2>2, <2>3
  <2> QED BY <2>1, <2>2, <2>3, <2>4, <2>5
<1>2. CASE ActorFails
  <2>1. /\ UNCHANGED <<logVars, inbox, work, db>> /\ up /\ ending' = "failure"
        /\ \E gone : Leave(gone, {}, "refused")
    BY <1>2 DEF ActorFails
  <2> QED BY <1>1, <2>1
<1>3. CASE ActorCancelled
  <2>1. /\ UNCHANGED <<logVars, inbox, work, db>> /\ up /\ ending' = "cancelled"
        /\ \E gone, aside : Leave(gone, aside, "cut")
    BY <1>3 DEF ActorCancelled
  <2> QED BY <1>1, <2>1
<1> QED BY <1>2, <1>3

(* No other step touches a user's entry or who holds one.                  *)
LEMMA TimelineStep ==
  ASSUME HolderInv, EndInv, [TimelineNext]_vars
  PROVE  HolderInv'
<1>q. /\ \A m : AgentEntry(Head(inbox).of) # UserEntry(m) 
      /\ \A m : Interrupt # UserEntry(m)
  BY Entries
<1>k. ASSUME UNCHANGED <<seqOf, retracted, post, line>>,
             log' = log \/ \E e : log' = Written(e) /\ \A m : e # UserEntry(m)
      PROVE  HolderInv'
  BY <1>k, HoldersFrame DEF HolderInv, Holding
<1>1. ASSUME NEW p \in Post, Accept(p) \/ Withdraw(p) PROVE HolderInv'
  BY <1>1, AcceptKeeps, WithdrawKeeps
<1>2. ASSUME NEW p \in Post, SendQuery(p) \/ Escape(p) \/ Fail(p) \/ TurnStarts(p)
      PROVE  HolderInv'
  <2>0. ending \in {"none", "failure", "cancelled"}
    BY DEF EndInv
  <2>1. /\ UNCHANGED <<log, seqOf, retracted>>
        /\ \/ /\ post[p] = "logged"
              /\ \/ post' = [post EXCEPT ![p] = "waiting"] /\ line' = line \cup {p}
                 \/ post' = [post EXCEPT ![p] = "refused"] /\ line' = line
                 \/ post' = [post EXCEPT ![p] = "escaped"] /\ line' = line
           \/ /\ post[p] = "cut" /\ post' = [post EXCEPT ![p] = "escaped"] /\ line' = line
           \/ /\ post[p] = "withdrawn" /\ post' = [post EXCEPT ![p] = "failed"] /\ line' = line
           \/ /\ p \in line /\ line' = line \ {p}
              /\ post' = [post EXCEPT ![p] = "accepted"]
    BY <1>2, <2>0 DEF SendQuery, Escape, Fail, TurnStarts, logVars, turnVars, up
  <2>2. /\ post' \in [Post -> Stages]
        /\ line' \subseteq {q \in Post : post'[q] = "waiting"}
        /\ Holding' = Holding
        /\ \A q \in Post : post'[q] = "repeated" => post[q] = "repeated"
    BY <2>1 DEF HolderInv, Holding, Stages
  <2> QED BY <2>1, <2>2, HoldersFrame
<1>3. CASE ActorFails \/ ActorCancelled
  <2>1. /\ UNCHANGED <<log, seqOf, retracted>> /\ line' = {}
        /\ post' \in [Post -> Stages]
        /\ \A q \in Post : q \notin line => post'[q] = post[q]
        /\ \A q \in line : post[q] = "waiting" /\ post'[q] \in {"lost", "refused", "cut"}
    BY <1>3, ActorEnds DEF logVars
  <2>2. /\ Holding' = Holding
        /\ \A q \in Post : post'[q] = "repeated" => post[q] = "repeated"
    BY <2>1 DEF HolderInv, Holding
  <2> QED BY <2>1, <2>2, HoldersFrame
<1>4. CASE LogMessage \/ LogResult
  BY <1>k, <1>q, <1>4 DEF LogMessage, LogResult, Append1, turnVars
<1>5. CASE \/ InterruptSession \/ TurnSpeaks \/ ResultComes \/ PersistError
           \/ PersistClosed \/ AnnounceEntry \/ CompleteTurn \/ PersistTurn \/ UNCHANGED vars
  BY <1>k, <1>5 DEF InterruptSession, TurnSpeaks, ResultComes, PersistError, PersistClosed,
                    AnnounceEntry, CompleteTurn, PersistTurn, vars, logVars, turnVars
<1>6. CASE ReaderStep
  BY <1>k, <1>6 DEF ReaderStep, Subscribe, ListEntries, GoLive, HearEntry, HearResult,
                    HearComplete, HearStatus, Reconnect, Heartbeat, logVars, turnVars
<1> QED BY <1>1, <1>2, <1>3, <1>4, <1>5, <1>6
        DEF TimelineNext, PostStep, ActorStep, InboxStep

(* An actor ends once.                                                     *)
LEMMA EndStep ==
  ASSUME HolderInv, EndInv, [TimelineNext]_vars
  PROVE  EndInv'
<1>h. DOMAIN post = Post
  BY DEF HolderInv
<1>k. ASSUME UNCHANGED ending,
             \A p \in Post : \/ post'[p] = post[p]
                             \/ post'[p] \notin {"lost", "cut", "escaped"}
                             \/ post'[p] = "escaped" /\ ending = "cancelled"
      PROVE  EndInv'
  BY <1>k DEF EndInv, Dropped, CutOff
<1>1. ASSUME NEW p \in Post, \/ Accept(p) \/ SendQuery(p) \/ Escape(p) \/ Withdraw(p)
                             \/ Fail(p) \/ TurnStarts(p)
      PROVE  EndInv'
  <2>1. UNCHANGED ending /\ \A q \in Post : q # p => post'[q] = post[q]
    BY <1>h, <1>1 DEF Accept, SendQuery, Escape, Withdraw, Fail, TurnStarts, turnVars
  <2>2. \/ post'[p] \notin {"lost", "cut", "escaped"}
        \/ post'[p] = "escaped" /\ ending = "cancelled"
    <3>1. CASE SendQuery(p)
      BY <1>h, <3>1 DEF SendQuery, EndInv
    <3>2. CASE Escape(p)
      BY <1>h, <3>2 DEF Escape, EndInv, CutOff
    <3>3. CASE Accept(p) \/ Withdraw(p) \/ Fail(p) \/ TurnStarts(p)
      BY <1>h, <3>3 DEF Accept, Withdraw, Fail, TurnStarts
    <3> QED BY <1>1, <3>1, <3>2, <3>3
  <2> QED BY <1>k, <2>1, <2>2
<1>2. CASE ActorFails \/ ActorCancelled
  <2>1. /\ ending = "none" /\ ending' \in {"failure", "cancelled"}
        /\ \A p \in Post : p \notin line => post'[p] = post[p]
        /\ \A p \in line : post'[p] \in {"lost", "refused", "cut"}
        /\ \A p, q \in line : post'[p] = "lost" /\ post'[q] = "lost" => p = q
        /\ ending' = "failure" => \A p \in line : post'[p] # "cut"
    BY <1>2, ActorEnds DEF up
  <2>2. \A p \in Post : post[p] \notin {"lost", "cut", "escaped"}
    BY <2>1 DEF EndInv, Dropped, CutOff
  <2>3. \A p \in Post : post'[p] \in {"lost", "cut", "escaped"} => p \in line
    BY <2>1, <2>2
  <2>4. \A p, q \in Dropped' : p = q
    BY <2>1, <2>3 DEF Dropped
  <2>5. CutOff' # {} => ending' = "cancelled"
    BY <2>1, <2>3 DEF CutOff
  <2> QED BY <2>1, <2>4, <2>5 DEF EndInv
<1>3. CASE \/ InterruptSession \/ TurnSpeaks \/ ResultComes \/ PersistError
           \/ PersistClosed \/ InboxStep \/ ReaderStep \/ UNCHANGED vars
  <2>1. UNCHANGED <<post, ending>>
    BY <1>3 DEF InterruptSession, TurnSpeaks, ResultComes, PersistError, PersistClosed,
                InboxStep, LogMessage, AnnounceEntry, LogResult, CompleteTurn, PersistTurn,
                ReaderStep, Subscribe, ListEntries, GoLive, HearEntry, HearResult,
                HearComplete, HearStatus, Reconnect, Heartbeat, vars, turnVars
  <2> QED BY <1>k, <2>1
<1> QED BY <1>1, <1>2, <1>3 DEF TimelineNext, PostStep, ActorStep

(* Who has written the users' entries, and what the end of the actor has   *)
(* done to the posts, in every state.                                      *)
LEMMA HoldersAlways == TimelineSpec => [](HolderInv /\ EndInv)
<1>1. TimelineInit => HolderInv /\ EndInv
  BY DEF TimelineInit, HolderInv, Bounded, Holding, Stages, EndInv, Dropped, CutOff
<1>2. HolderInv /\ EndInv /\ [TimelineNext]_vars => (HolderInv /\ EndInv)'
  BY TimelineStep, EndStep
<1> QED BY <1>1, <1>2, PTL DEF TimelineSpec

(* However often a message is posted, the SDK is given it once; whoever is *)
(* told that it was accepted finds it in the log; and an entry has a query *)
(* on its way or delivered behind it, or, once the actor has ended, the one*)
(* it dropped or one it cut off: for every set of posts and messages, every*)
(* order of the requests, and a task that fails or is cancelled anywhere.  *)
THEOREM MessagesAreTakenOnce == TimelineSpec => []AcceptedOnce
<1>1. ASSUME HolderInv, EndInv PROVE AcceptedOnce
  <2>1. \A p, q \in Given : MessageOf[p] = MessageOf[q] => p = q
    BY <1>1 DEF HolderInv, Given, Holding
  <2>2. \A p \in Post : post[p] = "accepted" => /\ seqOf[p] \in DOMAIN log
                                                /\ log[seqOf[p]] = UserEntry(MessageOf[p])
    BY <1>1 DEF HolderInv, Holding
  <2>3. ASSUME NEW m \in Message, HasEntry(m)
        PROVE  Served(m) \/ \E p \in Dropped \cup CutOff : MessageOf[p] = m
    <3>1. PICK p \in Holding : MessageOf[p] = m
      <4>1. PICK s \in DOMAIN log : log[s] = UserEntry(m)
        BY <2>3 DEF HasEntry
      <4>2. PICK p \in Holding : seqOf[p] = s
        BY <1>1, <4>1 DEF HolderInv
      <4>3. log[s] = UserEntry(MessageOf[p])
        BY <1>1, <4>2 DEF HolderInv
      <4> QED BY <4>1, <4>2, <4>3, Entries
    <3> QED BY <3>1 DEF Holding, Served, Dropped, CutOff
  <2> QED BY <1>1, <2>1, <2>2, <2>3 DEF HolderInv, EndInv, AcceptedOnce
<1> QED BY <1>1, HoldersAlways, PTL

(***************************************************************************)
(* The status of the session and of its row                                *)
(***************************************************************************)

(* What the inbox holds.                                                   *)
Letters == [kind : {"agent", "result"}, of : Post,
            as : {"running", "completed", "interrupted"}]
Results(q) == {e \in Range(q) : e.kind = "result"}

(* Whatever says running has somebody who will say otherwise: the post that*)
(* is still on its way, its turn, the result in the inbox or in work, and, *)
(* for the row, the end of the actor that is being written down. Only a    *)
(* post that escaped with its row running leaves that to nobody.           *)
SettleInv ==
  /\ inbox \in Seq(Letters)
  /\ turn \in Post \cup {NoPost}
  /\ \A e \in Results(inbox) : e.as # "running"
  /\ work.step \in {"complete", "persist"} => work.as # "running"
  /\ status = "running" =>
       \/ \E p \in Post : post[p] \in {"waiting", "refused"}
       \/ turn # NoPost \/ Results(inbox) # {} \/ work.step = "complete"
  /\ db = "running" =>
       \/ \E p \in Post : post[p] \in {"logged", "waiting", "refused", "withdrawn",
                                      "cut", "escaped"}
       \/ turn # NoPost \/ Results(inbox) # {} \/ work.step \in {"complete", "persist"}
       \/ owed = "error"
       \/ owed = "closing" /\ status \in {"interrupted", "error", "running"}

(* A letter more, a letter less.                                           *)
LEMMA LetterAppended ==
  ASSUME NEW q \in Seq(Letters), NEW e \in Letters
  PROVE  /\ Append(q, e) \in Seq(Letters)
         /\ Results(Append(q, e)) = Results(q) \cup (IF e.kind = "result" THEN {e} ELSE {})
<1>1. Append(q, e) \in Seq(Letters) /\ Range(Append(q, e)) = Range(q) \cup {e}
  BY Appended
<1> QED BY <1>1 DEF Results

LEMMA LetterTaken ==
  ASSUME NEW q \in Seq(Letters), q # <<>>
  PROVE  /\ Tail(q) \in Seq(Letters) /\ Head(q) \in Letters
         /\ Results(q) = Results(Tail(q)) \cup (IF Head(q).kind = "result" THEN {Head(q)} ELSE {})
<1>1. /\ Head(q) \in Letters /\ Tail(q) \in Seq(Letters)
      /\ Range(q) = {Head(q)} \cup Range(Tail(q))
  BY HeadAndTail
<1> QED BY <1>1 DEF Results

(* Every step hands the duty on or does it.                                *)
LEMMA SettleStep ==
  ASSUME SettleInv, HolderInv, EndInv, [TimelineNext]_vars
  PROVE  SettleInv'
<1>h. /\ line \subseteq {p \in Post : post[p] = "waiting"} /\ DOMAIN post = Post
      /\ NoPost \notin Post
  BY PostAssumption DEF HolderInv
<1>1. ASSUME NEW p \in Post, Accept(p) \/ SendQuery(p) \/ Escape(p) PROVE SettleInv'
  <2>1. /\ UNCHANGED <<turn, inbox, work, owed>>
        /\ \A q \in Post : q # p => post'[q] = post[q]
    BY <1>h, <1>1 DEF Accept, SendQuery, Escape, turnVars
  <2>2. CASE Accept(p)
    <3>1. status' = status /\ post[p] = "new"
          /\ \/ post'[p] = "logged" /\ db' = "running"
             \/ post'[p] = "repeated" /\ db' = db
      BY <1>h, <2>2 DEF Accept
    <3> QED BY <2>1, <3>1 DEF SettleInv
  <2>3. CASE SendQuery(p)
    <3>1. /\ db' = db /\ post[p] = "logged"
          /\ \/ post'[p] \in {"waiting", "refused"} /\ status' = "running"
             \/ post'[p] = "escaped" /\ status' = "error"
      BY <1>h, <2>3 DEF SendQuery, EndInv
    <3> QED BY <2>1, <3>1 DEF SettleInv
  <2>4. CASE Escape(p)
    <3>1. db' = db /\ post[p] = "cut" /\ post'[p] = "escaped" /\ status' = "error"
      BY <1>h, <2>4 DEF Escape
    <3> QED BY <2>1, <3>1 DEF SettleInv
  <2> QED BY <1>1, <2>2, <2>3, <2>4
<1>2. ASSUME NEW p \in Post, Withdraw(p) \/ Fail(p) PROVE SettleInv'
  <2>1. /\ UNCHANGED <<turn, inbox, work, owed>>
        /\ \A q \in Post : q # p => post'[q] = post[q]
    BY <1>h, <1>2 DEF Withdraw, Fail, turnVars
  <2>2. CASE Withdraw(p)
    <3>1. status' = "error" /\ db' = db /\ post'[p] = "withdrawn"
      BY <1>h, <2>2 DEF Withdraw
    <3> QED BY <2>1, <3>1 DEF SettleInv
  <2>3. CASE Fail(p)
    <3>1. status' = status /\ db' = "error" /\ post[p] = "withdrawn"
      BY <1>h, <2>3 DEF Fail
    <3> QED BY <2>1, <3>1 DEF SettleInv
  <2> QED BY <1>2, <2>2, <2>3
<1>3. ASSUME NEW p \in Post, TurnStarts(p) PROVE SettleInv'
  BY <1>h, <1>3 DEF TurnStarts, statusVars, SettleInv
<1>4. CASE ActorFails \/ ActorCancelled
  <2>1. UNCHANGED <<inbox, work>> /\ turn' = NoPost
    BY <1>4, ActorEnds
  <2>2. \/ status' = "error" /\ owed' = "error"
        \/ status' = "interrupted" /\ owed' = "closing"
    BY <1>4 DEF ActorFails, ActorCancelled
  <2> QED BY <2>1, <2>2 DEF SettleInv
<1>5. CASE TurnSpeaks \/ ResultComes
  <2>1. /\ UNCHANGED <<post, work, status, db, owed>> /\ turn # NoPost
        /\ inbox \in Seq(Letters) /\ turn \in Post
    BY <1>5 DEF TurnSpeaks, ResultComes, statusVars, SettleInv
  <2>2. CASE TurnSpeaks
    <3> DEFINE f == [kind |-> "agent", of |-> turn, as |-> "running"]
    <3>1. inbox' = Append(inbox, f) /\ turn' = turn
      BY <2>2 DEF TurnSpeaks
    <3>2. f \in Letters /\ f.kind # "result"
      BY <2>1 DEF Letters
    <3>3. inbox' \in Seq(Letters) /\ Results(inbox') = Results(inbox)
      BY <2>1, <3>1, <3>2, LetterAppended
    <3> QED BY <2>1, <3>1, <3>3 DEF SettleInv
  <2>3. CASE ResultComes
    <3> DEFINE f == [kind |-> "result", of |-> turn,
                     as |-> IF stop THEN "interrupted" ELSE "completed"]
    <3>1. inbox' = Append(inbox, f) /\ turn' = NoPost
      BY <2>3 DEF ResultComes
    <3>2. f \in Letters /\ f.kind = "result" /\ f.as # "running"
      BY <2>1 DEF Letters
    <3>3. inbox' \in Seq(Letters) /\ Results(inbox') = Results(inbox) \cup {f}
      BY <2>1, <3>1, <3>2, LetterAppended
    <3> QED BY <2>1, <3>1, <3>2, <3>3 DEF SettleInv
  <2> QED BY <1>5, <2>2, <2>3
<1>6. CASE LogMessage \/ LogResult
  <2>1. /\ UNCHANGED <<post, turn, status, db, owed>> /\ work = Idle
        /\ inbox # <<>> /\ inbox' = Tail(inbox) /\ inbox \in Seq(Letters)
    BY <1>6 DEF LogMessage, LogResult, turnVars, statusVars, SettleInv
  <2>2. /\ inbox' \in Seq(Letters)
        /\ Results(inbox) = Results(inbox')
              \cup (IF Head(inbox).kind = "result" THEN {Head(inbox)} ELSE {})
    BY <2>1, LetterTaken
  <2>3. CASE LogMessage
    <3>1. Head(inbox).kind = "agent" /\ work'.step = "announce"
      BY <2>3 DEF LogMessage, Idle
    <3> QED BY <2>1, <2>2, <3>1 DEF SettleInv, Idle
  <2>4. CASE LogResult
    <3>1. /\ Head(inbox).kind = "result" /\ work'.step = "complete"
          /\ work'.as = Head(inbox).as
      BY <2>4 DEF LogResult
    <3> QED BY <2>1, <2>2, <3>1 DEF SettleInv
  <2> QED BY <1>6, <2>3, <2>4
<1>7. CASE AnnounceEntry \/ CompleteTurn \/ PersistTurn
  <2>1. UNCHANGED <<post, turn, inbox, owed>>
    BY <1>7 DEF AnnounceEntry, CompleteTurn, PersistTurn, turnVars, statusVars
  <2>2. CASE AnnounceEntry
    BY <2>1, <2>2 DEF AnnounceEntry, statusVars, Idle, SettleInv
  <2>3. CASE CompleteTurn
    <3>1. /\ work.step = "complete" /\ work'.step = "persist" /\ work'.as = work.as
          /\ status' = work.as /\ db' = db
      BY <2>3 DEF CompleteTurn
    <3> QED BY <2>1, <3>1 DEF SettleInv
  <2>4. CASE PersistTurn
    BY <2>1, <2>4 DEF PersistTurn, Idle, SettleInv
  <2> QED BY <1>7, <2>2, <2>3, <2>4
<1>8. CASE PersistError
  BY <1>8 DEF PersistError, turnVars, SettleInv
<1>10. CASE PersistClosed
  <2>1. /\ UNCHANGED <<post, turn, inbox, work>> /\ owed = "closing"
        /\ inbox = <<>> /\ work.step = "none"
        /\ \/ status' \in {"interrupted", "error"} /\ db' = status'
           \/ status' = status /\ db' = db /\ status \notin {"running", "interrupted", "error"}
    BY <1>10 DEF PersistClosed, turnVars, Idle
  <2>2. Results(inbox) = {}
    BY <2>1 DEF Results, Range
  <2> QED BY <2>1, <2>2 DEF SettleInv
<1>9. CASE InterruptSession \/ ReaderStep \/ UNCHANGED vars
  <2>1. UNCHANGED <<post, turn, inbox, work, status, db, owed>>
    BY <1>9 DEF InterruptSession, ReaderStep, Subscribe, ListEntries, GoLive, HearEntry,
                HearResult, HearComplete, HearStatus, Reconnect, Heartbeat,
                vars, turnVars, statusVars
  <2> QED BY <2>1 DEF SettleInv
<1> QED BY <1>1, <1>2, <1>3, <1>4, <1>5, <1>6, <1>7, <1>8, <1>9, <1>10
        DEF TimelineNext, PostStep, ActorStep, InboxStep

(* The duty is somebody's in every state.                                  *)
LEMMA SettledAlways == TimelineSpec => []SettleInv
<1>1. TimelineInit => SettleInv
  <2>1. <<>> \in Seq(Letters) /\ Results(<<>>) = {}
    BY DEF Results, Range
  <2> QED BY <2>1 DEF TimelineInit, SettleInv, Idle
<1>2. SettleInv /\ HolderInv /\ EndInv /\ [TimelineNext]_vars => SettleInv'
  BY SettleStep
<1> QED BY <1>1, <1>2, HoldersAlways, PTL DEF TimelineSpec

(* When everything has come to rest, neither the session nor its row says  *)
(* running, however requests, the end of the actor and the inbox task's    *)
(* writes of the status and of the row overtake one another; but the row   *)
(* may, if a post's CancelledError escaped from send_message.              *)
THEOREM StatusSettles == TimelineSpec => []SettledStatus
<1>1. SettleInv => SettledStatus
  <2>1. Results(<<>>) = {}
    BY DEF Results, Range
  <2> QED BY <2>1 DEF SettleInv, SettledStatus, AtRest, Idle
<1> QED BY <1>1, SettledAlways, PTL

(***************************************************************************)
(* Turns that are over                                                     *)
(***************************************************************************)

(* Nothing more will come of this post's turn than what is logged.         *)
Over(p) ==
  p \in Post /\ post[p] = "accepted" /\ turn # p /\ \A i \in DOMAIN inbox : inbox[i].of # p

(* A turn's result is its last word.                                       *)
LetterInv ==
  /\ turn # NoPost => post[turn] = "accepted"
  /\ \A i \in DOMAIN inbox : post[inbox[i].of] = "accepted"
  /\ \A i, j \in DOMAIN inbox : inbox[i].kind = "result" /\ i < j => inbox[j].of # inbox[i].of
  /\ \A i \in DOMAIN inbox : inbox[i].kind = "result" => turn # inbox[i].of
  /\ work.step = "complete" => Over(work.of)

(* What a step does to posts, turn and inbox.                              *)
LEMMA TurnMoves ==
  ASSUME SettleInv, HolderInv, [TimelineNext]_vars
  PROVE  /\ \A p \in Post : post[p] = "accepted" => post'[p] = "accepted"
         /\ \/ turn' \in {turn, NoPost}
            \/ turn' \in Post /\ post[turn'] # "accepted" /\ post'[turn'] = "accepted"
         /\ \/ UNCHANGED inbox
            \/ inbox # <<>> /\ inbox' = Tail(inbox)
            \/ /\ turn \in Post
               /\ \E e \in Letters : /\ inbox' = Append(inbox, e) /\ e.of = turn
                                     /\ e.kind = "result" => turn' = NoPost
               /\ turn' \in {turn, NoPost}
         /\ \/ UNCHANGED work
            \/ work'.step # "complete"
            \/ /\ work'.step = "complete" /\ inbox # <<>> /\ Head(inbox).kind = "result"
               /\ inbox' = Tail(inbox) /\ work'.of = Head(inbox).of
               /\ UNCHANGED <<post, turn>>
<1>h. /\ line \subseteq {p \in Post : post[p] = "waiting"} /\ DOMAIN post = Post
      /\ NoPost \notin Post
  BY PostAssumption DEF HolderInv
<1>1. ASSUME NEW p \in Post, \/ Accept(p) \/ SendQuery(p) \/ Escape(p)
                             \/ Withdraw(p) \/ Fail(p)
      PROVE  /\ UNCHANGED <<turn, inbox, work>>
             /\ \A q \in Post : post[q] = "accepted" => post'[q] = "accepted"
  BY <1>h, <1>1 DEF Accept, SendQuery, Escape, Withdraw, Fail, turnVars
<1>2. ASSUME NEW p \in Post, TurnStarts(p)
      PROVE  /\ UNCHANGED <<inbox, work>>
             /\ turn' = p /\ post[p] # "accepted" /\ post'[p] = "accepted"
             /\ \A q \in Post : post[q] = "accepted" => post'[q] = "accepted"
  BY <1>h, <1>2 DEF TurnStarts
<1>3. ASSUME ActorFails \/ ActorCancelled
      PROVE  /\ UNCHANGED <<inbox, work>> /\ turn' = NoPost
             /\ \A q \in Post : post[q] = "accepted" => post'[q] = "accepted"
  BY <1>h, <1>3, ActorEnds
<1>4. CASE TurnSpeaks \/ ResultComes
  <2> DEFINE f == [kind |-> "agent", of |-> turn, as |-> "running"]
             g == [kind |-> "result", of |-> turn,
                   as |-> IF stop THEN "interrupted" ELSE "completed"]
  <2>1. UNCHANGED <<post, work>> /\ turn \in Post
    BY <1>4 DEF TurnSpeaks, ResultComes, SettleInv
  <2>2. f \in Letters /\ g \in Letters /\ f.kind # "result"
    BY <2>1 DEF Letters
  <2>3. \/ inbox' = Append(inbox, f) /\ turn' = turn
        \/ inbox' = Append(inbox, g) /\ turn' = NoPost
    BY <1>4 DEF TurnSpeaks, ResultComes
  <2> QED BY <2>1, <2>2, <2>3
<1>5. CASE LogMessage
  BY <1>5 DEF LogMessage, turnVars, Idle
<1>6. CASE LogResult
  BY <1>6 DEF LogResult, turnVars
<1>7. CASE AnnounceEntry \/ CompleteTurn \/ PersistTurn
  <2>1. UNCHANGED <<post, turn, inbox>>
    BY <1>7 DEF AnnounceEntry, CompleteTurn, PersistTurn, turnVars
  <2>2. CompleteTurn => work'.step = "persist"
    BY DEF CompleteTurn
  <2>3. AnnounceEntry \/ PersistTurn => work'.step = "none"
    BY DEF AnnounceEntry, PersistTurn, Idle
  <2> QED BY <1>7, <2>1, <2>2, <2>3
<1>8. CASE \/ PersistError \/ PersistClosed \/ InterruptSession \/ ReaderStep
           \/ UNCHANGED vars
  BY <1>8 DEF PersistError, PersistClosed, InterruptSession, ReaderStep, Subscribe, ListEntries, GoLive,
              HearEntry, HearResult, HearComplete, HearStatus, Reconnect, Heartbeat,
              vars, turnVars
<1> QED BY <1>1, <1>2, <1>3, <1>4, <1>5, <1>6, <1>7, <1>8
        DEF TimelineNext, PostStep, ActorStep, InboxStep

(* A turn that is over stays so.                                           *)
LEMMA OverStays ==
  ASSUME SettleInv, HolderInv, [TimelineNext]_vars, NEW p \in Post, Over(p)
  PROVE  Over(p)'
<1>1. post'[p] = "accepted" /\ turn' # p
  BY TurnMoves, PostAssumption DEF Over
<1>2. \A i \in DOMAIN inbox' : inbox'[i].of # p
  <2>q. inbox \in Seq(Letters)
    BY DEF SettleInv
  <2>1. CASE inbox # <<>> /\ inbox' = Tail(inbox)
    BY <2>q, <2>1, TailAt DEF Over
  <2>2. ASSUME NEW e \in Letters, inbox' = Append(inbox, e), e.of = turn
        PROVE  \A i \in DOMAIN inbox' : inbox'[i].of # p
    <3>1. \A i \in DOMAIN inbox' : i \in DOMAIN inbox \/ i = Len(inbox) + 1
      BY <2>q, <2>2, AppendAt
    <3>2. /\ \A i \in DOMAIN inbox : inbox'[i] = inbox[i]
          /\ inbox'[Len(inbox) + 1] = e
      BY <2>q, <2>2, AppendAt
    <3> QED BY <2>2, <3>1, <3>2 DEF Over
  <2> QED BY <2>1, <2>2, TurnMoves DEF Over
<1> QED BY <1>1, <1>2 DEF Over

(* Nothing of a turn comes behind its result.                              *)
LEMMA LetterStep ==
  ASSUME SettleInv, HolderInv, LetterInv, [TimelineNext]_vars
  PROVE  LetterInv'
<1>q. inbox \in Seq(Letters) /\ turn \in Post \cup {NoPost} /\ NoPost \notin Post
  BY PostAssumption DEF SettleInv
<1>p. \A i \in DOMAIN inbox : inbox[i].of \in Post
  <2>1. \A i \in DOMAIN inbox : inbox[i] \in Letters
    BY <1>q
  <2> QED BY <2>1 DEF Letters
<1>1. turn' # NoPost => post'[turn'] = "accepted"
  BY <1>q, TurnMoves DEF LetterInv
<1>2. CASE UNCHANGED inbox
  <2>1. \A i \in DOMAIN inbox : post'[inbox[i].of] = "accepted"
    BY <1>p, TurnMoves DEF LetterInv
  <2>2. \A i \in DOMAIN inbox : inbox[i].kind = "result" => turn' # inbox[i].of
    BY <1>q, <1>p, TurnMoves DEF LetterInv
  <2>3. work'.step = "complete" => Over(work.of)'
    <3>1. CASE UNCHANGED work
      BY <3>1, OverStays DEF LetterInv, Over
    <3>2. CASE inbox # <<>> /\ inbox' = Tail(inbox)
      <4>1. Len(inbox') # Len(inbox)
        BY <1>q, <3>2
      <4> QED BY <1>2, <4>1
    <3> QED BY <3>1, <3>2, TurnMoves
  <2> QED BY <1>1, <1>2, <2>1, <2>2, <2>3 DEF LetterInv
<1>3. CASE inbox # <<>> /\ inbox' = Tail(inbox)
  <2>i. /\ \A i \in DOMAIN inbox' : i + 1 \in DOMAIN inbox /\ inbox'[i] = inbox[i + 1]
        /\ Head(inbox) = inbox[1] /\ 1 \in DOMAIN inbox
        /\ \A i \in DOMAIN inbox' : i + 1 > 1 /\ i \in Int
    BY <1>q, <1>3, TailAt
  <2>1. \A i \in DOMAIN inbox' : post'[inbox'[i].of] = "accepted"
    BY <1>p, <2>i, TurnMoves DEF LetterInv
  <2>2. \A i \in DOMAIN inbox' : inbox'[i].kind = "result" => turn' # inbox'[i].of
    BY <1>q, <1>p, <2>i, TurnMoves DEF LetterInv
  <2>3. \A i, j \in DOMAIN inbox' : inbox'[i].kind = "result" /\ i < j => inbox'[j].of # inbox'[i].of
    <3> SUFFICES ASSUME NEW i \in DOMAIN inbox', NEW j \in DOMAIN inbox',
                        inbox'[i].kind = "result", i < j
                 PROVE  inbox'[j].of # inbox'[i].of
      OBVIOUS
    <3>1. i + 1 < j + 1
      BY <2>i
    <3> QED BY <2>i, <3>1 DEF LetterInv
  <2>4. work'.step = "complete" => Over(work.of)'
    <3>1. CASE UNCHANGED work
      BY <3>1, OverStays DEF LetterInv, Over
    <3>2. CASE /\ Head(inbox).kind = "result" /\ work'.of = Head(inbox).of
               /\ UNCHANGED <<post, turn>>
      <4>1. \A i \in DOMAIN inbox' : inbox'[i].of # inbox[1].of
        BY <2>i, <3>2 DEF LetterInv
      <4> QED BY <1>p, <2>i, <3>2, <4>1 DEF LetterInv, Over
    <3> QED BY <3>1, <3>2, TurnMoves
  <2> QED BY <1>1, <2>1, <2>2, <2>3, <2>4 DEF LetterInv
<1>4. ASSUME NEW e \in Letters, inbox' = Append(inbox, e), e.of = turn, turn \in Post,
             e.kind = "result" => turn' = NoPost, turn' \in {turn, NoPost}
      PROVE  LetterInv'
  <2>i. /\ \A i \in DOMAIN inbox' : i \in DOMAIN inbox \/ i = Len(inbox) + 1
        /\ \A i \in DOMAIN inbox : inbox'[i] = inbox[i] /\ i <= Len(inbox) /\ i \in Int
        /\ inbox'[Len(inbox) + 1] = e /\ Len(inbox) \in Nat
    BY <1>q, <1>4, AppendAt
  <2>1. \A i \in DOMAIN inbox' : post'[inbox'[i].of] = "accepted"
    BY <1>q, <1>p, <1>4, <2>i, TurnMoves DEF LetterInv
  <2>2. \A i \in DOMAIN inbox' : inbox'[i].kind = "result" => turn' # inbox'[i].of
    BY <1>q, <1>p, <1>4, <2>i DEF LetterInv
  <2>3. \A i, j \in DOMAIN inbox' : inbox'[i].kind = "result" /\ i < j => inbox'[j].of # inbox'[i].of
    <3> SUFFICES ASSUME NEW i \in DOMAIN inbox', NEW j \in DOMAIN inbox',
                        inbox'[i].kind = "result", i < j
                 PROVE  inbox'[j].of # inbox'[i].of
      OBVIOUS
    <3>1. i \in DOMAIN inbox
      BY <2>i
    <3> QED BY <1>4, <2>i, <3>1 DEF LetterInv
  <2>4. work'.step = "complete" => Over(work.of)'
    <3>1. CASE UNCHANGED work
      BY <3>1, OverStays DEF LetterInv, Over
    <3>2. CASE inbox # <<>> /\ inbox' = Tail(inbox)
      <4>1. Len(inbox') # Len(inbox) + 1 /\ Len(Append(inbox, e)) = Len(inbox) + 1
        BY <1>q, <3>2
      <4> QED BY <1>4, <4>1
    <3> QED BY <3>1, <3>2, TurnMoves
  <2> QED BY <1>1, <2>1, <2>2, <2>3, <2>4 DEF LetterInv
<1> QED BY <1>2, <1>3, <1>4, TurnMoves

(* A turn's result is its last word in every state.                        *)
LEMMA LettersAlways == TimelineSpec => []LetterInv
<1>1. TimelineInit => LetterInv
  BY DEF TimelineInit, LetterInv, Idle
<1>2. SettleInv /\ HolderInv /\ LetterInv /\ [TimelineNext]_vars => LetterInv'
  BY LetterStep
<1> QED BY <1>1, <1>2, HoldersAlways, SettledAlways, PTL DEF TimelineSpec

(***************************************************************************)
(* The log and what is broadcast of it                                     *)
(***************************************************************************)

(* What the log and a subscriber's queue hold.                             *)
Entry == {UserEntry(m) : m \in Message} \cup {AgentEntry(p) : p \in Post} \cup {Interrupt}
Items == [kind : {"entry", "result", "complete", "status", "overflow"},
          seq : Nat \cup {-1}, entry : Entry]

(* An item announces what the log says; a completion, that a turn is over. *)
Valid(x) ==
  /\ x.kind = "entry" =>
       /\ x.seq \in DOMAIN log /\ x.entry = log[x.seq]
       /\ x.entry.by = "user" => \E p \in Post : post[p] = "accepted" /\ seqOf[p] = x.seq
  /\ x.kind = "complete" => \E p \in Post : Over(p) /\ x.entry = AgentEntry(p)

(* The entry that the inbox task has written and not yet announced.        *)
InHand(s) == work.step \in {"announce", "complete"} /\ work.seq = s

(* Seqs do not exceed the highest that was given out.                      *)
LogInv ==
  /\ top \in Nat \cup {-1}
  /\ \A s \in DOMAIN log : log[s] \in Entry /\ s <= top

(* The entry in hand is the one that the inbox task has written.           *)
WorkInv ==
  /\ work.seq \in Nat \cup {-1}
  /\ work.step = "announce" => work.seq \in DOMAIN log /\ log[work.seq].by = "agent"
  /\ work.step = "complete" /\ work.seq # -1 => work.seq \in DOMAIN log /\ log[work.seq] = Interrupt

(* What a subscriber's queue holds is true.                                *)
ChanInv == chan \in Seq(Items) /\ \A x \in Range(chan) : Valid(x)

(* The greater of two numbers.                                             *)
LEMMA MaxOfTwo ==
  ASSUME NEW a \in Int, NEW b \in Int
  PROVE  Max({a, b}) \in {a, b} /\ Max({a, b}) >= a /\ Max({a, b}) >= b
<1>1. \E x \in {a, b} : \A y \in {a, b} : x >= y
  OBVIOUS
<1> QED BY <1>1 DEF Max

(* Who has written an entry.                                               *)
LEMMA Writers ==
  /\ \A m : UserEntry(m).by = "user"
  /\ \A p : AgentEntry(p).by = "agent"
  /\ Interrupt.by = "system"
  /\ \A p, q : AgentEntry(p) = AgentEntry(q) => p = q
  /\ \A p : AgentEntry(p) # Interrupt
<1>1. "user" # "agent" /\ "user" # "system" /\ "agent" # "system"
  OBVIOUS
<1> QED BY <1>1 DEF UserEntry, AgentEntry, Interrupt

(* What an append does to the log and its seqs.                            *)
LEMMA AppendMoves ==
  ASSUME Bounded, LogInv, NEW e \in Entry, Append1(e)
  PROVE  /\ DOMAIN log' = DOMAIN log \cup {LastSeq + 1}
         /\ log'[LastSeq + 1] = e /\ LastSeq + 1 \in Nat
         /\ \A s \in DOMAIN log : log'[s] = log[s] /\ s < LastSeq + 1
         /\ top' \in Nat \cup {-1} /\ top <= top' /\ LastSeq + 1 <= top'
         /\ reused \subseteq reused'
         /\ LastSeq + 1 > top \/ LastSeq + 1 \in reused'
<1>1. /\ LastSeq + 1 \in Nat /\ \A s \in DOMAIN log : s < LastSeq + 1
  BY FreshSeq
<1>2. /\ DOMAIN log' = DOMAIN log \cup {LastSeq + 1}
      /\ log'[LastSeq + 1] = e
      /\ \A s \in DOMAIN log : log'[s] = log[s]
  BY AppendedToLog DEF Append1
<1>3. LastSeq <= top /\ LastSeq \in Int
  <2>1. CASE DOMAIN log = {}
    BY <2>1 DEF LastSeq, LogInv
  <2>2. CASE DOMAIN log # {}
    <3>1. LastSeq \in DOMAIN log
      BY <2>2, GreatestExists DEF Bounded, LastSeq
    <3> QED BY <3>1 DEF LogInv, Bounded
  <2> QED BY <2>1, <2>2
<1>4. /\ top' \in {top, LastSeq + 1} /\ top' >= top /\ top' >= LastSeq + 1
  BY <1>1, MaxOfTwo DEF Append1, LogInv
<1>5. reused' = IF LastSeq < top THEN reused \cup {LastSeq + 1} ELSE reused
  BY DEF Append1
<1>6. reused \subseteq reused' /\ (LastSeq + 1 > top \/ LastSeq + 1 \in reused')
  BY <1>3, <1>5 DEF LogInv
<1> QED BY <1>1, <1>2, <1>4, <1>6 DEF LogInv

(* A step leaves the log alone, appends one entry, or deletes the entry of *)
(* a message that was refused.                                             *)
LEMMA LogCases ==
  ASSUME SettleInv, HolderInv, LogInv, [TimelineNext]_vars
  PROVE  \/ UNCHANGED <<log, seqOf, top, reused>>
         \/ /\ UNCHANGED readerVars
            /\ \E p \in Post :
                 \/ /\ Append1(UserEntry(MessageOf[p])) /\ UNCHANGED work
                    /\ post[p] = "new" /\ seqOf' = [seqOf EXCEPT ![p] = LastSeq + 1]
                 \/ /\ post[p] = "refused" /\ UNCHANGED <<seqOf, top, reused, work>>
                    /\ log' = [s \in DOMAIN log \ {seqOf[p]} |-> log[s]]
         \/ /\ UNCHANGED readerVars /\ UNCHANGED seqOf
            /\ inbox # <<>> /\ Head(inbox).of \in Post
            /\ \E e \in {Interrupt, AgentEntry(Head(inbox).of)} :
                 Append1(e) /\ work'.step \in {"announce", "complete"} /\ work'.seq = LastSeq + 1
<1>1. ASSUME NEW p \in Post, Accept(p)
      PROVE  \/ UNCHANGED <<log, seqOf, top, reused>>
             \/ /\ UNCHANGED <<readerVars, work>>
                /\ Append1(UserEntry(MessageOf[p]))
                /\ post[p] = "new" /\ seqOf' = [seqOf EXCEPT ![p] = LastSeq + 1]
  BY <1>1 DEF Accept, logVars
<1>2. ASSUME NEW p \in Post, Withdraw(p)
      PROVE  /\ UNCHANGED <<readerVars, seqOf, top, reused, work>>
             /\ post[p] = "refused"
             /\ log' = [s \in DOMAIN log \ {seqOf[p]} |-> log[s]]
  BY <1>2 DEF Withdraw
<1>3. CASE LogMessage \/ LogResult
  <2>1. /\ UNCHANGED readerVars /\ UNCHANGED seqOf /\ inbox # <<>>
    BY <1>3 DEF LogMessage, LogResult
  <2>2. Head(inbox).of \in Post
    <3>1. Head(inbox) \in Letters
      BY <2>1, LetterTaken DEF SettleInv
    <3> QED BY <3>1 DEF Letters
  <2>3. CASE LogMessage
    <3>1. /\ work'.step = "announce" /\ work'.seq = LastSeq + 1
          /\ Append1(AgentEntry(Head(inbox).of))
      BY <2>3 DEF LogMessage, Idle
    <3> QED BY <2>1, <2>2, <3>1
  <2>4. CASE LogResult
    <3> DEFINE new == Head(inbox).as = "interrupted" /\ (log = <<>> \/ log[LastSeq] # Interrupt)
    <3>1. /\ work'.step = "complete" /\ work'.seq = IF new THEN LastSeq + 1 ELSE -1
          /\ IF new THEN Append1(Interrupt) ELSE UNCHANGED <<log, top, reused>>
      BY <2>4 DEF LogResult
    <3> QED BY <2>1, <2>2, <3>1
  <2> QED BY <1>3, <2>3, <2>4
<1>4. ASSUME NEW p \in Post, SendQuery(p) \/ Escape(p) \/ Fail(p) \/ TurnStarts(p)
      PROVE  UNCHANGED <<log, seqOf, top, reused>>
  BY <1>4 DEF SendQuery, Escape, Fail, TurnStarts, logVars
<1>5. CASE \/ InterruptSession \/ TurnSpeaks \/ ResultComes \/ ActorFails \/ PersistError
           \/ ActorCancelled \/ PersistClosed \/ AnnounceEntry \/ CompleteTurn \/ PersistTurn
  BY <1>5 DEF InterruptSession, TurnSpeaks, ResultComes, ActorFails, PersistError,
              ActorCancelled, PersistClosed, AnnounceEntry, CompleteTurn, PersistTurn, logVars
<1>6. CASE ReaderStep \/ UNCHANGED vars
  BY <1>6 DEF ReaderStep, Subscribe, ListEntries, GoLive, HearEntry, HearResult,
              HearComplete, HearStatus, Reconnect, Heartbeat, vars, logVars
<1> QED BY <1>1, <1>2, <1>3, <1>4, <1>5, <1>6
        DEF TimelineNext, PostStep, ActorStep, InboxStep

(* What an append or a withdrawal does to the entries.                     *)
LEMMA LogMoves ==
  ASSUME SettleInv, HolderInv, LogInv, [TimelineNext]_vars
  PROVE  /\ LogInv' /\ top <= top' /\ reused \subseteq reused'
         /\ \A s \in DOMAIN log : log[s].by # "user" => s \in DOMAIN log'
         /\ \A s \in DOMAIN log : s \in DOMAIN log' => log'[s] = log[s]
         /\ \A p \in Post : post[p] = "accepted" =>
               seqOf'[p] = seqOf[p] /\ seqOf[p] \in DOMAIN log'
         /\ \A s \in DOMAIN log' : s \notin DOMAIN log =>
               /\ \A t \in DOMAIN log : t < s
               /\ s > top \/ s \in reused'
               /\ log'[s].by # "user" =>
                    /\ InHand(s)' /\ inbox # <<>> /\ Head(inbox).of \in Post
                    /\ log'[s] \in {Interrupt, AgentEntry(Head(inbox).of)}
         /\ log' = log \/ UNCHANGED readerVars
<1>b. /\ Bounded /\ DOMAIN seqOf = Post
      /\ \A p \in Post : post[p] = "accepted" => seqOf[p] \in DOMAIN log
      /\ \A p, q \in Post : post[p] = "accepted" /\ post[q] = "refused" =>
           seqOf[p] # seqOf[q]
      /\ \A q \in Post : post[q] = "refused" =>
           seqOf[q] \in DOMAIN log /\ log[seqOf[q]].by = "user"
  <2>1. \A p, q \in Holding : seqOf[p] = seqOf[q] => p = q
    BY Entries DEF HolderInv
  <2> QED BY <2>1, Writers DEF HolderInv, Holding
<1>u. \A p \in Post : UserEntry(MessageOf[p]) \in Entry /\ UserEntry(MessageOf[p]).by = "user"
  BY PostAssumption, Writers DEF Entry
<1>t. top \in Int /\ top <= top
  BY DEF LogInv
<1>1. CASE UNCHANGED <<log, seqOf, top, reused>>
  BY <1>b, <1>t, <1>1 DEF LogInv
<1>2. ASSUME NEW p \in Post, Append1(UserEntry(MessageOf[p])), post[p] = "new",
             seqOf' = [seqOf EXCEPT ![p] = LastSeq + 1], UNCHANGED readerVars
      PROVE  /\ LogInv' /\ top <= top' /\ reused \subseteq reused'
             /\ \A s \in DOMAIN log : s \in DOMAIN log' /\ log'[s] = log[s]
             /\ \A q \in Post : post[q] = "accepted" =>
                  seqOf'[q] = seqOf[q] /\ seqOf[q] \in DOMAIN log'
             /\ \A s \in DOMAIN log' : s \notin DOMAIN log =>
                  /\ \A t \in DOMAIN log : t < s
                  /\ s > top \/ s \in reused'
                  /\ log'[s].by = "user"
  <2>1. /\ DOMAIN log' = DOMAIN log \cup {LastSeq + 1}
        /\ log'[LastSeq + 1] = UserEntry(MessageOf[p])
        /\ \A s \in DOMAIN log : log'[s] = log[s] /\ s < LastSeq + 1
        /\ top' \in Nat \cup {-1} /\ top <= top' /\ LastSeq + 1 <= top'
        /\ reused \subseteq reused'
        /\ LastSeq + 1 > top \/ LastSeq + 1 \in reused'
    BY <1>b, <1>u, <1>2, AppendMoves
  <2>2. \A s \in DOMAIN log' : log'[s] \in Entry /\ s <= top'
    BY <1>b, <1>u, <2>1 DEF LogInv, Bounded
  <2>3. LogInv'
    BY <2>1, <2>2 DEF LogInv
  <2> QED BY <1>b, <1>u, <1>2, <2>1, <2>3
<1>3. ASSUME NEW p \in Post, post[p] = "refused", UNCHANGED <<seqOf, top, reused>>,
             log' = [s \in DOMAIN log \ {seqOf[p]} |-> log[s]], UNCHANGED readerVars
      PROVE  /\ LogInv' /\ top <= top' /\ reused \subseteq reused'
             /\ \A s \in DOMAIN log : log[s].by # "user" => s \in DOMAIN log'
             /\ \A s \in DOMAIN log' : s \in DOMAIN log /\ log'[s] = log[s]
             /\ \A q \in Post : post[q] = "accepted" =>
                  seqOf'[q] = seqOf[q] /\ seqOf[q] \in DOMAIN log'
  <2>1. DOMAIN log' = DOMAIN log \ {seqOf[p]} /\ \A s \in DOMAIN log' : log'[s] = log[s]
    BY <1>3
  <2> QED BY <1>b, <1>t, <1>3, <2>1 DEF LogInv
<1>4. ASSUME UNCHANGED readerVars, UNCHANGED seqOf, inbox # <<>>, Head(inbox).of \in Post,
             NEW e \in {Interrupt, AgentEntry(Head(inbox).of)},
             Append1(e), work'.step \in {"announce", "complete"}, work'.seq = LastSeq + 1
      PROVE  /\ LogInv' /\ top <= top' /\ reused \subseteq reused'
             /\ \A s \in DOMAIN log : s \in DOMAIN log' /\ log'[s] = log[s]
             /\ \A s \in DOMAIN log' : s \notin DOMAIN log =>
                  /\ \A t \in DOMAIN log : t < s
                  /\ s > top \/ s \in reused'
                  /\ InHand(s)' /\ log'[s] = e
  <2>0. e \in Entry
    BY <1>4 DEF Entry
  <2>1. /\ DOMAIN log' = DOMAIN log \cup {LastSeq + 1}
        /\ log'[LastSeq + 1] = e
        /\ \A s \in DOMAIN log : log'[s] = log[s] /\ s < LastSeq + 1
        /\ top' \in Nat \cup {-1} /\ top <= top' /\ LastSeq + 1 <= top'
        /\ reused \subseteq reused'
        /\ LastSeq + 1 > top \/ LastSeq + 1 \in reused'
    BY <1>b, <1>4, <2>0, AppendMoves
  <2>2. \A s \in DOMAIN log' : log'[s] \in Entry /\ s <= top'
    BY <1>b, <2>0, <2>1 DEF LogInv, Bounded
  <2>3. LogInv'
    BY <2>1, <2>2 DEF LogInv
  <2>4. \A s \in DOMAIN log' : s \notin DOMAIN log => s = LastSeq + 1
    BY <2>1
  <2>5. \A s \in DOMAIN log' : s \notin DOMAIN log => InHand(s)'
    BY <1>4, <2>4 DEF InHand
  <2> QED BY <2>1, <2>3, <2>4, <2>5
<1> QED BY <1>b, <1>1, <1>2, <1>3, <1>4, LogCases

(* The entry in hand is in the log.                                        *)
LEMMA WorkStep ==
  ASSUME SettleInv, HolderInv, LogInv, WorkInv, [TimelineNext]_vars
  PROVE  WorkInv'
<1>l. \A s \in DOMAIN log : log[s].by # "user" => s \in DOMAIN log' /\ log'[s] = log[s]
  BY LogMoves
<1>w. "agent" # "user" /\ Interrupt.by # "user"
  BY Writers
<1>1. CASE UNCHANGED work
  BY <1>l, <1>w, <1>1 DEF WorkInv
<1>2. CASE work' = Idle
  BY <1>2 DEF WorkInv, Idle
<1>3. CASE CompleteTurn
  <2>1. work'.step = "persist" /\ work'.seq = work.seq
    BY <1>3 DEF CompleteTurn, WorkInv
  <2> QED BY <2>1 DEF WorkInv
<1>4. CASE LogMessage
  <2>1. /\ work'.step = "announce" /\ work'.seq = LastSeq + 1
        /\ log' = Written(AgentEntry(Head(inbox).of))
    BY <1>4 DEF LogMessage, Append1, Idle
  <2>2. /\ LastSeq + 1 \in Nat /\ LastSeq + 1 \in DOMAIN log'
        /\ log'[LastSeq + 1] = AgentEntry(Head(inbox).of)
    BY <2>1, AppendedToLog DEF HolderInv
  <2> QED BY <2>1, <2>2, Writers DEF WorkInv
<1>5. CASE LogResult
  <2> DEFINE new == Head(inbox).as = "interrupted" /\ (log = <<>> \/ log[LastSeq] # Interrupt)
  <2>1. /\ work'.step = "complete" /\ work'.seq = IF new THEN LastSeq + 1 ELSE -1
        /\ IF new THEN log' = Written(Interrupt) ELSE TRUE
    BY <1>5 DEF LogResult, Append1
  <2>2. CASE new
    <3>1. /\ LastSeq + 1 \in Nat /\ LastSeq + 1 \in DOMAIN log'
          /\ log'[LastSeq + 1] = Interrupt
      BY <2>1, <2>2, AppendedToLog DEF HolderInv
    <3> QED BY <2>1, <2>2, <3>1 DEF WorkInv
  <2>3. CASE ~new
    BY <2>1, <2>3 DEF WorkInv
  <2> QED BY <2>2, <2>3
<1>6. ASSUME NEW p \in Post, \/ Accept(p) \/ SendQuery(p) \/ Escape(p) \/ Withdraw(p)
                             \/ Fail(p) \/ TurnStarts(p)
      PROVE  UNCHANGED work
  BY <1>6 DEF Accept, SendQuery, Escape, Withdraw, Fail, TurnStarts
<1>7. CASE \/ InterruptSession \/ TurnSpeaks \/ ResultComes \/ ActorFails \/ PersistError
           \/ ActorCancelled \/ PersistClosed \/ AnnounceEntry \/ PersistTurn
  BY <1>1, <1>2, <1>7 DEF InterruptSession, TurnSpeaks, ResultComes, ActorFails, PersistError,
              ActorCancelled, PersistClosed, AnnounceEntry, PersistTurn
<1>8. CASE ReaderStep \/ UNCHANGED vars
  BY <1>1, <1>8 DEF ReaderStep, Subscribe, ListEntries, GoLive, HearEntry, HearResult,
              HearComplete, HearStatus, Reconnect, Heartbeat, vars
<1> QED BY <1>1, <1>3, <1>4, <1>5, <1>6, <1>7, <1>8
        DEF TimelineNext, PostStep, ActorStep, InboxStep

(* What is true of an item stays true.                                     *)
LEMMA ValidStays ==
  ASSUME SettleInv, HolderInv, LogInv, [TimelineNext]_vars, NEW x, Valid(x)
  PROVE  Valid(x)'
<1>1. x.kind = "complete" => \E p \in Post : Over(p)' /\ x.entry = AgentEntry(p)
  BY OverStays DEF Valid
<1>2. ASSUME x.kind = "entry"
      PROVE  /\ x.seq \in DOMAIN log' /\ x.entry = log'[x.seq]
             /\ x.entry.by = "user" =>
                  \E p \in Post : post'[p] = "accepted" /\ seqOf'[p] = x.seq
  <2>1. /\ x.seq \in DOMAIN log /\ x.entry = log[x.seq]
        /\ x.entry.by = "user" => \E p \in Post : post[p] = "accepted" /\ seqOf[p] = x.seq
    BY <1>2 DEF Valid
  <2>2. CASE x.entry.by = "user"
    <3>1. PICK p \in Post : post[p] = "accepted" /\ seqOf[p] = x.seq
      BY <2>1, <2>2
    <3>2. post'[p] = "accepted" /\ seqOf'[p] = x.seq /\ x.seq \in DOMAIN log'
      BY <3>1, LogMoves, TurnMoves
    <3> QED BY <2>1, <3>2, LogMoves
  <2>3. CASE x.entry.by # "user"
    BY <2>1, <2>3, LogMoves
  <2> QED BY <2>2, <2>3
<1> QED BY <1>1, <1>2 DEF Valid

(* What a broadcast does to the queue.                                     *)
LEMMA Broadcasts ==
  ASSUME chan \in Seq(Items), NEW new \in Seq(Items), Broadcast(new)
  PROVE  \/ chan' = chan /\ (reader \notin {"subscribed", "listed", "live"} \/ chan = Cut)
         \/ chan' = Cut
         \/ chan' = chan \o new
BY DEF Broadcast

(* The items of one broadcast.                                             *)
LEMMA OneItem ==
  ASSUME NEW x \in Items
  PROVE  <<x>> \in Seq(Items) /\ Range(<<x>>) = {x}
BY DEF Range

(* The same for an entry and the completion behind it.                     *)
LEMMA TwoItems ==
  ASSUME NEW x \in Items, NEW y \in Items
  PROVE  <<x>> \o <<y>> \in Seq(Items) /\ Range(<<x>> \o <<y>>) = {x, y}
<1>1. /\ <<x>> \o <<y>> \in Seq(Items) /\ DOMAIN (<<x>> \o <<y>>) = {1, 2}
      /\ (<<x>> \o <<y>>)[1] = x /\ (<<x>> \o <<y>>)[2] = y
  OBVIOUS
<1> QED BY <1>1 DEF Range

(* An item brings an entry; an item comes late for an entry if it promises *)
(* that the entry has been brought: one with a higher seq, or the          *)
(* completion of the entry's turn.                                         *)
Carries(x, s) == x.kind = "entry" /\ x.seq = s
Late(x, s) ==
  \/ x.kind = "entry" /\ x.seq > s /\ x.entry.by # "user"
  \/ x.kind = "complete" /\ x.entry = log[s]

(* A step that the reader's queue does not see.                            *)
Quiet == UNCHANGED readerVars /\ \A s \in Nat : InHand(s) => InHand(s)'

(* A step that announces the entry in hand, if any, or what puts no seq    *)
(* behind the cursor.                                                      *)
Tells ==
  /\ UNCHANGED <<log, reader, last, due, got>>
  /\ \E new \in Seq(Items) :
       /\ Broadcast(new)
       /\ \A x \in Range(new) : Valid(x)'
       /\ \A s \in DOMAIN log : InHand(s) => \A x \in Range(new) : ~Late(x, s)
       /\ \A s \in DOMAIN log : InHand(s) => InHand(s)' \/ \E x \in Range(new) : Carries(x, s)

(* A step that announces one item.                                         *)
LEMMA OneTold ==
  ASSUME UNCHANGED <<log, reader, last, due, got>>, NEW x \in Items, Broadcast(<<x>>), Valid(x)',
         \A s \in DOMAIN log : InHand(s) => ~Late(x, s),
         \A s \in DOMAIN log : InHand(s) => InHand(s)' \/ Carries(x, s)
  PROVE  Tells
<1>1. <<x>> \in Seq(Items) /\ Range(<<x>>) = {x}
  BY OneItem
<1> QED BY <1>1 DEF Tells

(* What an item says.                                                      *)
LEMMA ItemsAre ==
  ASSUME NEW k \in {"entry", "result", "complete", "status", "overflow"},
         NEW n \in Nat \cup {-1}, NEW e \in Entry
  PROVE  /\ Item(k, n, e) \in Items
         /\ Item(k, n, e).kind = k /\ Item(k, n, e).seq = n /\ Item(k, n, e).entry = e
BY DEF Item, Items

(* What the item of an entry says.                                         *)
LEMMA EntryItemsAre ==
  ASSUME LogInv, HolderInv, NEW s \in DOMAIN log
  PROVE  /\ s \in Nat /\ EntryItem(s) \in Items
         /\ EntryItem(s).kind = "entry" /\ EntryItem(s).seq = s /\ EntryItem(s).entry = log[s]
<1>1. s \in Nat /\ log[s] \in Entry
  BY DEF LogInv, HolderInv, Bounded
<1> QED BY <1>1, ItemsAre DEF EntryItem

(* Who announces what.                                                     *)
LEMMA TellCases ==
  ASSUME SettleInv, HolderInv, LetterInv, LogInv, WorkInv,
         \/ \E p \in Post : TurnStarts(p)
         \/ ResultComes \/ ActorFails \/ AnnounceEntry \/ CompleteTurn
  PROVE  Tells
<1>i. Interrupt \in Entry /\ \A p \in Post : AgentEntry(p) \in Entry
  BY DEF Entry
<1>1. ASSUME NEW p \in Post, TurnStarts(p) PROVE Tells
  <2> DEFINE x == EntryItem(seqOf[p])
  <2>1. /\ UNCHANGED <<log, seqOf, reader, last, due, got, work>> /\ Broadcast(<<x>>)
        /\ p \in line /\ post' = [post EXCEPT ![p] = "accepted"]
    BY <1>1 DEF TurnStarts, logVars
  <2>2. /\ DOMAIN post = Post /\ p \in Holding /\ seqOf[p] \in DOMAIN log
        /\ log[seqOf[p]] = UserEntry(MessageOf[p])
    BY <2>1 DEF HolderInv, Holding, Stages
  <2>3. x \in Items /\ x.kind = "entry" /\ x.seq = seqOf[p] /\ x.entry = log[seqOf[p]]
    BY <2>2, EntryItemsAre
  <2>4. x.entry.by = "user"
    BY <2>2, <2>3, Writers
  <2>5. \A z : z = x => Valid(z)'
    <3>1. post'[p] = "accepted"
      BY <2>1, <2>2
    <3> HIDE DEF x
    <3> QED BY <2>1, <2>2, <2>3, <3>1 DEF Valid
  <2>6. \A s : ~Late(x, s)
    BY <2>3, <2>4 DEF Late
  <2>7. \A s \in DOMAIN log : InHand(s) => InHand(s)'
    BY <2>1 DEF InHand
  <2> HIDE DEF x
  <2> QED BY <2>1, <2>3, <2>5, <2>6, <2>7, OneTold
<1>2. CASE ResultComes
  <2> DEFINE x == Item("result", -1, AgentEntry(turn))
  <2>1. /\ UNCHANGED <<log, seqOf, reader, last, due, got, work>> /\ Broadcast(<<x>>)
        /\ turn \in Post
    BY <1>2 DEF ResultComes, logVars, SettleInv
  <2>2. x \in Items /\ x.kind = "result"
    BY <1>i, <2>1, ItemsAre
  <2> QED BY <2>1, <2>2, OneTold DEF Valid, Late, InHand
<1>3. CASE ActorFails
  <2> DEFINE x == Mark("status")
  <2>1. /\ UNCHANGED <<log, seqOf, reader, last, due, got, work>> /\ Broadcast(<<x>>)
    BY <1>3 DEF ActorFails, logVars
  <2>2. x \in Items /\ x.kind = "status"
    BY <1>i, ItemsAre DEF Mark
  <2> QED BY <2>1, <2>2, OneTold DEF Valid, Late, InHand
<1>4. CASE AnnounceEntry
  <2> DEFINE x == EntryItem(work.seq)
  <2>1. /\ UNCHANGED <<log, seqOf, reader, last, due, got>> /\ Broadcast(<<x>>)
        /\ work.step = "announce"
    BY <1>4 DEF AnnounceEntry, logVars
  <2>2. work.seq \in DOMAIN log /\ log[work.seq].by = "agent"
    BY <2>1 DEF WorkInv
  <2>3. x \in Items /\ x.kind = "entry" /\ x.seq = work.seq /\ x.entry = log[work.seq] /\ x.seq \in Nat
    BY <2>2, EntryItemsAre
  <2>5. x.seq \in DOMAIN log' /\ x.entry = log'[x.seq] /\ x.entry.by # "user"
    BY <2>1, <2>2, <2>3
  <2>6. \A s \in DOMAIN log : InHand(s) => s = x.seq /\ Carries(x, s) /\ ~Late(x, s)
    BY <2>3 DEF InHand, Carries, Late
  <2> HIDE DEF x
  <2> QED BY <2>1, <2>3, <2>5, <2>6, OneTold DEF Valid
<1>5. CASE CompleteTurn
  <2> DEFINE y == Item("complete", -1, AgentEntry(work.of))
             x == EntryItem(work.seq)
  <2>1. /\ UNCHANGED <<log, seqOf, reader, last, due, got, turn, inbox, post>>
        /\ Broadcast((IF work.seq >= 0 THEN <<x>> ELSE <<>>) \o <<y>>)
        /\ work.step = "complete"
    BY <1>5 DEF CompleteTurn, logVars, turnVars
  <2>2. work.seq \in Nat \cup {-1} /\ Over(work.of) /\ work.of \in Post
    BY <2>1 DEF WorkInv, LetterInv, Over
  <2>3. /\ y \in Items /\ y.kind = "complete" /\ y.entry = AgentEntry(work.of)
    BY <1>i, <2>2, ItemsAre
  <2>4. \A z : z = y => Valid(z)'
    <3>1. \A p : p = work.of => p \in Post /\ Over(p)'
      BY <2>1, <2>2 DEF Over
    <3>2. \A z : z = y => z.kind = "complete" /\ \E p \in Post : p = work.of /\ z.entry = AgentEntry(p)
      BY <2>2, <2>3
    <3> HIDE DEF y
    <3> QED BY <3>1, <3>2 DEF Valid
  <2>5. CASE work.seq = -1
    <3>1. Broadcast(<<y>>)
      <4>1. (IF work.seq >= 0 THEN <<x>> ELSE <<>>) \o <<y>> = <<y>>
        BY <2>3, <2>5
      <4> QED BY <2>1, <4>1
    <3>2. \A s \in DOMAIN log : ~InHand(s)
      BY <2>5 DEF InHand, HolderInv, Bounded
    <3>3. <<y>> \in Seq(Items) /\ Range(<<y>>) = {y}
      BY <2>3, OneItem
    <3> HIDE DEF y
    <3> QED BY <2>1, <2>4, <3>1, <3>2, <3>3 DEF Tells
  <2>6. CASE work.seq # -1
    <3>1. work.seq \in DOMAIN log /\ log[work.seq] = Interrupt /\ work.seq \in Nat
      BY <2>1, <2>2, <2>6 DEF WorkInv
    <3>2. /\ x \in Items /\ x.kind = "entry" /\ x.seq = work.seq /\ x.entry = Interrupt
          /\ x.entry.by # "user"
      BY <3>1, EntryItemsAre, Writers
    <3>3. Broadcast(<<x>> \o <<y>>)
      <4>1. (IF work.seq >= 0 THEN <<x>> ELSE <<>>) = <<x>>
        BY <3>1
      <4> QED BY <2>1, <4>1
    <3>4. \A z : z = x => Valid(z)'
      <4> HIDE DEF x
      <4> QED BY <2>1, <3>1, <3>2 DEF Valid
    <3>5. \A s \in DOMAIN log : InHand(s) => s = work.seq /\ Carries(x, s) /\ ~Late(x, s) /\ ~Late(y, s)
      BY <2>3, <3>1, <3>2, Writers DEF InHand, Carries, Late
    <3>6. <<x>> \o <<y>> \in Seq(Items) /\ Range(<<x>> \o <<y>>) = {x, y}
      BY <2>3, <3>2, TwoItems
    <3> HIDE DEF x, y
    <3> QED BY <2>1, <2>4, <3>3, <3>4, <3>5, <3>6 DEF Tells
  <2> QED BY <2>2, <2>5, <2>6
<1> QED BY <1>1, <1>2, <1>3, <1>4, <1>5

(* A step is one of three kinds.                                           *)
LEMMA StepKinds ==
  ASSUME SettleInv, HolderInv, LetterInv, LogInv, WorkInv, [TimelineNext]_vars
  PROVE  Quiet \/ Tells \/ ReaderStep
<1>q. UNCHANGED readerVars /\ (UNCHANGED work \/ work.step \in {"none", "persist"}) => Quiet
  BY DEF Quiet, InHand
<1>1. ASSUME NEW p \in Post, \/ Accept(p) \/ SendQuery(p) \/ Escape(p)
                             \/ Withdraw(p) \/ Fail(p)
      PROVE  Quiet
  BY <1>q, <1>1 DEF Accept, SendQuery, Escape, Withdraw, Fail
<1>2. CASE \/ InterruptSession \/ TurnSpeaks \/ PersistError \/ LogMessage \/ LogResult
           \/ ActorCancelled \/ PersistClosed \/ PersistTurn
  <2>1. /\ UNCHANGED readerVars
        /\ UNCHANGED work \/ work = Idle \/ work.step = "persist"
    BY <1>2 DEF InterruptSession, TurnSpeaks, PersistError, LogMessage, LogResult,
                ActorCancelled, PersistClosed, PersistTurn
  <2> QED BY <1>q, <2>1 DEF Idle
<1>3. CASE UNCHANGED vars
  BY <1>q, <1>3 DEF vars, readerVars
<1> QED BY <1>1, <1>2, <1>3, TellCases DEF TimelineNext, PostStep, ActorStep, InboxStep

(* What the reader does with its queue.                                    *)
LEMMA ReaderMoves ==
  ASSUME ReaderStep
  PROVE  /\ UNCHANGED <<logVars, post, turnVars, inbox, work, status>>
         /\ \/ UNCHANGED chan \/ chan' = <<>>
            \/ reader = "live" /\ chan # <<>> /\ chan' = Tail(chan)
BY DEF ReaderStep, Subscribe, ListEntries, GoLive, HearEntry, HearResult,
       HearComplete, HearStatus, Reconnect, Heartbeat, statusVars

(* The queue holds only what is true.                                      *)
LEMMA ChanStep ==
  ASSUME SettleInv, HolderInv, LetterInv, LogInv, WorkInv, ChanInv, [TimelineNext]_vars
  PROVE  ChanInv'
<1>v. \A x \in Range(chan) : Valid(x)'
  BY ValidStays DEF ChanInv
<1>c. Cut \in Seq(Items) /\ \A x \in Range(Cut) : x.kind = "overflow"
  <2>1. Mark("overflow") \in Items /\ Mark("overflow").kind = "overflow"
    BY ItemsAre DEF Mark, Entry
  <2> QED BY <2>1, OneItem DEF Cut
<1>1. CASE UNCHANGED chan
  BY <1>v, <1>1 DEF ChanInv
<1>2. CASE chan' = <<>>
  BY <1>2 DEF ChanInv, Range
<1>3. CASE chan # <<>> /\ chan' = Tail(chan)
  <2>1. Tail(chan) \in Seq(Items) /\ Range(Tail(chan)) \subseteq Range(chan)
    BY <1>3, HeadAndTail DEF ChanInv
  <2> QED BY <1>v, <1>3, <2>1 DEF ChanInv
<1>4. CASE Tells
  <2>1. PICK new \in Seq(Items) : Broadcast(new) /\ \A x \in Range(new) : Valid(x)'
    BY <1>4 DEF Tells
  <2>2. CASE chan' = Cut
    BY <1>c, <2>2 DEF ChanInv, Valid
  <2>3. CASE chan' = chan \o new
    <3>1. /\ chan \o new \in Seq(Items)
          /\ Range(chan \o new) = Range(chan) \cup Range(new)
      BY Joined DEF ChanInv
    <3> QED BY <1>v, <2>1, <2>3, <3>1 DEF ChanInv
  <2> QED BY <1>1, <2>1, <2>2, <2>3, Broadcasts DEF ChanInv
<1> QED BY <1>1, <1>2, <1>3, <1>4, StepKinds, ReaderMoves DEF Quiet, readerVars

(***************************************************************************)
(* The reader                                                              *)
(***************************************************************************)

(* A queue brings an entry, and brings it before anything that says so.    *)
Brings(q, s) == \E i \in DOMAIN q : Carries(q[i], s)
Ordered(q, s) ==
  \A i \in DOMAIN q : Late(q[i], s) => \E j \in DOMAIN q : j < i /\ Carries(q[j], s)

(* The reader has read the log and its subscription stands.                *)
Hears == reader \in {"listed", "live"} /\ chan # Cut

(* Whatever is above the cursor of a reader that hears is in hand or in    *)
(* its queue, and ahead of everything that would move the cursor past it.  *)
ReadInv ==
  /\ last \in Nat \cup {-1} /\ last <= top
  /\ DOMAIN got \subseteq 0 .. last
  /\ reader \in {"subscribed", "listed"} => due = NoPost
  /\ reader = "ended" => due = NoPost \/ Over(due)
  /\ Hears => \A s \in DOMAIN log : log[s].by # "user" /\ s > last =>
                (InHand(s) \/ Brings(chan, s)) /\ Ordered(chan, s)
  /\ ReaderKeepsUp

(* A queue without its head.                                               *)
LEMMA TailOrdered ==
  ASSUME NEW q \in Seq(Items), q # <<>>, NEW s, Ordered(q, s), ~Carries(Head(q), s)
  PROVE  /\ ~Late(Head(q), s) /\ Ordered(Tail(q), s)
         /\ Brings(q, s) => Brings(Tail(q), s)
<1>1. /\ Head(q) = q[1] /\ 1 \in DOMAIN q /\ DOMAIN q \subseteq Nat \ {0}
      /\ DOMAIN Tail(q) \subseteq Nat
      /\ \A i \in DOMAIN Tail(q) : i + 1 \in DOMAIN q /\ Tail(q)[i] = q[i + 1]
      /\ \A i \in DOMAIN q : i = 1 \/ (i - 1 \in DOMAIN Tail(q) /\ Tail(q)[i - 1] = q[i])
  BY TailAt
<1>2. ~Late(Head(q), s)
  BY <1>1 DEF Ordered
<1>3. ASSUME NEW i \in DOMAIN Tail(q), Late(Tail(q)[i], s)
      PROVE  \E j \in DOMAIN Tail(q) : j < i /\ Carries(Tail(q)[j], s)
  <2>1. PICK j \in DOMAIN q : j < i + 1 /\ Carries(q[j], s)
    BY <1>1, <1>3 DEF Ordered
  <2>2. j # 1
    BY <1>1, <2>1
  <2>3. j - 1 \in DOMAIN Tail(q) /\ Tail(q)[j - 1] = q[j] /\ j - 1 < i
    BY <1>1, <2>1, <2>2
  <2> QED BY <2>1, <2>3
<1>4. Brings(q, s) => Brings(Tail(q), s)
  BY <1>1 DEF Brings
<1> QED BY <1>2, <1>3, <1>4 DEF Ordered

(* A queue and what is put behind it.                                      *)
LEMMA JoinOrdered ==
  ASSUME NEW q \in Seq(Items), NEW r \in Seq(Items), NEW s, Ordered(q, s),
         \A x \in Range(r) : Late(x, s) => Brings(q, s)
  PROVE  /\ Ordered(q \o r, s)
         /\ Brings(q, s) \/ (\E x \in Range(r) : Carries(x, s)) => Brings(q \o r, s)
<1> DEFINE z == q \o r
<1>1. /\ \A i \in DOMAIN q : i \in DOMAIN z /\ z[i] = q[i]
      /\ \A i \in DOMAIN z : \/ i \in DOMAIN q
                             \/ z[i] \in Range(r) /\ \A j \in DOMAIN q : j < i
      /\ \A x \in Range(r) : \E i \in DOMAIN z : z[i] = x
  BY JoinedAt
<1> HIDE DEF z
<1>2. ASSUME NEW i \in DOMAIN z, Late(z[i], s)
      PROVE  \E j \in DOMAIN z : j < i /\ Carries(z[j], s)
  <2>1. CASE i \in DOMAIN q
    <3>1. PICK j \in DOMAIN q : j < i /\ Carries(q[j], s)
      BY <1>1, <1>2, <2>1 DEF Ordered
    <3> QED BY <1>1, <3>1
  <2>2. CASE z[i] \in Range(r) /\ \A j \in DOMAIN q : j < i
    <3>1. PICK j \in DOMAIN q : Carries(q[j], s)
      BY <1>2, <2>2 DEF Brings
    <3> QED BY <1>1, <2>2, <3>1
  <2> QED BY <1>1, <2>1, <2>2
<1>3. Brings(q, s) \/ (\E x \in Range(r) : Carries(x, s)) => Brings(z, s)
  BY <1>1 DEF Brings
<1>4. Ordered(z, s)
  BY <1>2 DEF Ordered
<1> QED BY <1>3, <1>4 DEF z

(* The cursor goes to the greatest seq that was read.                      *)
LEMMA CursorMoves ==
  ASSUME Bounded, LogInv, last \in Nat \cup {-1}, last <= top
  PROVE  LET new == {s \in DOMAIN log : s > last}
             n == Max({last} \cup new)
         IN  /\ n \in Nat \cup {-1} /\ n <= top /\ n >= last
             /\ \A s \in DOMAIN log : s <= n
<1> DEFINE new == {s \in DOMAIN log : s > last}
           all == {last} \cup new
<1>1. new \in SUBSET Nat /\ \A s \in new : s > last /\ s <= top
  BY DEF Bounded, LogInv
<1>2. \E x \in all : \A y \in all : x >= y
  <2>1. CASE new = {}
    BY <2>1
  <2>2. CASE new # {}
    <3>1. Max(new) \in new /\ \A s \in new : s <= Max(new)
      <4>1. \E n \in Nat : \A s \in new : s <= n
        BY DEF Bounded
      <4> HIDE DEF new
      <4> QED BY <1>1, <2>2, <4>1, GreatestExists
    <3>2. \A y \in all : Max(new) >= y
      BY <1>1, <3>1
    <3> QED BY <3>1, <3>2
  <2> QED BY <2>1, <2>2
<1>3. Max(all) \in all /\ \A y \in all : Max(all) >= y
  <2> HIDE DEF all
  <2> QED BY <1>2 DEF Max
<1>4. \A s \in DOMAIN log : s \in Nat /\ (s \in new \/ s <= last)
  BY DEF Bounded
<1>5. Max(all) \in Nat \cup {-1} /\ Max(all) <= top /\ Max(all) >= last
  BY <1>1, <1>3
<1>6. \A s \in DOMAIN log : s <= Max(all)
  <2> DEFINE m == Max(all)
  <2> HIDE DEF m, new
  <2>1. last <= m /\ m \in Int /\ \A s \in new : s <= m
    BY <1>1, <1>3, <1>5 DEF m
  <2>2. \A s \in DOMAIN log : s <= m
    BY <1>4, <2>1
  <2> QED BY <2>2 DEF m
<1> QED BY <1>5, <1>6

(* New entries are in hand; nothing in the queue is late for them.         *)
LEMMA QuietKeeps ==
  ASSUME SettleInv, HolderInv, EndInv, LetterInv, LogInv, ChanInv, ReadInv,
         [TimelineNext]_vars, Quiet
  PROVE  ReadInv'
<1>r. UNCHANGED <<reader, chan, last, due, got>>
  BY DEF Quiet, readerVars
<1>l. /\ top \in Int /\ top' \in Int /\ top <= top' /\ reused \subseteq reused'
      /\ last \in Nat \cup {-1} /\ last <= top
      /\ DOMAIN log \subseteq Nat
  BY LogMoves DEF LogInv, ReadInv, HolderInv, Bounded
<1>n. \A s \in DOMAIN log' : s \notin DOMAIN log =>
        /\ \A t \in DOMAIN log : t < s
        /\ s > top \/ s \in reused'
        /\ log'[s].by # "user" => /\ InHand(s)' /\ inbox # <<>> /\ Head(inbox).of \in Post
                                  /\ log'[s] \in {Interrupt, AgentEntry(Head(inbox).of)}
  BY LogMoves
<1>o. \A s \in DOMAIN log : s \in DOMAIN log' => log'[s] = log[s]
  BY LogMoves
<1>h. inbox # <<>> => 1 \in DOMAIN inbox /\ Head(inbox) = inbox[1]
  BY TailAt DEF SettleInv
<1>a. ASSUME NEW s \in DOMAIN log', s \notin DOMAIN log, NEW p \in Post, Over(p),
             log'[s] = AgentEntry(p)
      PROVE  FALSE
  <2>1. log'[s].by # "user"
    BY <1>a, Writers
  <2>2. /\ inbox # <<>> /\ log'[s] \in {Interrupt, AgentEntry(Head(inbox).of)}
    BY <1>a, <1>n, <2>1
  <2>3. Head(inbox).of = p
    BY <1>a, <2>2, Writers
  <2> QED BY <1>a, <1>h, <2>2, <2>3 DEF Over
<1>1. ASSUME Hears', NEW s \in DOMAIN log', log'[s].by # "user", s > last
      PROVE  (InHand(s) \/ Brings(chan, s))' /\ Ordered(chan, s)'
  <2>0. Hears
    BY <1>1, <1>r DEF Hears, Cut, Mark, Item, Interrupt
  <2>1. CASE s \in DOMAIN log
    <3>1. (InHand(s) \/ Brings(chan, s)) /\ Ordered(chan, s) /\ s \in Nat /\ log'[s] = log[s]
      BY <1>1, <1>o, <1>l, <2>0, <2>1 DEF ReadInv
    <3> QED BY <1>r, <3>1 DEF Quiet, Brings, Ordered, Carries, Late
  <2>2. CASE s \notin DOMAIN log
    <3>1. InHand(s)'
      BY <1>1, <1>n, <2>2
    <3>2. \A x \in Range(chan) : ~Late(x, s)'
      <4> SUFFICES ASSUME NEW x \in Range(chan), Late(x, s)' PROVE FALSE
        OBVIOUS
      <4>1. Valid(x)
        BY DEF ChanInv
      <4>2. CASE x.kind = "entry" /\ x.seq > s
        <5>1. x.seq \in DOMAIN log /\ x.seq < s
          BY <1>n, <2>2, <4>1, <4>2 DEF Valid
        <5>2. s \in Nat
          BY TimelineStep DEF HolderInv, Bounded
        <5> QED BY <1>l, <4>2, <5>1, <5>2
      <4>3. CASE x.kind = "complete" /\ x.entry = log'[s]
        BY <1>a, <2>2, <4>1, <4>3 DEF Valid
      <4> QED BY <4>2, <4>3 DEF Late
    <3>3. Ordered(chan, s)'
      BY <1>r, <3>2 DEF Ordered, Range
    <3> QED BY <3>1, <3>3
  <2> QED BY <2>1, <2>2
<1>2. ReaderKeepsUp'
  <2>1. ASSUME NEW s \in DOMAIN log', s <= last, s \notin reused'
        PROVE  \/ s \in DOMAIN got /\ got[s] = log'[s]
               \/ log'[s].by = "user"
               \/ \E t \in DOMAIN got : t > s /\ got[t].by = "user"
    <3>1. s \in DOMAIN log
      <4>1. s \in Nat
        BY TimelineStep DEF HolderInv, Bounded
      <4> QED BY <1>n, <1>l, <2>1, <4>1
    <3>2. s \notin reused /\ log'[s] = log[s]
      BY <1>l, <1>o, <2>1, <3>1
    <3> QED BY <2>1, <3>1, <3>2 DEF ReadInv, ReaderKeepsUp
  <2>2. ASSUME reader = "ended", NEW s \in DOMAIN log', log'[s] = AgentEntry(due)
        PROVE  s <= last
    <3>1. CASE s \in DOMAIN log
      BY <1>o, <2>2, <3>1 DEF ReadInv, ReaderKeepsUp
    <3>2. CASE s \notin DOMAIN log
      <4>1. Over(due) => FALSE
        BY <1>a, <2>2, <3>2 DEF Over
      <4>2. due = NoPost => FALSE
        <5>1. log'[s] \in Entry
          BY LogMoves DEF LogInv
        <5>2. \A m : UserEntry(m) # AgentEntry(due)
          BY Entries
        <5> QED BY <2>2, <5>1, <5>2, Writers, PostAssumption DEF Entry
      <4> QED BY <2>2, <4>1, <4>2 DEF ReadInv
    <3> QED BY <3>1, <3>2
  <2> QED BY <1>r, <2>1, <2>2 DEF ReaderKeepsUp
<1>3. reader' = "ended" => (due = NoPost \/ Over(due))'
  <2>1. reader = "ended" => due = NoPost \/ Over(due)
    BY DEF ReadInv
  <2>2. Over(due) => due \in Post /\ \A p \in Post : Over(p) => Over(p)'
    BY OverStays DEF Over
  <2> QED BY <1>r, <2>1, <2>2 DEF Over
<1>4. last' \in Nat \cup {-1} /\ last' <= top'
  BY <1>r, <1>l
<1> QED BY <1>r, <1>1, <1>2, <1>3, <1>4 DEF ReadInv

(* What is announced comes behind what it promises.                        *)
LEMMA TellsKeeps ==
  ASSUME SettleInv, HolderInv, LogInv, ChanInv, ReadInv, [TimelineNext]_vars, Tells
  PROVE  ReadInv'
<1>r. UNCHANGED <<log, reader, last, due, got>>
  BY DEF Tells
<1>l. /\ top \in Int /\ top' \in Int /\ top <= top' /\ reused \subseteq reused'
      /\ last \in Nat \cup {-1} /\ last <= top
  BY LogMoves DEF LogInv, ReadInv
<1>1. ASSUME Hears', NEW s \in DOMAIN log, log[s].by # "user", s > last
      PROVE  (InHand(s) \/ Brings(chan, s))' /\ Ordered(chan, s)'
  <2>1. PICK new \in Seq(Items) :
          /\ Broadcast(new)
          /\ InHand(s) => \A x \in Range(new) : ~Late(x, s)
          /\ InHand(s) => InHand(s)' \/ \E x \in Range(new) : Carries(x, s)
    BY DEF Tells
  <2>2. chan' # Cut /\ reader \in {"listed", "live"}
    BY <1>1, <1>r DEF Hears, Cut, Mark, Item, Interrupt
  <2>3. chan # Cut
    BY <2>1, <2>2 DEF Broadcast
  <2>4. (InHand(s) \/ Brings(chan, s)) /\ Ordered(chan, s)
    BY <1>1, <2>2, <2>3 DEF ReadInv, Hears
  <2>5. chan' = chan \o new
    BY <2>1, <2>2, <2>3, Broadcasts DEF ChanInv
  <2>6. \A x \in Range(new) : Late(x, s) => Brings(chan, s)
    BY <2>1, <2>4
  <2>7. /\ Ordered(chan \o new, s)
        /\ Brings(chan, s) \/ (\E x \in Range(new) : Carries(x, s)) => Brings(chan \o new, s)
    BY <2>4, <2>6, JoinOrdered DEF ChanInv
  <2>8. InHand(s)' \/ Brings(chan, s)'
    BY <2>1, <2>4, <2>5, <2>7 DEF Brings, Carries
  <2>9. Ordered(chan, s)'
    BY <1>r, <2>5, <2>7 DEF Ordered, Carries, Late
  <2> QED BY <2>8, <2>9
<1>2. ReaderKeepsUp'
  BY <1>r, <1>l DEF ReadInv, ReaderKeepsUp
<1>3. reader' = "ended" => (due = NoPost \/ Over(due))'
  <2>1. reader = "ended" => due = NoPost \/ Over(due)
    BY DEF ReadInv
  <2>2. Over(due) => due \in Post /\ \A p \in Post : Over(p) => Over(p)'
    BY OverStays DEF Over
  <2> QED BY <1>r, <2>1, <2>2 DEF Over
<1> QED BY <1>r, <1>l, <1>1, <1>2, <1>3 DEF ReadInv

(* The reader's own steps.                                                 *)
LEMMA ReaderKeeps ==
  ASSUME SettleInv, HolderInv, LogInv, ChanInv, ReadInv, ReaderStep
  PROVE  ReadInv'
<1>r. UNCHANGED <<log, top, reused, seqOf, post, turn, inbox, work, status>>
  BY ReaderMoves DEF logVars, turnVars
<1>o. \A p : Over(p) => Over(p)'
  BY <1>r DEF Over
<1>i. /\ last \in Nat \cup {-1} /\ last <= top /\ top \in Int
      /\ DOMAIN got \subseteq 0 .. last /\ DOMAIN log \subseteq Nat
  BY DEF ReadInv, LogInv, HolderInv, Bounded
<1>c. Head(Cut).kind = "overflow"
  BY DEF Cut, Mark, Item
<1>k. /\ \A s \in DOMAIN log : (s <= last /\ s \notin reused) =>
           \/ s \in DOMAIN got /\ got[s] = log[s]
           \/ log[s].by = "user"
           \/ \E t \in DOMAIN got : t > s /\ got[t].by = "user"
      /\ reader = "ended" => \A s \in DOMAIN log : log[s] = AgentEntry(due) => s <= last
  BY DEF ReadInv, ReaderKeepsUp
<1>p. \A s \in DOMAIN log : log[s] # AgentEntry(NoPost)
  <2>1. \A m : UserEntry(m) # AgentEntry(NoPost)
    BY Entries
  <2> QED BY <2>1, Writers, PostAssumption DEF LogInv, Entry
<1>1. CASE Subscribe
  BY <1>r, <1>i, <1>k, <1>1 DEF Subscribe, ReadInv, Hears, ReaderKeepsUp
<1>2. CASE ListEntries
  <2> DEFINE new == {s \in DOMAIN log : s > last}
             n == Max({last} \cup new)
  <2>1. n \in Nat \cup {-1} /\ n <= top /\ n >= last /\ \A s \in DOMAIN log : s <= n
    BY <1>i, CursorMoves DEF HolderInv
  <2>2. /\ reader = "subscribed" /\ reader' = "listed" /\ last' = n /\ due' = due
        /\ got' = [s \in DOMAIN got \cup new |-> IF s \in new THEN log[s] ELSE got[s]]
    BY <1>2 DEF ListEntries
  <2> HIDE DEF n
  <2>3. DOMAIN got' \subseteq 0 .. last'
    BY <1>i, <2>1, <2>2
  <2>4. due' = NoPost
    BY <2>2 DEF ReadInv
  <2>5. \A t \in DOMAIN got : t \in DOMAIN got' /\ got'[t] = got[t]
    BY <1>i, <2>2
  <2>6. ASSUME NEW s \in DOMAIN log, s \notin reused
        PROVE  \/ s \in DOMAIN got' /\ got'[s] = log[s]
               \/ log[s].by = "user"
               \/ \E t \in DOMAIN got' : t > s /\ got'[t].by = "user"
    <3>1. CASE s > last
      BY <2>2, <3>1
    <3>2. CASE s <= last
      BY <1>k, <2>5, <2>6, <3>2
    <3> QED BY <1>i, <3>1, <3>2
  <2>7. \A s \in DOMAIN log' : ~(s > last')
    BY <1>r, <1>i, <2>1, <2>2
  <2> QED BY <1>r, <2>1, <2>2, <2>3, <2>4, <2>6, <2>7 DEF ReadInv, ReaderKeepsUp
<1>3. CASE GoLive
  <2>1. /\ UNCHANGED <<chan, last, due, got>> /\ reader = "listed" /\ reader' \in {"live", "ended"}
    BY <1>3 DEF GoLive
  <2>2. due = NoPost /\ (Hears' => Hears)
    BY <2>1 DEF ReadInv, Hears, Cut, Mark, Item, Interrupt
  <2>3. ReaderKeepsUp'
    BY <1>r, <1>k, <1>p, <2>1, <2>2 DEF ReaderKeepsUp
  <2> QED BY <1>r, <1>i, <2>1, <2>2, <2>3 DEF ReadInv, InHand, Brings, Ordered, Carries, Late
<1>4. CASE Reconnect \/ Heartbeat
  <2>1. UNCHANGED <<last, due, got>> /\ reader' \in {"off", "gave_up"}
    BY <1>4 DEF Reconnect, Heartbeat
  <2>2. ReaderKeepsUp'
    BY <1>r, <1>k, <2>1 DEF ReaderKeepsUp
  <2> QED BY <1>r, <1>i, <2>1, <2>2 DEF ReadInv, Hears
<1>5. CASE HearEntry \/ HearResult \/ HearComplete \/ HearStatus
  <2>1. reader = "live" /\ chan # <<>> /\ chan' = Tail(chan) /\ chan \in Seq(Items)
        /\ Head(chan).kind # "overflow"
    BY <1>5 DEF HearEntry, HearResult, HearComplete, HearStatus, ChanInv
  <2>2. Hears
    BY <1>c, <2>1 DEF Hears
  <2>3. /\ Head(chan) \in Items /\ Valid(Head(chan))
    <3>1. Head(chan) \in Items /\ Head(chan) \in Range(chan)
      BY <2>1, HeadAndTail
    <3> QED BY <3>1 DEF ChanInv
  <2>4. ASSUME NEW s \in DOMAIN log, log[s].by # "user", s > last, ~Carries(Head(chan), s)
        PROVE  /\ ~Late(Head(chan), s)
               /\ (InHand(s) \/ Brings(chan, s))' /\ Ordered(chan, s)'
    <3>1. (InHand(s) \/ Brings(chan, s)) /\ Ordered(chan, s)
      BY <2>2, <2>4 DEF ReadInv
    <3>2. /\ ~Late(Head(chan), s) /\ Ordered(Tail(chan), s)
          /\ Brings(chan, s) => Brings(Tail(chan), s)
      BY <2>1, <2>4, <3>1, TailOrdered
    <3>3. Ordered(chan, s)'
      BY <1>r, <2>1, <3>2 DEF Ordered, Carries, Late
    <3> QED BY <1>r, <2>1, <3>1, <3>2, <3>3 DEF InHand, Brings, Carries
  <2>5. CASE HearEntry
    <3> DEFINE x == Head(chan)
    <3>1. /\ x.kind = "entry" /\ UNCHANGED <<reader, due>>
          /\ IF x.seq > last
               THEN /\ last' = x.seq
                    /\ got' = [s \in DOMAIN got \cup {x.seq} |->
                                 IF s = x.seq THEN x.entry ELSE got[s]]
               ELSE UNCHANGED <<last, got>>
      BY <2>5 DEF HearEntry
    <3>2. x.seq \in DOMAIN log /\ x.entry = log[x.seq] /\ x.seq \in Nat /\ x.seq <= top
      BY <1>i, <2>3, <3>1 DEF Valid, LogInv
    <3> HIDE DEF x
    <3>3. last' \in Nat \cup {-1} /\ last' <= top /\ last' >= last /\ x.seq <= last'
      BY <1>i, <3>1, <3>2
    <3>4. DOMAIN got' \subseteq 0 .. last'
      BY <1>i, <3>1, <3>2
    <3>5. ASSUME NEW s \in DOMAIN log, log[s].by # "user", s > last'
          PROVE  (InHand(s) \/ Brings(chan, s))' /\ Ordered(chan, s)'
      <4>1. s > last /\ ~Carries(x, s)
        BY <1>i, <3>2, <3>3, <3>5 DEF Carries
      <4> QED BY <2>4, <3>5, <4>1 DEF x
    <3>6. ASSUME NEW s \in DOMAIN log, s <= last', s \notin reused
          PROVE  \/ s \in DOMAIN got' /\ got'[s] = log[s]
                 \/ log[s].by = "user"
                 \/ \E t \in DOMAIN got' : t > s /\ got'[t].by = "user"
      <4>1. CASE s <= last
        <5>1. \A t \in DOMAIN got : t \in DOMAIN got' /\ got'[t] = got[t]
          <6>1. \A t \in DOMAIN got : t <= last
            BY <1>i
          <6> QED BY <1>i, <3>1, <3>2, <6>1
        <5> QED BY <1>k, <3>6, <4>1, <5>1
      <4>2. CASE s > last /\ log[s].by # "user"
        <5>1. x.seq > last /\ s <= x.seq
          BY <1>i, <3>1, <3>6, <4>2
        <5>2. CASE s = x.seq
          BY <3>1, <3>2, <5>1, <5>2
        <5>3. CASE s # x.seq
          <6>1. ~Carries(x, s)
            BY <5>3 DEF Carries
          <6>2. ~Late(x, s)
            BY <2>4, <4>2, <6>1 DEF x
          <6>3. x.entry.by = "user" /\ x.seq > s
            BY <1>i, <3>1, <3>2, <5>1, <5>3, <6>2 DEF Late
          <6>4. x.seq \in DOMAIN got' /\ got'[x.seq] = x.entry
            BY <3>1, <5>1
          <6> QED BY <6>3, <6>4
        <5> QED BY <5>2, <5>3
      <4> QED BY <1>i, <4>1, <4>2
    <3>7. ReaderKeepsUp'
      BY <1>r, <2>1, <3>1, <3>6 DEF ReaderKeepsUp
    <3> QED BY <1>r, <2>1, <3>1, <3>3, <3>4, <3>5, <3>7 DEF ReadInv
  <2>6. CASE HearResult
    <3>1. UNCHANGED <<reader, last, got>> /\ Head(chan).kind = "result"
      BY <2>6 DEF HearResult
    <3>2. ReaderKeepsUp'
      BY <1>r, <1>k, <2>1, <3>1 DEF ReaderKeepsUp
    <3>3. \A s : ~Carries(Head(chan), s)
      BY <3>1 DEF Carries
    <3> QED BY <1>r, <1>i, <2>1, <2>4, <3>1, <3>2, <3>3 DEF ReadInv
  <2>7. CASE HearComplete
    <3>1. /\ UNCHANGED <<last, due, got>> /\ Head(chan).kind = "complete"
          /\ reader' = IF due = NoPost THEN "live"
                       ELSE IF Head(chan).entry.of = due THEN "ended" ELSE "misled"
      BY <2>7 DEF HearComplete
    <3>2. PICK p \in Post : Over(p) /\ Head(chan).entry = AgentEntry(p)
      BY <2>3, <3>1 DEF Valid
    <3>3. Head(chan).entry.of = p
      BY <3>2 DEF AgentEntry
    <3>4. \A s : ~Carries(Head(chan), s)
      BY <3>1 DEF Carries
    <3>5. reader' = "ended" => due = p
      BY <3>1, <3>3
    <3>6. reader' = "ended" => \A s \in DOMAIN log : log[s] = AgentEntry(due) => s <= last
      <4> SUFFICES ASSUME due = p, NEW s \in DOMAIN log, log[s] = AgentEntry(p), s > last
                   PROVE  FALSE
        BY <1>i, <3>5
      <4>1. log[s].by # "user" /\ Late(Head(chan), s)
        BY <3>1, <3>2, Writers DEF Late
      <4> QED BY <2>4, <3>4, <4>1
    <3>7. ReaderKeepsUp'
      BY <1>r, <1>k, <3>1, <3>6 DEF ReaderKeepsUp
    <3>8. reader' = "ended" => (due = NoPost \/ Over(due))'
      BY <1>r, <3>1, <3>2, <3>5 DEF Over
    <3>9. reader' \notin {"subscribed", "listed"}
      BY <3>1
    <3> QED BY <1>r, <1>i, <2>4, <3>1, <3>4, <3>7, <3>8, <3>9 DEF ReadInv
  <2>8. CASE HearStatus
    <3>1. UNCHANGED <<last, due, got>> /\ reader' = "gave_up"
      BY <2>8 DEF HearStatus
    <3>2. ReaderKeepsUp'
      BY <1>r, <1>k, <3>1 DEF ReaderKeepsUp
    <3> QED BY <1>r, <1>i, <3>1, <3>2 DEF ReadInv, Hears
  <2> QED BY <1>5, <2>5, <2>6, <2>7, <2>8
<1> QED BY <1>1, <1>2, <1>3, <1>4, <1>5 DEF ReaderStep

(* What the agent writes reaches a reader without a gap, and a stream that *)
(* ends with its turn has come past all of the turn's entries: for every   *)
(* size of the subscriber's queue, every number of connections, and every  *)
(* order of what is logged, announced, withdrawn, broadcast and read.      *)
THEOREM ReaderMissesNothing == TimelineSpec => []ReaderKeepsUp
<1> DEFINE AllInv == LogInv /\ WorkInv /\ ChanInv /\ ReadInv
<1>1. TimelineInit => AllInv
  <2> SUFFICES ASSUME TimelineInit PROVE AllInv
    OBVIOUS
  <2>1. LogInv /\ WorkInv
    BY DEF TimelineInit, LogInv, WorkInv, Idle
  <2>2. ChanInv
    BY DEF TimelineInit, ChanInv, Range
  <2>3. ReadInv
    BY DEF TimelineInit, ReadInv, ReaderKeepsUp, Hears
  <2> QED BY <2>1, <2>2, <2>3
<1>2. AllInv /\ HolderInv /\ EndInv /\ SettleInv /\ LetterInv /\ [TimelineNext]_vars => AllInv'
  <2> SUFFICES ASSUME AllInv, HolderInv, EndInv, SettleInv, LetterInv, [TimelineNext]_vars
               PROVE  AllInv'
    OBVIOUS
  <2>1. LogInv' /\ WorkInv' /\ ChanInv'
    BY LogMoves, WorkStep, ChanStep
  <2>2. ReadInv'
    BY StepKinds, QuietKeeps, TellsKeeps, ReaderKeeps
  <2> QED BY <2>1, <2>2
<1>3. AllInv => ReaderKeepsUp
  BY DEF ReadInv
<1> QED BY <1>1, <1>2, <1>3, HoldersAlways, SettledAlways, LettersAlways, PTL DEF TimelineSpec

(***************************************************************************)
(* Turns, as those who post see them                                       *)
(***************************************************************************)

(* Each step of a session is one that SessionTurns allows.                 *)
LEMMA DeliveryStep ==
  ASSUME HolderInv, EndInv, SettleInv, LetterInv, [TimelineNext]_vars
  PROVE  [Delivery!Next]_(Delivery!turnVars)
<1>0. /\ DOMAIN post = Post /\ NoPost \notin Post
      /\ turn # NoPost => post[turn] = "accepted"
      /\ line \subseteq {p \in Post : post[p] = "waiting"}
  BY PostAssumption DEF HolderInv, LetterInv
<1>u. ASSUME UNCHANGED <<turn, up>>, \A p \in Post : Told(p)' = Told(p)
      PROVE  [Delivery!Next]_(Delivery!turnVars)
  BY <1>u DEF Delivery!turnVars
<1>1. ASSUME NEW p \in Post, Accept(p) \/ Escape(p) \/ Withdraw(p) \/ Fail(p)
      PROVE  [Delivery!Next]_(Delivery!turnVars)
  <2>1. /\ UNCHANGED <<turn, up>> /\ \A q \in Post : q # p => post'[q] = post[q]
        /\ \/ post[p] = "new" /\ post'[p] \in {"repeated", "logged"}
           \/ post[p] = "cut" /\ post'[p] = "escaped"
           \/ post[p] = "refused" /\ post'[p] = "withdrawn"
           \/ post[p] = "withdrawn" /\ post'[p] = "failed"
    BY <1>0, <1>1 DEF Accept, Escape, Withdraw, Fail, turnVars, up
  <2> QED BY <1>u, <2>1 DEF Told
<1>2. ASSUME NEW p \in Post, SendQuery(p)
      PROVE  [Delivery!Next]_(Delivery!turnVars)
  <2>0. /\ UNCHANGED <<turn, ending>> /\ \A q \in Post : q # p => post'[q] = post[q]
        /\ post[p] = "logged"
        /\ post'[p] = IF ending = "none" THEN "waiting"
                      ELSE IF ending = "failure" THEN "refused" ELSE "escaped"
    BY <1>0, <1>2 DEF SendQuery, EndInv
  <2>1. /\ UNCHANGED <<turn, up>> /\ \A q \in Post : q # p => post'[q] = post[q]
        /\ post[p] = "logged"
        /\ IF up THEN post'[p] = "waiting" ELSE post'[p] \in {"refused", "escaped"}
    BY <2>0 DEF up
  <2>2. CASE up
    BY <1>u, <2>1, <2>2 DEF Told
  <2>3. CASE ~up
    <3>1. /\ \A q \in Post : q # p => Told(q)' = Told(q)
          /\ Told(p) = "none" /\ Told(p)' = "error"
      BY <2>1, <2>3 DEF Told
    <3> QED BY <2>1, <2>3, <3>1 DEF Delivery!Next, Delivery!Refuse, Delivery!Final
  <2> QED BY <2>2, <2>3
<1>3. ASSUME NEW p \in Post, TurnStarts(p)
      PROVE  [Delivery!Next]_(Delivery!turnVars)
  <2>1. /\ up /\ up' /\ turn = NoPost /\ turn' = p /\ post[p] = "waiting"
        /\ post'[p] = "accepted" /\ \A q \in Post : q # p => post'[q] = post[q]
    BY <1>0, <1>3 DEF TurnStarts, up
  <2>2. /\ \A q \in Post : q # p => Told(q)' = Told(q)
        /\ Told(p) = "none" /\ Told(p)' = "sent"
    BY <1>0, <2>1 DEF Told
  <2> QED BY <2>1, <2>2 DEF Delivery!Next, Delivery!Proceed, Delivery!Advance
<1>4. CASE ResultComes
  <2>1. /\ up /\ up' /\ turn # NoPost /\ turn' = NoPost /\ UNCHANGED post
    BY <1>4 DEF ResultComes, up
  <2>2. /\ \A q \in Post : q # turn => Told(q)' = Told(q)
        /\ \A q \in Post : q = turn => Told(q) = "sent" /\ Told(q)' = "done"
    BY <1>0, <2>1 DEF Told
  <2>3. \A q \in Post : Delivery!Advance(q)
    BY <2>2 DEF Delivery!Advance
  <2>4. [p \in Post |-> Told(p)]'[turn] = "done"
    BY <2>1, <2>2 DEF SettleInv
  <2> QED BY <1>0, <2>1, <2>3, <2>4 DEF Delivery!Next, Delivery!Proceed
<1>5. CASE ActorFails \/ ActorCancelled
  <2>1. /\ up /\ ~up' /\ turn' = NoPost
        /\ \A p \in Post : p \notin line => post'[p] = post[p]
        /\ \A p \in line : post[p] = "waiting" /\ post'[p] \in {"lost", "refused", "cut"}
    BY <1>5, ActorEnds DEF up
  <2>2. \A p \in Post : \/ Told(p)' = Told(p)
                        \/ p = turn /\ Told(p) = "sent" /\ Told(p)' = "done"
                        \/ Told(p) = "none" /\ Told(p)' = "error"
    BY <1>0, <2>1 DEF Told
  <2> QED BY <2>1, <2>2 DEF Delivery!Next, Delivery!Close, Delivery!Advance, Delivery!Final
<1>6. CASE \/ InterruptSession \/ TurnSpeaks \/ PersistError \/ PersistClosed
           \/ LogMessage \/ AnnounceEntry \/ LogResult \/ CompleteTurn \/ PersistTurn
  <2>1. UNCHANGED <<post, turn, up>>
    BY <1>6 DEF InterruptSession, TurnSpeaks, PersistError, PersistClosed, LogMessage,
                AnnounceEntry, LogResult, CompleteTurn, PersistTurn, turnVars, up
  <2> QED BY <1>u, <2>1 DEF Told
<1>7. CASE ReaderStep \/ UNCHANGED vars
  <2>1. UNCHANGED <<post, turn, up>>
    BY <1>7, ReaderMoves DEF vars, turnVars, up
  <2> QED BY <1>u, <2>1 DEF Told
<1> QED BY <1>1, <1>2, <1>3, <1>4, <1>5, <1>6, <1>7
        DEF TimelineNext, PostStep, ActorStep, InboxStep

(* To those who post, a session is what SessionTurns says, as the task that*)
(* owns its client is: turns follow one another, a query is done when the  *)
(* SDK has ended its turn, and who is given the actor's end for an answer  *)
(* is given nothing else. A query that the end drops is given none at all. *)
THEOREM PostsTakeTurns == TimelineSpec => TakesTurns
<1>1. TimelineInit => Delivery!Init
  BY DEF TimelineInit, Delivery!Init, Told, up
<1>2. HolderInv /\ EndInv /\ SettleInv /\ LetterInv /\ [TimelineNext]_vars
        => [Delivery!Next]_(Delivery!turnVars)
  BY DeliveryStep
<1> QED BY <1>1, <1>2, HoldersAlways, SettledAlways, LettersAlways, PTL
        DEF TimelineSpec, TakesTurns, Delivery!Spec
=============================================================================
