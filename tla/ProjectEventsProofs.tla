------------------------ MODULE ProjectEventsProofs ------------------------
(***************************************************************************)
(* What ProjectEvents promises, proved for every set of readers, of pages  *)
(* and of batches, for queues of any size and any number of channels, of   *)
(* edits and of faults.                                                    *)
(*                                                                         *)
(* The argument follows one reader.  Its subscription is good as long as   *)
(* its place in its channel is: a broadcast reaches it or takes the place  *)
(* away, so the last print it has been sent is the channel's snapshot,     *)
(* whoever wrote that.  And the channel loses its task only with its last  *)
(* reader, with its entry in the registry, or with a deletion that is in   *)
(* every queue by then.                                                    *)
(***************************************************************************)
EXTENDS ProjectEvents, SequenceTheorems, TLAPS

Message == {Saved, Deleted} \cup {Changes(f) : f \in Fingerprint}
Heard == Fingerprint \cup {None}
Subscribed == {"waiting", "woken", "streaming"}

(* What LastWord says of a reader with queue q at p, that was told t, and  *)
(* whose channel's snapshot is s.                                          *)
HasWord(q, p, t, s) ==
  /\ \A i \in 1..Len(q) : IsLastPrint(q, i) => SameDoc(q[i].print, s)
  /\ p = "streaming" /\ NoPrint(q) => t = None \/ SameDoc(t, s)

(***************************************************************************)
(* The inductive invariant                                                 *)
(***************************************************************************)

(* The types, part by part; the bound on edits counts a script that is     *)
(* still loose.                                                            *)
Files ==
  /\ exists \in BOOLEAN /\ loose \in BOOLEAN /\ disk \in Fingerprint
  /\ disk.doc + disk.media + (IF loose THEN 1 ELSE 0) <= MaxEdits
Channels ==
  /\ current \in Channel \cup {None} /\ subs \in [Channel -> SUBSET Reader]
  /\ snapshot \in [Channel -> Heard] /\ ready \in [Channel -> BOOLEAN]
  /\ watch \in [Channel -> {"none", "scan", "wait", "read", "gone", "ended"}]
  /\ seen \in [Channel -> Fingerprint] /\ saving \in Nat
(* A rebuild that is under way has a channel.                              *)
Rebuilds ==
  /\ rebuild \in [Batch -> [at : {"unsent", "scan", "read", "gone", "done"},
                            chan : Channel \cup {None}, seen : Fingerprint]]
  /\ \A b \in Batch : rebuild[b].at \in {"scan", "read", "gone"} => rebuild[b].chan \in Channel
(* A reader has a channel while it is subscribed, and no longer.           *)
Streams ==
  /\ pc \in [Reader -> Subscribed \cup {"out", "checked", "over"}]
  /\ at \in [Reader -> Channel \cup {None}]
  /\ queue \in [Reader -> Seq(Message)]
  /\ \A r \in Reader : Len(queue[r]) <= QueueSize
  /\ \A r \in Reader : IF pc[r] \in Subscribed THEN at[r] \in Channel ELSE at[r] = None
Pages ==
  /\ told \in [Reader -> Heard]
  /\ view \in [Reader -> 0..MaxEdits] /\ got \in [Reader -> 0..MaxEdits]
  /\ fetch \in [Reader -> {"idle", "asked", "read", "failed"}]
  /\ again \in [Reader -> BOOLEAN]

(* The registered channel, if it has any subscriber, has a task.           *)
TasksRun == current \in Channel => subs[current] = {} \/ Running(current)

IInv ==
  /\ Files /\ Channels /\ Rebuilds /\ Streams /\ Pages
  /\ TasksRun /\ LastWord /\ ReadersAreServed

(***************************************************************************)
(* Messages and queues                                                     *)
(***************************************************************************)

LEMMA Constants ==
  /\ None \notin Channel /\ None \notin Fingerprint
  /\ QueueSize \in Nat /\ QueueSize >= 1 /\ MaxEdits \in Nat /\ Page \subseteq Reader
<1>1. QueueSize \in Nat /\ QueueSize >= 1 /\ MaxEdits \in Nat /\ Page \subseteq Reader
  BY EventsAssumption
<1>2. None \notin Channel
  BY EventsAssumption DEF Channel
<1>3. None \notin Fingerprint
  BY EventsAssumption DEF Fingerprint
<1> QED
  BY <1>1, <1>2, <1>3

(* The kinds are all that a reader tells messages apart by.                *)
LEMMA MessageFacts ==
  /\ Saved \in Message /\ Saved.kind # "changes" /\ Saved # Deleted
  /\ Deleted \in Message /\ Deleted.kind # "changes"
  /\ \A f \in Fingerprint : /\ Changes(f) \in Message /\ Changes(f).kind = "changes"
                            /\ Changes(f).print = f /\ Changes(f) # Deleted
  /\ \A m \in Message : m.kind = "changes" => m.print \in Fingerprint
<1>1. Saved.kind = "script_saved" /\ Deleted.kind = "project_deleted"
  BY DEF Saved, Deleted
<1>2. \A f \in Fingerprint : Changes(f).kind = "changes" /\ Changes(f).print = f
  BY DEF Changes
<1>3. \A m \in Message : m \in {Saved, Deleted} \/ \E f \in Fingerprint : m = Changes(f)
  BY DEF Message
<1>4. Saved \in Message /\ Deleted \in Message /\ \A f \in Fingerprint : Changes(f) \in Message
  BY DEF Message
<1>5. ASSUME NEW m \in Message, m.kind = "changes"
      PROVE  m.print \in Fingerprint
  BY <1>1, <1>2, <1>3, <1>5
<1> QED
  BY <1>1, <1>2, <1>4, <1>5

(* Sending a print makes it the last word.                                 *)
LEMMA AppendPrint ==
  ASSUME NEW q \in Seq(Message), NEW f \in Fingerprint, NEW p, NEW t
  PROVE  HasWord(Append(q, Changes(f)), p, t, f)
<1> DEFINE a == Append(q, Changes(f))
<1>1. Len(a) = Len(q) + 1 /\ a[Len(q) + 1] = Changes(f) /\ Len(q) \in Nat
  BY MessageFacts
<1>2. SameDoc(f, f)
  BY Constants DEF SameDoc
<1>3. ASSUME NEW i \in 1..Len(a), IsLastPrint(a, i)
      PROVE  SameDoc(a[i].print, f)
  <2>1. i = Len(q) + 1
    BY <1>1, <1>3, MessageFacts DEF IsLastPrint
  <2> QED
    BY <2>1, <1>1, <1>2, MessageFacts
<1>4. ~NoPrint(a)
  BY <1>1, MessageFacts DEF NoPrint
<1> QED
  BY <1>3, <1>4 DEF HasWord

(* Sending anything else leaves it what it was.                            *)
LEMMA AppendOther ==
  ASSUME NEW q \in Seq(Message), NEW m \in {Saved, Deleted}, NEW p, NEW t, NEW s,
         HasWord(q, p, t, s)
  PROVE  HasWord(Append(q, m), p, t, s)
<1> DEFINE a == Append(q, m)
<1>1. /\ Len(a) = Len(q) + 1 /\ a[Len(q) + 1] = m /\ Len(q) \in Nat
      /\ \A i \in 1..Len(q) : a[i] = q[i]
  BY MessageFacts
<1>2. m.kind # "changes"
  BY MessageFacts
<1>3. ASSUME NEW i \in 1..Len(a), IsLastPrint(a, i)
      PROVE  SameDoc(a[i].print, s)
  <2>1. i \in 1..Len(q)
    BY <1>1, <1>2, <1>3 DEF IsLastPrint
  <2>2. IsLastPrint(q, i)
    BY <1>1, <1>3, <2>1 DEF IsLastPrint
  <2> QED
    BY <2>1, <2>2, <1>1 DEF HasWord
<1>4. NoPrint(a) => NoPrint(q)
  BY <1>1 DEF NoPrint
<1> QED
  BY <1>3, <1>4 DEF HasWord

(* Taking the next message, and its print if it has one.                   *)
LEMMA TakeNext ==
  ASSUME NEW q \in Seq(Message), q # <<>>, NEW t, NEW s,
         HasWord(q, "streaming", t, s)
  PROVE  HasWord(Tail(q), "streaming",
                 IF Head(q).kind = "changes" THEN Head(q).print ELSE t, s)
<1> DEFINE b == Tail(q)
           u == IF Head(q).kind = "changes" THEN Head(q).print ELSE t
<1>1. /\ Len(q) \in Nat /\ Len(q) >= 1 /\ Len(b) = Len(q) - 1 /\ Head(q) = q[1]
      /\ \A i \in 1..Len(b) : b[i] = q[i + 1] /\ i + 1 \in 1..Len(q)
      /\ \A i \in 2..Len(q) : i - 1 \in 1..Len(b) /\ q[i] = b[i - 1]
  OBVIOUS
<1>2. ASSUME NEW i \in 1..Len(b), IsLastPrint(b, i)
      PROVE  SameDoc(b[i].print, s)
  <2>1. IsLastPrint(q, i + 1)
    BY <1>1, <1>2 DEF IsLastPrint
  <2> QED
    BY <2>1, <1>1 DEF HasWord
<1>3. ASSUME NoPrint(b)
      PROVE  u = None \/ SameDoc(u, s)
  <2> HIDE DEF b
  <2>0. ASSUME NEW j \in 2..Len(q)
        PROVE  q[j].kind # "changes"
    BY <1>1, <1>3, <2>0 DEF NoPrint
  <2>1. CASE Head(q).kind = "changes"
    <3>1. IsLastPrint(q, 1)
      BY <1>1, <2>0, <2>1 DEF IsLastPrint
    <3>2. SameDoc(q[1].print, s)
      BY <3>1, <1>1 DEF HasWord
    <3> QED
      BY <3>2, <2>1, <1>1
  <2>2. CASE Head(q).kind # "changes"
    <3>1. NoPrint(q)
      BY <1>1, <2>0, <2>2 DEF NoPrint
    <3>2. t = None \/ SameDoc(t, s)
      BY <3>1 DEF HasWord
    <3> QED
      BY <3>2, <2>2
  <2> QED
    BY <2>1, <2>2
<1> QED
  BY <1>2, <1>3 DEF HasWord

(* A snapshot that shows no change, the first one, and the first word of a *)
(* stream.                                                                 *)
LEMMA SameSnapshot ==
  ASSUME NEW q, NEW p, NEW t, NEW s \in Heard, NEW f \in Fingerprint,
         HasWord(q, p, t, s), s = None \/ ~Differ(s, f)
  PROVE  HasWord(q, p, t, f)
BY Constants DEF HasWord, SameDoc, Differ

LEMMA FirstWord ==
  ASSUME NEW q, NEW p, NEW t, NEW s \in Heard, HasWord(q, p, t, s)
  PROVE  HasWord(q, "streaming", s, s)
BY DEF HasWord, SameDoc

LEMMA NewStream ==
  ASSUME NEW p, NEW t, NEW s, p = "waiting" \/ t = s
  PROVE  HasWord(<<>>, p, t, s)
BY DEF HasWord, SameDoc, NoPrint

(***************************************************************************)
(* What the steps share                                                    *)
(***************************************************************************)

LEMMA Frames ==
  /\ Files /\ UNCHANGED files => Files'
  /\ Channels /\ UNCHANGED server => Channels'
  /\ Rebuilds /\ UNCHANGED rebuild => Rebuilds'
  /\ Streams /\ UNCHANGED reader => Streams'
  /\ Pages /\ UNCHANGED page => Pages'
  /\ TasksRun /\ UNCHANGED <<current, subs, watch>> => TasksRun'
  /\ LastWord /\ UNCHANGED <<reader, subs, snapshot, told>> => LastWord'
  /\ ReadersAreServed /\ UNCHANGED <<reader, current, subs, watch, robbed>> => ReadersAreServed'
<1>1. Files /\ UNCHANGED files => Files'
  BY DEF Files, files
<1>2. Channels /\ UNCHANGED server => Channels'
  BY DEF Channels, server
<1>3. Rebuilds /\ UNCHANGED rebuild => Rebuilds'
  BY DEF Rebuilds
<1>4. Streams /\ UNCHANGED reader => Streams'
  BY DEF Streams, reader
<1>5. Pages /\ UNCHANGED page => Pages'
  BY DEF Pages, page
<1>6. TasksRun /\ UNCHANGED <<current, subs, watch>> => TasksRun'
  BY DEF TasksRun, Running
<1>7. LastWord /\ UNCHANGED <<reader, subs, snapshot, told>> => LastWord'
  BY DEF LastWord, reader, Attached
<1>8. ReadersAreServed /\ UNCHANGED <<reader, current, subs, watch, robbed>> => ReadersAreServed'
  BY DEF ReadersAreServed, reader, Attached, Running
<1> QED
  BY <1>1, <1>2, <1>3, <1>4, <1>5, <1>6, <1>7, <1>8

(* The two promises, one reader at a time.                                 *)
HasPlace(r) == \/ current = at[r] /\ Running(at[r])
               \/ \E i \in 1..Len(queue[r]) : queue[r][i] = Deleted

LEMMA Promises ==
  /\ LastWord <=> \A r \in Reader : Attached(r) =>
                    HasWord(queue[r], pc[r], told[r], snapshot[at[r]])
  /\ ReadersAreServed <=> \A r \in Reader : Attached(r) /\ at[r] \notin robbed => HasPlace(r)
BY DEF LastWord, ReadersAreServed, HasWord, HasPlace

(* The same of the next state.                                             *)
LEMMA NextPromises ==
  /\ LastWord' <=> \A r \in Reader : Attached(r)' =>
                     HasWord(queue'[r], pc'[r], told'[r], snapshot'[at'[r]])
  /\ ReadersAreServed' <=> \A r \in Reader : Attached(r)' /\ at'[r] \notin robbed' => HasPlace(r)'
BY DEF LastWord, ReadersAreServed, HasWord, HasPlace

(* ready_event.set() moves no reader into a stream.                        *)
LEMMA WokenKeeps ==
  ASSUME Streams, NEW c
  PROVE  /\ Woken(c) \in [Reader -> Subscribed \cup {"out", "checked", "over"}]
         /\ \A r \in Reader : /\ Woken(c)[r] \in Subscribed <=> pc[r] \in Subscribed
                              /\ Woken(c)[r] = "streaming" <=> pc[r] = "streaming"
                              /\ pc[r] \notin Subscribed => Woken(c)[r] = pc[r]
BY DEF Streams, Woken, Subscribed

(* A broadcast reaches every subscriber that keeps its place.              *)
LEMMA BroadcastReaches ==
  ASSUME Channels, Streams, NEW c \in Channel, NEW m \in Message, Broadcast(c, m)
  PROVE  /\ subs' \in [Channel -> SUBSET Reader]
         /\ \A d \in Channel : subs'[d] \subseteq subs[d]
         /\ queue' \in [Reader -> Seq(Message)]
         /\ \A r \in Reader : Len(queue'[r]) <= QueueSize
         /\ \A r \in Reader, d \in Channel : at[r] = d /\ r \in subs'[d] =>
              queue'[r] = IF d = c THEN Append(queue[r], m) ELSE queue[r]
         /\ \A r \in Reader : queue'[r] \in {queue[r], Append(queue[r], m)}
<1>1. subs' = [subs EXCEPT ![c] = @ \ Full(c)]
  BY DEF Broadcast
<1>2. queue' = [r \in Reader |->
                  IF r \in Reached(c) \ Full(c) THEN Append(queue[r], m) ELSE queue[r]]
  BY DEF Broadcast
<1>3. subs' \in [Channel -> SUBSET Reader] /\ \A d \in Channel : subs'[d] \subseteq subs[d]
  BY <1>1 DEF Channels
<1>4. ASSUME NEW r \in Reader
      PROVE  /\ queue'[r] \in Seq(Message) /\ Len(queue'[r]) <= QueueSize
             /\ queue'[r] \in {queue[r], Append(queue[r], m)}
  <2>1. queue[r] \in Seq(Message) /\ Len(queue[r]) <= QueueSize
    BY DEF Streams
  <2>2. CASE r \in Reached(c) \ Full(c)
    <3>1. ~(Len(queue[r]) >= QueueSize)
      BY <2>2 DEF Full
    <3>2. queue'[r] = Append(queue[r], m)
      BY <1>2, <2>2
    <3> QED
      BY <2>1, <3>1, <3>2, Constants
  <2>3. CASE r \notin Reached(c) \ Full(c)
    BY <1>2, <2>1, <2>3
  <2> QED
    BY <2>2, <2>3
<1>5. queue' \in [Reader -> Seq(Message)]
  BY <1>2, <1>4
<1>6. ASSUME NEW r \in Reader, NEW d \in Channel, at[r] = d, r \in subs'[d]
      PROVE  queue'[r] = IF d = c THEN Append(queue[r], m) ELSE queue[r]
  <2>1. CASE d = c
    <3>1. r \in subs[c] /\ r \notin Full(c)
      BY <1>1, <1>6, <2>1 DEF Channels
    <3>2. r \in Reached(c)
      BY <1>6, <2>1, <3>1 DEF Reached
    <3> QED
      BY <1>2, <2>1, <3>1, <3>2
  <2>2. CASE d # c
    <3>1. r \notin Reached(c)
      BY <1>6, <2>2 DEF Reached
    <3> QED
      BY <1>2, <2>2, <3>1
  <2> QED
    BY <2>1, <2>2
<1> QED
  BY <1>3, <1>4, <1>5, <1>6

(* Every message a queue held is in it after one is appended.              *)
LEMMA StaysDeleted ==
  ASSUME NEW q \in Seq(Message), NEW m \in Message, NEW p \in {q, Append(q, m)},
         \E i \in 1..Len(q) : q[i] = Deleted
  PROVE  \E i \in 1..Len(p) : p[i] = Deleted
<1>1. PICK i \in 1..Len(q) : q[i] = Deleted
  OBVIOUS
<1>2. i \in 1..Len(p) /\ p[i] = q[i]
  BY <1>1
<1> QED
  BY <1>1, <1>2

LEMMA ArrivesDeleted ==
  ASSUME NEW q \in Seq(Message)
  PROVE  \E i \in 1..Len(Append(q, Deleted)) : Append(q, Deleted)[i] = Deleted
<1>1. Len(q) + 1 \in 1..Len(Append(q, Deleted)) /\ Append(q, Deleted)[Len(q) + 1] = Deleted
  BY MessageFacts
<1> QED
  BY <1>1

(* The project counts as far as MaxEdits.                                  *)
LEMMA Counts ==
  ASSUME NEW f \in Fingerprint
  PROVE  /\ f.doc \in 0..MaxEdits /\ f.media \in 0..MaxEdits
         /\ f.doc + f.media < MaxEdits =>
              /\ [f EXCEPT !.doc = @ + 1] \in Fingerprint
              /\ [f EXCEPT !.doc = @ + 1].doc = f.doc + 1
              /\ [f EXCEPT !.doc = @ + 1].media = f.media
              /\ [f EXCEPT !.media = @ + 1] \in Fingerprint
              /\ [f EXCEPT !.media = @ + 1].doc = f.doc
              /\ [f EXCEPT !.media = @ + 1].media = f.media + 1
BY Constants DEF Fingerprint

OneMoreDoc == disk' = [disk EXCEPT !.doc = @ + 1]
OneMoreMedia == disk' = [disk EXCEPT !.media = @ + 1]

LEMMA Edited ==
  ASSUME Files, exists' \in BOOLEAN,
         \/ Room /\ loose' = loose /\ (OneMoreDoc \/ OneMoreMedia)
         \/ loose /\ loose' = FALSE /\ OneMoreDoc
         \/ Room /\ ~loose /\ loose' = TRUE /\ disk' = disk
         \/ disk' = disk /\ loose' = FALSE
  PROVE  Files'
<1> DEFINE d == disk.doc
           m == disk.media
<1>0. disk \in Fingerprint
  BY DEF Files
<1>1. d \in Nat /\ m \in Nat /\ MaxEdits \in Nat
  BY <1>0, Constants DEF Fingerprint
<1>2. d + m + (IF loose THEN 1 ELSE 0) <= MaxEdits
  BY DEF Files
<1>3. Room => d + m + (IF loose THEN 1 ELSE 0) < MaxEdits
  BY DEF Room
<1>4. Room \/ loose => d + m < MaxEdits
  BY <1>1, <1>2, <1>3
<1>5. loose' \in BOOLEAN /\ disk' \in Fingerprint
  <2>1. loose' \in BOOLEAN
    BY DEF Files
  <2>2. disk' \in Fingerprint
    BY <1>0, <1>4, Counts DEF OneMoreDoc, OneMoreMedia
  <2> QED
    BY <2>1, <2>2
<1>6. disk'.doc + disk'.media + (IF loose' THEN 1 ELSE 0) <= MaxEdits
  <2>1. CASE Room /\ loose' = loose /\ OneMoreDoc
    <3>1. disk'.doc = d + 1 /\ disk'.media = m
      BY <1>0, <1>4, <2>1, Counts DEF OneMoreDoc, OneMoreMedia
    <3> QED
      BY <1>1, <1>3, <2>1, <3>1
  <2>2. CASE Room /\ loose' = loose /\ OneMoreMedia
    <3>1. disk'.doc = d /\ disk'.media = m + 1
      BY <1>0, <1>4, <2>2, Counts DEF OneMoreDoc, OneMoreMedia
    <3> QED
      BY <1>1, <1>3, <2>2, <3>1
  <2>3. CASE loose /\ loose' = FALSE /\ OneMoreDoc
    <3>1. disk'.doc = d + 1 /\ disk'.media = m
      BY <1>0, <1>4, <2>3, Counts DEF OneMoreDoc, OneMoreMedia
    <3> QED
      BY <1>1, <1>2, <2>3, <3>1
  <2>4. CASE Room /\ ~loose /\ loose' = TRUE /\ disk' = disk
    BY <1>1, <1>3, <2>4
  <2>5. CASE disk' = disk /\ loose' = FALSE
    BY <1>1, <1>2, <2>5
  <2> QED
    BY <2>1, <2>2, <2>3, <2>4, <2>5
<1> QED
  BY <1>5, <1>6 DEF Files

(* The scan's first half keeps the bound on edits.                         *)
LEMMA ReadsKeepFiles ==
  ASSUME Files, Reads
  PROVE  Files'
<1>1. exists' \in BOOLEAN
  BY DEF Files, Reads
<1>2. CASE loose
  BY <1>1, <1>2, Edited DEF Reads, OneMoreDoc
<1>3. CASE ~loose
  <2>1. disk' = disk /\ loose' = FALSE
    BY <1>3 DEF Reads, Files, Fingerprint
  <2> QED
    BY <1>1, <2>1, Edited
<1> QED
  BY <1>2, <1>3

(***************************************************************************)
(* The project's files and the pages' requests                             *)
(***************************************************************************)

LEMMA FileStep ==
  ASSUME IInv, Edit \/ EditLoosely \/ Overwrite \/ Delete \/ Recreate
  PROVE  IInv'
<1>1. Files'
  <2>1. CASE Edit
    BY <2>1, Edited DEF IInv, Files, Edit, OneMoreDoc, OneMoreMedia
  <2>2. CASE EditLoosely
    BY <2>2, Edited DEF IInv, Files, EditLoosely
  <2>3. CASE Overwrite
    BY <2>3, Edited DEF IInv, Files, Overwrite, OneMoreDoc, OneMoreMedia
  <2>4. CASE Delete
    BY <2>4, Edited DEF IInv, Files, Delete
  <2>5. CASE Recreate
    BY <2>5, Edited DEF IInv, Files, Recreate, OneMoreDoc, OneMoreMedia
  <2> QED
    BY <2>1, <2>2, <2>3, <2>4, <2>5
<1>2. UNCHANGED <<server, rebuild, reader, page, counts>>
  BY DEF Edit, EditLoosely, Overwrite, Delete, Recreate
<1> QED
  BY <1>1, <1>2, Frames DEF IInv, server, page, counts

LEMMA PageStepKeeps ==
  ASSUME IInv, NEW r \in Reader, PageStep(r)
  PROVE  IInv'
<1>1. UNCHANGED <<files, server, rebuild, reader, told, counts>>
  BY DEF PageStep, FetchReads, FetchEnds, FetchFails
<1>2. Pages'
  <2>1. CASE FetchReads(r)
    BY <2>1, Counts DEF IInv, Files, Pages, FetchReads
  <2>2. CASE FetchEnds(r)
    BY <2>2, Constants DEF IInv, Pages, FetchEnds, FetchTurns
  <2>3. CASE FetchFails(r)
    BY <2>3, Constants DEF IInv, Pages, FetchFails, FetchTurns
  <2> QED
    BY <2>1, <2>2, <2>3 DEF PageStep
<1> QED
  BY <1>1, <1>2, Frames DEF IInv, server, counts

LEMMA SaveScriptStep ==
  ASSUME IInv, SaveScript
  PROVE  IInv'
<1>1. /\ UNCHANGED <<exists, loose, current, subs, snapshot, ready, watch, seen, rebuild,
                     reader, page, counts>>
      /\ saving' = saving + 1
  BY DEF SaveScript
<1>2. Files'
  BY Edited DEF IInv, Files, SaveScript, OneMoreDoc, OneMoreMedia
<1>3. Channels'
  BY <1>1 DEF IInv, Channels
<1> QED
  BY <1>1, <1>2, <1>3, Frames DEF IInv, page, counts

LEMMA BroadcastSavedStep ==
  ASSUME IInv, BroadcastSaved
  PROVE  IInv'
<1>1. UNCHANGED <<files, current, snapshot, ready, watch, seen, rebuild, pc, at, page, counts>>
  BY DEF BroadcastSaved
<1>2. Files' /\ saving' \in Nat
  BY Frames DEF IInv, Channels, BroadcastSaved
<1>3. CASE current = None
  <2>1. UNCHANGED <<queue, subs>>
    BY <1>3 DEF BroadcastSaved
  <2> QED
    <3>1. Channels'
      BY <1>1, <1>2, <2>1 DEF IInv, Channels
    <3> QED
      BY <1>1, <1>2, <2>1, <3>1, Frames DEF IInv, reader, page, counts
<1>4. CASE current # None
  <2>1. current \in Channel /\ Broadcast(current, Saved)
    BY <1>4 DEF BroadcastSaved, IInv, Channels
  <2>2. Channels' /\ Streams' /\ Pages' /\ Rebuilds' /\ TasksRun'
    BY <1>1, <1>2, <2>1, BroadcastReaches, MessageFacts, Frames
    DEF IInv, Channels, Streams, TasksRun, Running
  <2>3. ASSUME NEW r \in Reader, Attached(r)'
        PROVE  /\ Attached(r) /\ at'[r] = at[r] /\ at[r] \in Channel
               /\ queue'[r] \in {queue[r], Append(queue[r], Saved)}
               /\ queue[r] \in Seq(Message)
    BY <1>1, <2>1, <2>3, BroadcastReaches, MessageFacts
    DEF IInv, Streams, Attached, Subscribed
  <2>4. LastWord'
    BY <1>1, <2>3, AppendOther, Promises, NextPromises DEF IInv, page
  <2>5. ReadersAreServed'
    BY <1>1, <2>3, StaysDeleted, MessageFacts, Promises, NextPromises
    DEF IInv, counts, HasPlace, Running
  <2> QED
    BY <1>2, <2>2, <2>4, <2>5 DEF IInv
<1> QED
  BY <1>3, <1>4

(***************************************************************************)
(* The watch task                                                          *)
(***************************************************************************)

LEMMA WatchEndsStep ==
  ASSUME IInv, NEW c \in Channel, WatchEnds(c)
  PROVE  IInv'
<1>1. UNCHANGED <<files, current, subs, snapshot, ready, seen, saving, rebuild, reader, page, counts>>
  BY DEF WatchEnds
<1>2. subs[c] = {} /\ watch' = [watch EXCEPT ![c] = "ended"]
  BY DEF WatchEnds
<1>3. Channels' /\ TasksRun'
  BY <1>1, <1>2 DEF IInv, Channels, TasksRun, Running
<1>4. ReadersAreServed'
  <2>1. ASSUME NEW r \in Reader, Attached(r)'
        PROVE  Attached(r) /\ at[r] # c /\ watch'[at[r]] = watch[at[r]]
    BY <1>1, <1>2, <2>1 DEF reader, Attached, IInv, Streams, Channels, Subscribed
  <2> QED
    BY <1>1, <2>1, Promises, NextPromises DEF IInv, reader, counts, HasPlace, Running
<1> QED
  BY <1>1, <1>3, <1>4, Frames DEF IInv, reader, page

LEMMA ScanReadsStep ==
  ASSUME IInv, NEW c \in Channel, ScanReads(c)
  PROVE  IInv'
<1>1. UNCHANGED <<current, subs, snapshot, ready, saving, rebuild, reader, page, counts>>
  BY DEF ScanReads
<1>2. Files'
  BY ReadsKeepFiles DEF IInv, ScanReads
<1>3. watch' = [watch EXCEPT ![c] = "read"] /\ Running(c)
  BY DEF ScanReads, Scans, Running
<1>4. Channels'
  BY <1>1, <1>2 DEF IInv, Channels, Files, ScanReads
<1>5. \A d \in Channel : Running(d)' <=> Running(d)
  BY <1>3 DEF IInv, Channels, Running
<1>6. TasksRun' /\ ReadersAreServed'
  BY <1>1, <1>5 DEF IInv, TasksRun, ReadersAreServed, Attached, Streams, reader, counts, Subscribed
<1> QED
  BY <1>1, <1>2, <1>4, <1>6, Frames DEF IInv, page

(* A scan that failed, or has found the directory missing, changes nothing *)
(* that a reader is told.                                                  *)
LEMMA ScanFailsStep ==
  ASSUME IInv, NEW c \in Channel, ScanFails(c) \/ ScanMisses(c)
  PROVE  IInv'
<1>1. UNCHANGED <<files, current, subs, snapshot, seen, saving, rebuild, at, queue, page, robbed>>
  BY DEF ScanFails, ScanMisses, reader, counts
<1>2. Running(c) /\ \A d \in Channel : Running(d)' <=> Running(d)
  BY DEF ScanFails, ScanMisses, Scans, Running, IInv, Channels
<1>3. Channels'
  BY <1>1 DEF IInv, Channels, ScanFails, ScanMisses, Wakes
<1>4. pc' = Woken(c) \/ pc' = pc
  BY DEF ScanFails, ScanMisses, Wakes, reader
<1>5. Streams'
  BY <1>1, <1>4, WokenKeeps DEF IInv, Streams
<1>6. ASSUME NEW r \in Reader, Attached(r)'
      PROVE  Attached(r) /\ at[r] \in Channel /\ (pc'[r] = "streaming" => pc[r] = "streaming")
  BY <1>1, <1>4, <1>6, WokenKeeps DEF IInv, Streams, Attached, Subscribed
<1>7. LastWord'
  BY <1>1, <1>6 DEF IInv, LastWord, page
<1>8. TasksRun' /\ ReadersAreServed'
  BY <1>1, <1>2, <1>6 DEF IInv, TasksRun, ReadersAreServed
<1> QED
  BY <1>1, <1>3, <1>5, <1>7, <1>8, Frames DEF IInv

LEMMA ScanAppliesStep ==
  ASSUME IInv, NEW c \in Channel, ScanApplies(c)
  PROVE  IInv'
<1> DEFINE new == seen[c]
           differs == snapshot[c] # None /\ Differ(snapshot[c], new)
<1>1. UNCHANGED <<files, current, saving, rebuild, at, page, counts>>
  BY DEF ScanApplies
<1>2. new \in Fingerprint /\ Changes(new) \in Message /\ Unread \in Fingerprint
  BY MessageFacts, Constants DEF IInv, Channels, Unread, Fingerprint
<1>3. /\ snapshot' = [snapshot EXCEPT ![c] = new]
      /\ ready' = [ready EXCEPT ![c] = TRUE] /\ pc' = Woken(c)
      /\ watch' = [watch EXCEPT ![c] = "wait"] /\ watch[c] = "read"
      /\ seen' = [seen EXCEPT ![c] = Unread]
      /\ IF differs THEN Broadcast(c, Changes(new)) ELSE UNCHANGED <<queue, subs>>
  BY DEF ScanApplies, Wakes
<1>4. /\ subs' \in [Channel -> SUBSET Reader]
      /\ \A d \in Channel : subs'[d] \subseteq subs[d]
      /\ queue' \in [Reader -> Seq(Message)]
      /\ \A r \in Reader : Len(queue'[r]) <= QueueSize
      /\ \A r \in Reader : queue'[r] \in {queue[r], Append(queue[r], Changes(new))}
  BY <1>2, <1>3, BroadcastReaches DEF IInv, Channels, Streams
<1>5. Channels' /\ Streams'
  <2>1. Channels'
    <3>1. snapshot' \in [Channel -> Heard] /\ seen' \in [Channel -> Fingerprint]
      BY <1>2, <1>3 DEF IInv, Channels, Heard
    <3>2. /\ ready' \in [Channel -> BOOLEAN]
          /\ watch' \in [Channel -> {"none", "scan", "wait", "read", "gone", "ended"}]
      BY <1>3 DEF IInv, Channels
    <3> QED
      BY <1>1, <1>4, <3>1, <3>2 DEF IInv, Channels
  <2>2. Streams'
    BY <1>1, <1>3, <1>4, WokenKeeps DEF IInv, Streams
  <2> QED
    BY <2>1, <2>2
<1>6. \A d \in Channel : Running(d)' <=> Running(d)
  BY <1>3 DEF IInv, Channels, Running
<1>7. ASSUME NEW r \in Reader, Attached(r)'
      PROVE  /\ Attached(r) /\ at[r] \in Channel /\ r \in subs'[at[r]]
             /\ pc'[r] = "streaming" <=> pc[r] = "streaming"
  BY <1>1, <1>3, <1>4, <1>7, WokenKeeps DEF IInv, Streams, Attached, Subscribed
<1>8. TasksRun'
  BY <1>1, <1>4, <1>6 DEF IInv, TasksRun
<1>9. ReadersAreServed'
  <2>1. ASSUME NEW r \in Reader, Attached(r)', at'[r] \notin robbed'
        PROVE  HasPlace(r)'
    <3>1. HasPlace(r) /\ queue[r] \in Seq(Message)
      BY <1>1, <1>7, <2>1, Promises DEF IInv, counts, Streams
    <3>2. CASE \E i \in 1..Len(queue[r]) : queue[r][i] = Deleted
      BY <1>2, <1>4, <3>1, <3>2, StaysDeleted DEF HasPlace
    <3> QED
      BY <1>1, <1>6, <1>7, <2>1, <3>1, <3>2 DEF HasPlace
  <2> QED
    BY <2>1, NextPromises
<1>10. LastWord'
  <2>1. ASSUME NEW r \in Reader, Attached(r)'
        PROVE  HasWord(queue'[r], pc'[r], told'[r], snapshot'[at'[r]])
    <3>1. /\ HasWord(queue[r], pc[r], told[r], snapshot[at[r]])
          /\ queue[r] \in Seq(Message) /\ snapshot[at[r]] \in Heard
          /\ at'[r] = at[r] /\ told'[r] = told[r]
      BY <1>1, <1>7, <2>1, Promises DEF IInv, Streams, Channels, page
    <3>2. CASE at[r] = c /\ differs
      <4>1. queue'[r] = Append(queue[r], Changes(new))
        BY <1>2, <1>3, <1>7, <2>1, <3>2, BroadcastReaches DEF IInv
      <4>2. snapshot'[at'[r]] = new
        BY <1>3, <3>1, <3>2 DEF IInv, Channels
      <4> QED
        BY <1>2, <3>1, <4>1, <4>2, AppendPrint
    <3>3. CASE at[r] = c /\ ~differs
      <4>1. queue'[r] = queue[r] /\ snapshot'[at'[r]] = new
        BY <1>3, <3>1, <3>3 DEF IInv, Channels
      <4>2. HasWord(queue[r], pc[r], told[r], new)
        BY <1>2, <3>1, <3>3, SameSnapshot
      <4> QED
        BY <1>7, <2>1, <3>1, <4>1, <4>2 DEF HasWord
    <3>4. CASE at[r] # c
      <4>1. snapshot'[at'[r]] = snapshot[at[r]]
        BY <1>3, <3>1, <3>4 DEF IInv, Channels
      <4>2. queue'[r] = queue[r]
        BY <1>2, <1>3, <1>7, <2>1, <3>4, BroadcastReaches DEF IInv
      <4> QED
        BY <1>7, <2>1, <3>1, <4>1, <4>2 DEF HasWord
    <3> QED
      BY <3>2, <3>3, <3>4
  <2> QED
    BY <2>1, NextPromises
<1> QED
  BY <1>1, <1>5, <1>8, <1>9, <1>10, Frames DEF IInv

(* Either path to a deletion: whoever has a place in the channel that is   *)
(* unregistered has the end of the project in its queue.                   *)
LEMMA DeletionKeeps ==
  ASSUME IInv, NEW c \in Channel, Unregisters(c), UNCHANGED <<snapshot, at, page, robbed>>,
         pc' = pc \/ pc' = Woken(c), watch' = watch \/ watch' = [watch EXCEPT ![c] = "ended"]
  PROVE  /\ current' \in Channel \cup {None} /\ subs' \in [Channel -> SUBSET Reader]
         /\ Streams' /\ Pages' /\ TasksRun' /\ LastWord' /\ ReadersAreServed'
<1>1. /\ subs' \in [Channel -> SUBSET Reader]
      /\ \A d \in Channel : subs'[d] \subseteq subs[d]
      /\ queue' \in [Reader -> Seq(Message)]
      /\ \A r \in Reader : Len(queue'[r]) <= QueueSize
      /\ \A r \in Reader : queue'[r] \in {queue[r], Append(queue[r], Deleted)}
  BY BroadcastReaches, MessageFacts DEF Unregisters, IInv, Channels, Streams
<1>2. IF current = c THEN current' = None ELSE current' = current
  BY DEF Unregisters
<1>3. Streams'
  BY <1>1, WokenKeeps DEF IInv, Streams
<1>4. TasksRun'
  BY <1>1, <1>2, Constants DEF IInv, TasksRun, Channels, Running
<1>5. ASSUME NEW r \in Reader, Attached(r)'
      PROVE  /\ Attached(r) /\ at[r] \in Channel /\ r \in subs'[at[r]]
             /\ pc'[r] = "streaming" => pc[r] = "streaming"
             /\ queue[r] \in Seq(Message)
  BY <1>1, <1>5, WokenKeeps DEF IInv, Streams, Attached, Subscribed
<1>6. ASSUME NEW r \in Reader, Attached(r)'
      PROVE  HasWord(queue'[r], pc'[r], told'[r], snapshot'[at'[r]])
  <2>1. HasWord(queue[r], pc[r], told[r], snapshot[at[r]])
    BY <1>5, <1>6, Promises DEF IInv
  <2>2. HasWord(queue'[r], pc[r], told[r], snapshot[at[r]])
    <3>1. HasWord(Append(queue[r], Deleted), pc[r], told[r], snapshot[at[r]])
      BY <1>5, <1>6, <2>1, AppendOther
    <3> QED
      BY <1>1, <2>1, <3>1
  <2> QED
    BY <1>5, <1>6, <2>2 DEF HasWord, page
<1>7. ASSUME NEW r \in Reader, Attached(r)', at'[r] \notin robbed'
      PROVE  HasPlace(r)'
  <2>1. HasPlace(r)
    BY <1>5, <1>7, Promises DEF IInv
  <2>2. CASE \E i \in 1..Len(queue[r]) : queue[r][i] = Deleted
    BY <1>1, <1>5, <1>7, <2>2, StaysDeleted, MessageFacts DEF HasPlace
  <2>3. CASE current = at[r] /\ current = c
    <3>0. Broadcast(c, Deleted)
      BY <2>3 DEF Unregisters
    <3>1. queue'[r] = Append(queue[r], Deleted)
      <4>1. at[r] = c /\ r \in subs'[c] /\ Deleted \in Message /\ Channels /\ Streams
        BY <1>5, <1>7, <2>3, MessageFacts DEF IInv
      <4>2. \A s \in Reader, d \in Channel : at[s] = d /\ s \in subs'[d] =>
              queue'[s] = IF d = c THEN Append(queue[s], Deleted) ELSE queue[s]
        BY <3>0, <4>1, BroadcastReaches
      <4> QED
        BY <4>1, <4>2
    <3> QED
      BY <1>5, <1>7, <3>1, ArrivesDeleted DEF HasPlace
  <2>4. CASE current = at[r] /\ current # c /\ Running(at[r])
    BY <1>2, <1>5, <1>7, <2>4 DEF HasPlace, Running, IInv, Channels
  <2> QED
    BY <2>1, <2>2, <2>3, <2>4 DEF HasPlace
<1> QED
  BY <1>1, <1>2, <1>3, <1>4, <1>6, <1>7, NextPromises, Frames DEF IInv, Channels

LEMMA WatchDeletesStep ==
  ASSUME IInv, NEW c \in Channel, WatchDeletes(c)
  PROVE  IInv'
<1>1. /\ UNCHANGED <<files, snapshot, seen, saving, rebuild, at, page, counts>>
      /\ Unregisters(c) /\ pc' = Woken(c) /\ ready' = [ready EXCEPT ![c] = TRUE]
      /\ watch' = [watch EXCEPT ![c] = "ended"]
  BY DEF WatchDeletes, Wakes
<1>2. /\ current' \in Channel \cup {None} /\ subs' \in [Channel -> SUBSET Reader]
      /\ Streams' /\ Pages' /\ TasksRun' /\ LastWord' /\ ReadersAreServed'
  BY <1>1, DeletionKeeps DEF counts
<1>3. Channels'
  BY <1>1, <1>2 DEF IInv, Channels
<1> QED
  BY <1>1, <1>2, <1>3, Frames DEF IInv

(***************************************************************************)
(* The batches                                                             *)
(***************************************************************************)

LEMMA BatchWaits ==
  ASSUME IInv, NEW b \in Batch,
         SendBatch(b) \/ RebuildReads(b) \/ RebuildFails(b) \/ RebuildMisses(b)
  PROVE  IInv'
<1>1. UNCHANGED <<server, reader, page, robbed>>
  BY DEF SendBatch, RebuildReads, RebuildFails, RebuildMisses, counts
<1>2. Files'
  BY ReadsKeepFiles, Frames DEF IInv, SendBatch, RebuildReads, RebuildFails, RebuildMisses
<1>3. Unread \in Fingerprint /\ disk' \in Fingerprint
  BY <1>2, Constants DEF Files, Unread, Fingerprint
<1>4. Rebuilds'
  <2>1. CASE SendBatch(b)
    BY <2>1, Constants DEF IInv, Rebuilds, Channels, SendBatch
  <2>2. CASE RebuildReads(b)
    BY <1>3, <2>2 DEF IInv, Rebuilds, RebuildReads
  <2>3. CASE RebuildFails(b)
    BY <1>3, <2>3 DEF IInv, Rebuilds, RebuildFails, Finishes
  <2>4. CASE RebuildMisses(b)
    BY <2>4 DEF IInv, Rebuilds, RebuildMisses
  <2> QED
    BY <2>1, <2>2, <2>3, <2>4
<1> QED
  BY <1>1, <1>2, <1>4, Frames DEF IInv, server, page

LEMMA RebuildAppliesStep ==
  ASSUME IInv, NEW b \in Batch, RebuildApplies(b)
  PROVE  IInv'
<1> DEFINE c == rebuild[b].chan
           new == rebuild[b].seen
<1>1. c \in Channel /\ new \in Fingerprint /\ Unread \in Fingerprint
  BY Constants DEF RebuildApplies, IInv, Rebuilds, Unread, Fingerprint
<1>2. /\ UNCHANGED <<files, current, ready, watch, seen, saving, pc, at, page, counts>>
      /\ snapshot' = [snapshot EXCEPT ![c] = new]
      /\ Broadcast(c, Changes(new)) /\ Finishes(b)
  BY DEF RebuildApplies
<1> HIDE DEF c, new
<1>3. Changes(new) \in Message
  BY <1>1, MessageFacts
<1>4. Rebuilds'
  BY <1>1, <1>2 DEF IInv, Rebuilds, Finishes
<1>5. /\ subs' \in [Channel -> SUBSET Reader]
      /\ \A d \in Channel : subs'[d] \subseteq subs[d]
      /\ queue' \in [Reader -> Seq(Message)]
      /\ \A r \in Reader : Len(queue'[r]) <= QueueSize
      /\ \A r \in Reader : queue'[r] \in {queue[r], Append(queue[r], Changes(new))}
  BY <1>1, <1>2, <1>3, BroadcastReaches DEF IInv
<1>6. Channels' /\ Streams' /\ TasksRun'
  <2>1. snapshot' \in [Channel -> Heard]
    BY <1>1, <1>2 DEF IInv, Channels, Heard
  <2>2. Channels'
    BY <1>2, <1>5, <2>1 DEF IInv, Channels
  <2>3. Streams'
    BY <1>2, <1>5 DEF IInv, Streams
  <2>4. TasksRun'
    BY <1>2, <1>5 DEF IInv, TasksRun, Running
  <2> QED
    BY <2>2, <2>3, <2>4
<1>7. ASSUME NEW r \in Reader, Attached(r)'
      PROVE  /\ Attached(r) /\ at[r] \in Channel /\ r \in subs'[at[r]]
             /\ queue[r] \in Seq(Message) /\ at'[r] = at[r]
  BY <1>2, <1>5, <1>7 DEF IInv, Streams, Attached, Subscribed
<1>8. ReadersAreServed'
  <2>1. ASSUME NEW r \in Reader, Attached(r)', at'[r] \notin robbed'
        PROVE  HasPlace(r)'
    <3>1. HasPlace(r)
      BY <1>2, <1>7, <2>1, Promises DEF IInv, counts
    <3>2. CASE \E i \in 1..Len(queue[r]) : queue[r][i] = Deleted
      BY <1>3, <1>5, <1>7, <2>1, <3>2, StaysDeleted DEF HasPlace
    <3> QED
      BY <1>2, <1>7, <2>1, <3>1, <3>2 DEF HasPlace, Running
  <2> QED
    BY <2>1, NextPromises
<1>9. LastWord'
  <2>1. ASSUME NEW r \in Reader, Attached(r)'
        PROVE  HasWord(queue'[r], pc'[r], told'[r], snapshot'[at'[r]])
    <3>1. HasWord(queue[r], pc[r], told[r], snapshot[at[r]])
      BY <1>7, <2>1, Promises DEF IInv
    <3>2. queue'[r] = IF at[r] = c THEN Append(queue[r], Changes(new)) ELSE queue[r]
      BY <1>1, <1>2, <1>3, <1>7, <2>1, BroadcastReaches DEF IInv
    <3>3. snapshot'[at'[r]] = IF at[r] = c THEN new ELSE snapshot[at[r]]
      BY <1>2, <1>7, <2>1 DEF IInv, Channels
    <3>4. CASE at[r] = c
      BY <1>1, <1>7, <2>1, <3>2, <3>3, <3>4, AppendPrint
    <3>5. CASE at[r] # c
      BY <1>2, <3>1, <3>2, <3>3, <3>5 DEF page
    <3> QED
      BY <3>4, <3>5
  <2> QED
    BY <2>1, NextPromises
<1> QED
  BY <1>2, <1>4, <1>6, <1>8, <1>9, Frames DEF IInv

LEMMA RebuildDeletesStep ==
  ASSUME IInv, NEW b \in Batch, RebuildDeletes(b)
  PROVE  IInv'
<1> DEFINE c == rebuild[b].chan
<1>1. c \in Channel /\ Unread \in Fingerprint
  BY Constants DEF RebuildDeletes, IInv, Rebuilds, Unread, Fingerprint
<1>2. UNCHANGED <<files, snapshot, seen, saving, at, page, counts>> /\ Unregisters(c) /\ Finishes(b)
  BY DEF RebuildDeletes
<1>3. /\ pc' = pc \/ pc' = Woken(c)
      /\ watch' = watch \/ watch' = [watch EXCEPT ![c] = "ended"]
      /\ ready' \in [Channel -> BOOLEAN]
  BY DEF RebuildDeletes, Cancels, IInv, Channels
<1> HIDE DEF c
<1>4. Rebuilds'
  BY <1>1, <1>2 DEF IInv, Rebuilds, Finishes
<1>5. /\ current' \in Channel \cup {None} /\ subs' \in [Channel -> SUBSET Reader]
      /\ Streams' /\ Pages' /\ TasksRun' /\ LastWord' /\ ReadersAreServed'
  BY <1>1, <1>2, <1>3, DeletionKeeps DEF counts
<1>6. Channels'
  BY <1>2, <1>3, <1>5 DEF IInv, Channels
<1> QED
  BY <1>2, <1>4, <1>5, <1>6, Frames DEF IInv

(***************************************************************************)
(* The readers                                                             *)
(***************************************************************************)

LEMMA RefreshKeeps ==
  ASSUME Pages, NEW r \in Reader, Refreshes(r)
  PROVE  /\ fetch' \in [Reader -> {"idle", "asked", "read", "failed"}]
         /\ again' \in [Reader -> BOOLEAN]
BY DEF Pages, Refreshes

LEMMA SnapshotKeeps ==
  ASSUME Pages, NEW r \in Reader, NEW f \in Heard, HearsSnapshot(r, f)
  PROVE  Pages' /\ told' = [told EXCEPT ![r] = f]
BY RefreshKeeps DEF Pages, HearsSnapshot

LEMMA ConnectStep ==
  ASSUME IInv, NEW r \in Reader, Connect(r)
  PROVE  IInv'
<1>1. /\ UNCHANGED <<files, server, rebuild, at, queue, page, counts>>
      /\ pc[r] = "out" /\ pc' = [pc EXCEPT ![r] = "checked"]
  BY DEF Connect
<1>2. Streams'
  BY <1>1 DEF IInv, Streams, Subscribed
<1>3. \A s \in Reader : Attached(s)' => s # r /\ Attached(s) /\ pc'[s] = pc[s]
  BY <1>1 DEF IInv, Streams, Subscribed, Attached, server
<1>4. LastWord' /\ ReadersAreServed'
  BY <1>1, <1>3 DEF IInv, LastWord, ReadersAreServed, server, page, counts, Running
<1> QED
  BY <1>1, <1>2, <1>4, Frames DEF IInv, server

LEMMA ResumeStep ==
  ASSUME IInv, NEW r \in Reader, Resume(r)
  PROVE  IInv'
<1>1. /\ UNCHANGED <<files, server, rebuild, at, queue, counts>>
      /\ pc[r] = "woken" /\ pc' = [pc EXCEPT ![r] = "streaming"]
      /\ HearsSnapshot(r, snapshot[at[r]])
  BY DEF Resume
<1>2. at[r] \in Channel /\ snapshot[at[r]] \in Heard
  BY <1>1 DEF IInv, Streams, Channels, Subscribed
<1>3. Pages' /\ told' = [told EXCEPT ![r] = snapshot[at[r]]]
  BY <1>1, <1>2, SnapshotKeeps DEF IInv
<1>4. Streams'
  BY <1>1 DEF IInv, Streams, Subscribed
<1>5. \A s \in Reader : Attached(s)' => Attached(s)
  BY <1>1 DEF IInv, Streams, Attached, server
<1>6. ReadersAreServed'
  BY <1>1, <1>5 DEF IInv, ReadersAreServed, server, counts, Running
<1>7. ASSUME NEW s \in Reader, Attached(s)'
      PROVE  HasWord(queue'[s], pc'[s], told'[s], snapshot'[at'[s]])
  <2>1. HasWord(queue[s], pc[s], told[s], snapshot[at[s]])
    BY <1>5, <1>7, Promises DEF IInv
  <2>2. CASE s = r
    <3>1. pc'[r] = "streaming" /\ told'[r] = snapshot[at[r]]
      BY <1>1, <1>3 DEF IInv, Streams, Pages
    <3> QED
      BY <1>1, <1>2, <2>1, <2>2, <3>1, FirstWord DEF server
  <2>3. CASE s # r
    BY <1>1, <1>3, <2>1, <2>3 DEF server, IInv, Streams, Pages
  <2> QED
    BY <2>2, <2>3
<1> QED
  BY <1>1, <1>3, <1>4, <1>6, <1>7, NextPromises, Frames DEF IInv, server

LEMMA HearStep ==
  ASSUME IInv, NEW r \in Reader, Hear(r)
  PROVE  IInv'
<1> DEFINE q == queue[r]
           t == IF Head(q).kind = "changes" THEN Head(q).print ELSE told[r]
<1>1. /\ UNCHANGED <<files, server, rebuild, pc, at, view, got, warned, counts>>
      /\ pc[r] = "streaming" /\ q # <<>> /\ Head(q).kind # "project_deleted"
      /\ queue' = [queue EXCEPT ![r] = Tail(q)]
      /\ told' = [told EXCEPT ![r] = t] /\ Refreshes(r)
  BY DEF Hear
<1>2. q \in Seq(Message) /\ Len(q) <= QueueSize
  BY DEF IInv, Streams
<1>3. Head(q) \in Message /\ Tail(q) \in Seq(Message) /\ Len(Tail(q)) <= QueueSize
  BY <1>1, <1>2, Constants
<1>4. t \in Heard
  BY <1>3, MessageFacts DEF IInv, Pages, Heard
<1> HIDE DEF q, t
<1>5. Streams' /\ Pages'
  <2>1. Streams'
    BY <1>1, <1>3 DEF IInv, Streams
  <2>2. Pages'
    BY <1>1, <1>4, RefreshKeeps DEF IInv, Pages
  <2> QED
    BY <2>1, <2>2
<1>6. \A s \in Reader : Attached(s)' => Attached(s)
  BY <1>1 DEF Attached, server
<1>7. ASSUME NEW s \in Reader, Attached(s)'
      PROVE  HasWord(queue'[s], pc'[s], told'[s], snapshot'[at'[s]])
  <2>1. HasWord(queue[s], pc[s], told[s], snapshot[at[s]])
    BY <1>6, <1>7, Promises DEF IInv
  <2>2. CASE s = r
    <3>1. HasWord(Tail(q), "streaming", t, snapshot[at[r]])
      BY <1>1, <1>2, <2>1, <2>2, TakeNext DEF q, t
    <3>2. queue'[r] = Tail(q) /\ told'[r] = t
      BY <1>1 DEF IInv, Streams, Pages
    <3> QED
      BY <1>1, <2>2, <3>1, <3>2 DEF server
  <2>3. CASE s # r
    BY <1>1, <2>1, <2>3 DEF server, IInv, Streams, Pages
  <2> QED
    BY <2>2, <2>3
<1>8. ASSUME NEW s \in Reader, Attached(s)', at'[s] \notin robbed'
      PROVE  HasPlace(s)'
  <2>1. HasPlace(s)
    BY <1>1, <1>6, <1>8, Promises DEF IInv, counts
  <2>2. CASE s = r
    <3>1. queue'[r] = Tail(q)
      BY <1>1 DEF IInv, Streams
    <3>2. CASE \E i \in 1..Len(q) : q[i] = Deleted
      <4>1. PICK i \in 1..Len(q) : q[i] = Deleted
        BY <3>2
      <4>2. i # 1
        BY <1>1, <1>2, <4>1 DEF Deleted
      <4>3. i - 1 \in 1..Len(Tail(q)) /\ Tail(q)[i - 1] = Deleted
        BY <1>2, <4>1, <4>2
      <4> QED
        BY <2>2, <3>1, <4>3 DEF HasPlace
    <3>3. CASE current = at[r] /\ Running(at[r])
      BY <1>1, <2>2, <3>3 DEF HasPlace, Running, server
    <3> QED
      BY <2>1, <2>2, <3>2, <3>3 DEF HasPlace, q
  <2>3. CASE s # r
    <3>1. queue'[s] = queue[s]
      BY <1>1, <2>3 DEF IInv, Streams
    <3> QED
      BY <1>1, <2>1, <3>1 DEF HasPlace, Running, server
  <2> QED
    BY <2>2, <2>3
<1> QED
  BY <1>1, <1>5, <1>7, <1>8, NextPromises, Frames DEF IInv, server

(* A subscription, to the registered channel or to a new one.              *)
LEMMA SubscribeStep ==
  ASSUME IInv, NEW r \in Reader, Subscribe(r)
  PROVE  IInv'
<1> DEFINE isNew == current = None
           c == IF isNew THEN CHOOSE x \in Channel : Unused(x) ELSE current
           starts == isNew \/ (subs[c] = {} /\ ~Running(c))
           opens == ready[c] /\ ~starts
<1>1. /\ pc[r] = "checked" /\ current' = c
      /\ subs' = [subs EXCEPT ![c] = IF isNew THEN {r} ELSE @ \cup {r}]
      /\ snapshot' = [snapshot EXCEPT ![c] = IF isNew THEN None ELSE @]
      /\ watch' = [watch EXCEPT ![c] = IF starts THEN "scan" ELSE @]
      /\ ready' = [ready EXCEPT ![c] = opens]
      /\ at' = [at EXCEPT ![r] = c] /\ queue' = [queue EXCEPT ![r] = <<>>]
      /\ pc' = [pc EXCEPT ![r] = IF opens THEN "streaming" ELSE "waiting"]
      /\ IF opens THEN HearsSnapshot(r, snapshot[c]) ELSE UNCHANGED page
      /\ robbed' = IF isNew THEN robbed \ {c} ELSE robbed
      /\ UNCHANGED <<files, seen, saving, rebuild, faults>>
  BY DEF Subscribe
<1>2. c \in Channel /\ (isNew => Unused(c))
  <2>1. CASE isNew
    BY <2>1 DEF Subscribe
  <2>2. CASE ~isNew
    BY <2>2 DEF IInv, Channels
  <2> QED
    BY <2>1, <2>2
<1>3. snapshot[c] \in Heard /\ starts \in BOOLEAN /\ opens \in BOOLEAN
  BY <1>2 DEF IInv, Channels
<1>4. starts \/ Running(c)
  <2>1. CASE isNew
    BY <2>1
  <2>2. CASE ~isNew
    BY <1>2, <2>2 DEF IInv, TasksRun
  <2> QED
    BY <2>1, <2>2
<1> HIDE DEF starts, opens, c
<1>5. \A d \in Channel : Running(d) => watch'[d] \notin {"none", "ended"}
  BY <1>1, <1>2 DEF IInv, Channels, Running
<1>6. watch'[c] \notin {"none", "ended"}
  <2>1. CASE starts
    BY <1>1, <1>2, <2>1 DEF IInv, Channels
  <2>2. CASE ~starts
    BY <1>2, <1>4, <1>5, <2>2
  <2> QED
    BY <2>1, <2>2
<1>7. Channels'
  BY <1>1, <1>2, <1>3 DEF IInv, Channels, Heard
<1>8. Streams'
  BY <1>1, <1>2, <1>3, Constants DEF IInv, Streams, Subscribed
<1>9. Pages' /\ (IF opens THEN told' = [told EXCEPT ![r] = snapshot[c]] ELSE told' = told)
  BY <1>1, <1>3, SnapshotKeeps, Frames DEF IInv, page
<1>10. ASSUME NEW s \in Reader, s # r, Attached(s)'
       PROVE  /\ Attached(s) /\ at'[s] = at[s] /\ at[s] \in Channel /\ pc'[s] = pc[s]
              /\ queue'[s] = queue[s] /\ told'[s] = told[s]
              /\ isNew => at[s] # c
              /\ snapshot'[at[s]] = snapshot[at[s]]
  <2>1. at'[s] = at[s] /\ pc'[s] = pc[s] /\ queue'[s] = queue[s] /\ told'[s] = told[s]
    BY <1>1, <1>9, <1>10 DEF IInv, Streams, Pages
  <2>2. at[s] \in Channel
    BY <1>10, <2>1 DEF IInv, Streams, Attached, Subscribed
  <2>3. isNew => at[s] # c
    BY <1>2 DEF Unused
  <2>4. s \in subs[at[s]]
    BY <1>1, <1>2, <1>10, <2>1, <2>2, <2>3 DEF IInv, Channels, Attached
  <2>5. snapshot'[at[s]] = snapshot[at[s]]
    BY <1>1, <1>2, <2>2, <2>3 DEF IInv, Channels
  <2> QED
    BY <1>10, <2>1, <2>2, <2>3, <2>4, <2>5 DEF Attached
<1>11. TasksRun'
  BY <1>1, <1>6 DEF TasksRun, Running
<1>12. ReadersAreServed'
  <2>1. ASSUME NEW s \in Reader, Attached(s)', at'[s] \notin robbed'
        PROVE  HasPlace(s)'
    <3>1. CASE s = r
      <4>1. at'[r] = c
        BY <1>1 DEF IInv, Streams
      <4> QED
        BY <1>1, <1>6, <3>1, <4>1 DEF HasPlace, Running
    <3>2. CASE s # r
      <4>1. HasPlace(s)
        BY <1>1, <1>10, <2>1, <3>2, Promises DEF IInv
      <4>2. CASE \E i \in 1..Len(queue[s]) : queue[s][i] = Deleted
        BY <1>10, <2>1, <3>2, <4>2 DEF HasPlace
      <4>3. CASE current = at[s] /\ Running(at[s])
        <5>1. ~isNew
          BY <1>10, <2>1, <3>2, <4>3, Constants
        <5>2. current' = current
          BY <1>1, <5>1 DEF c
        <5> QED
          BY <1>5, <1>10, <2>1, <3>2, <4>3, <5>2 DEF HasPlace, Running
      <4> QED
        BY <4>1, <4>2, <4>3 DEF HasPlace
    <3> QED
      BY <3>1, <3>2
  <2> QED
    BY <2>1, NextPromises
<1>13. LastWord'
  <2>1. ASSUME NEW s \in Reader, Attached(s)'
        PROVE  HasWord(queue'[s], pc'[s], told'[s], snapshot'[at'[s]])
    <3>1. CASE s = r
      <4>1. at'[r] = c /\ queue'[r] = <<>> /\ pc'[r] = IF opens THEN "streaming" ELSE "waiting"
        BY <1>1 DEF IInv, Streams
      <4>2. CASE opens
        <5>1. ~isNew
          BY <4>2 DEF opens, starts
        <5>2. snapshot'[c] = snapshot[c] /\ told'[r] = snapshot[c]
          BY <1>1, <1>2, <1>9, <4>2, <5>1 DEF IInv, Channels, Pages
        <5> QED
          BY <3>1, <4>1, <5>2, NewStream
      <4>3. CASE ~opens
        BY <3>1, <4>1, <4>3, NewStream
      <4> QED
        BY <4>2, <4>3
    <3>2. CASE s # r
      BY <1>10, <2>1, <3>2, Promises DEF IInv
    <3> QED
      BY <3>1, <3>2
  <2> QED
    BY <2>1, NextPromises
<1> QED
  BY <1>1, <1>7, <1>8, <1>9, <1>11, <1>12, <1>13, Frames DEF IInv

(* Whoever leaves a channel takes no other reader's place away.            *)
LEMMA PartsKeeps ==
  ASSUME IInv, NEW r \in Reader, NEW c \in Channel \cup {None}, NEW place \in {"out", "over"},
         Parts(r, c, place), UNCHANGED <<files, snapshot, seen, saving, rebuild, page>>
  PROVE  /\ Files' /\ Channels' /\ Rebuilds' /\ Streams' /\ Pages' /\ TasksRun' /\ LastWord'
         /\ \A s \in Reader : Attached(s)' =>
              /\ s # r /\ Attached(s) /\ at'[s] = at[s] /\ queue'[s] = queue[s]
              /\ at[s] \in Channel /\ (current' # current => at[s] # c)
         /\ \/ current' = current /\ UNCHANGED watch
            \/ current' = None
<1> DEFINE last == c # None /\ subs[c] \ {r} = {}
<1>1. /\ subs' = IF c = None THEN subs ELSE [subs EXCEPT ![c] = @ \ {r}]
      /\ IF last THEN Cancels(c) ELSE UNCHANGED <<watch, ready>>
      /\ current' = IF last THEN None ELSE current
      /\ pc' = [IF last /\ Running(c) THEN Woken(c) ELSE pc EXCEPT ![r] = place]
      /\ at' = [at EXCEPT ![r] = None] /\ queue' = [queue EXCEPT ![r] = <<>>]
  BY DEF Parts
<1>2. /\ subs' \in [Channel -> SUBSET Reader]
      /\ \A d \in Channel : subs'[d] \subseteq subs[d]
      /\ last => subs'[c] = {}
  BY <1>1 DEF IInv, Channels
<1>3. /\ watch' \in [Channel -> {"none", "scan", "wait", "read", "gone", "ended"}]
      /\ ready' \in [Channel -> BOOLEAN]
      /\ \A d \in Channel : d # c => watch'[d] = watch[d]
      /\ ~last => UNCHANGED watch
  BY <1>1 DEF IInv, Channels, Cancels
<1>4. Channels'
  BY <1>1, <1>2, <1>3 DEF IInv, Channels
<1>5. /\ pc' \in [Reader -> Subscribed \cup {"out", "checked", "over"}]
      /\ pc'[r] = place
      /\ \A s \in Reader : s # r =>
           /\ pc'[s] \in Subscribed <=> pc[s] \in Subscribed
           /\ pc'[s] = "streaming" => pc[s] = "streaming"
  BY <1>1, WokenKeeps DEF IInv, Streams
<1>6. /\ at'[r] = None /\ queue'[r] = <<>>
      /\ \A s \in Reader : s # r => at'[s] = at[s] /\ queue'[s] = queue[s]
  BY <1>1 DEF IInv, Streams
<1>7. Streams'
  <2>1. at' \in [Reader -> Channel \cup {None}] /\ queue' \in [Reader -> Seq(Message)]
    BY <1>1 DEF IInv, Streams
  <2>2. \A s \in Reader : Len(queue'[s]) <= QueueSize
    BY <1>6, Constants DEF IInv, Streams
  <2>3. \A s \in Reader : IF pc'[s] \in Subscribed THEN at'[s] \in Channel ELSE at'[s] = None
    BY <1>5, <1>6 DEF IInv, Streams, Subscribed
  <2> QED
    BY <1>5, <2>1, <2>2, <2>3 DEF Streams
<1>8. ASSUME NEW s \in Reader, Attached(s)'
      PROVE  /\ s # r /\ Attached(s) /\ at'[s] = at[s] /\ queue'[s] = queue[s]
             /\ at[s] \in Channel /\ (last => at[s] # c)
             /\ pc'[s] = "streaming" => pc[s] = "streaming"
  <2>1. s # r
    BY <1>5, <1>8 DEF Attached
  <2> QED
    BY <1>2, <1>5, <1>6, <1>8, <2>1 DEF IInv, Streams, Attached, Subscribed
<1>9. TasksRun'
  <2>1. CASE last
    BY <1>1, <2>1, Constants DEF TasksRun
  <2>2. CASE ~last
    BY <1>1, <1>2, <1>3, <2>2 DEF IInv, TasksRun, Running
  <2> QED
    BY <2>1, <2>2
<1>10. LastWord'
  <2>1. ASSUME NEW s \in Reader, Attached(s)'
        PROVE  HasWord(queue'[s], pc'[s], told'[s], snapshot'[at'[s]])
    <3>1. HasWord(queue[s], pc[s], told[s], snapshot[at[s]])
      BY <1>8, <2>1, Promises DEF IInv
    <3> QED
      BY <1>8, <2>1, <3>1 DEF HasWord, page
  <2> QED
    BY <2>1, NextPromises
<1>11. Files' /\ Rebuilds' /\ Pages'
  BY Frames DEF IInv
<1>12. \/ current' = current /\ UNCHANGED watch
       \/ current' = None
  BY <1>1, <1>3
<1>13. current' # current => last
  BY <1>1
<1> HIDE DEF last
<1> QED
  <2>1. ASSUME NEW s \in Reader, Attached(s)'
        PROVE  /\ s # r /\ Attached(s) /\ at'[s] = at[s] /\ queue'[s] = queue[s]
               /\ at[s] \in Channel /\ (current' # current => at[s] # c)
    BY <1>8, <1>13, <2>1
  <2> QED
    BY <1>4, <1>7, <1>9, <1>10, <1>11, <1>12, <2>1

(* A stream that ends or breaks leaves the registered channel.             *)
LEMMA StreamEndsStep ==
  ASSUME IInv, NEW r \in Reader, HearDeletion(r) \/ Break(r)
  PROVE  IInv'
<1>1. /\ UNCHANGED <<files, snapshot, seen, saving, rebuild, page, robbed>>
      /\ (Parts(r, current, "out") \/ Parts(r, current, "over"))
      /\ current \in Channel \cup {None}
  BY DEF HearDeletion, Break, counts, IInv, Channels
<1>2. /\ Files' /\ Channels' /\ Rebuilds' /\ Streams' /\ Pages' /\ TasksRun' /\ LastWord'
      /\ \A s \in Reader : Attached(s)' =>
           /\ s # r /\ Attached(s) /\ at'[s] = at[s] /\ queue'[s] = queue[s]
           /\ at[s] \in Channel /\ (current' # current => at[s] # current)
      /\ \/ current' = current /\ UNCHANGED watch
         \/ current' = None
  BY <1>1, PartsKeeps
<1>3. ASSUME NEW s \in Reader, Attached(s)', at'[s] \notin robbed'
      PROVE  HasPlace(s)'
  <2>1. HasPlace(s)
    BY <1>1, <1>2, <1>3, Promises DEF IInv
  <2>2. CASE \E i \in 1..Len(queue[s]) : queue[s][i] = Deleted
    BY <1>2, <1>3, <2>2 DEF HasPlace
  <2>3. CASE current = at[s] /\ Running(at[s])
    <3>1. current' = current /\ UNCHANGED watch
      BY <1>2, <1>3, <2>3, Constants
    <3> QED
      BY <1>2, <1>3, <2>3, <3>1 DEF HasPlace, Running
  <2> QED
    BY <2>1, <2>2, <2>3 DEF HasPlace
<1> QED
  BY <1>2, <1>3, NextPromises DEF IInv

(* One that breaks before its first snapshot leaves its own, and robs the  *)
(* registered one, which it unregisters, of its future.                    *)
LEMMA GiveUpStep ==
  ASSUME IInv, NEW r \in Reader, GiveUp(r)
  PROVE  IInv'
<1>1. /\ UNCHANGED <<files, snapshot, seen, saving, rebuild, page>>
      /\ Parts(r, at[r], "out") /\ at[r] \in Channel \cup {None}
      /\ robbed' = IF current' # current /\ current # at[r] THEN robbed \cup {current} ELSE robbed
  BY DEF GiveUp, IInv, Streams
<1>2. /\ Files' /\ Channels' /\ Rebuilds' /\ Streams' /\ Pages' /\ TasksRun' /\ LastWord'
      /\ \A s \in Reader : Attached(s)' =>
           /\ s # r /\ Attached(s) /\ at'[s] = at[s] /\ queue'[s] = queue[s]
           /\ at[s] \in Channel /\ (current' # current => at[s] # at[r])
      /\ \/ current' = current /\ UNCHANGED watch
         \/ current' = None
  BY <1>1, PartsKeeps
<1>3. ASSUME NEW s \in Reader, Attached(s)', at'[s] \notin robbed'
      PROVE  HasPlace(s)'
  <2>1. HasPlace(s)
    BY <1>1, <1>2, <1>3, Promises DEF IInv
  <2>2. CASE \E i \in 1..Len(queue[s]) : queue[s][i] = Deleted
    BY <1>2, <1>3, <2>2 DEF HasPlace
  <2>3. CASE current = at[s] /\ Running(at[s])
    <3>1. current' = current
      BY <1>1, <1>2, <1>3, <2>3
    <3>2. UNCHANGED watch
      BY <1>2, <1>3, <2>3, <3>1, Constants
    <3> QED
      BY <1>2, <1>3, <2>3, <3>1, <3>2 DEF HasPlace, Running
  <2> QED
    BY <2>1, <2>2, <2>3 DEF HasPlace
<1> QED
  BY <1>2, <1>3, NextPromises DEF IInv

(* The server starts again, without a channel.                             *)
LEMMA RestartStep ==
  ASSUME IInv, Restart
  PROVE  IInv'
<1>1. /\ UNCHANGED <<files, snapshot, ready, seen, told, view, got, again, warned, robbed>>
      /\ current' = None /\ saving' = 0 /\ subs' = [c \in Channel |-> {}]
      /\ watch' = [c \in Channel |-> IF watch[c] = "none" THEN "none" ELSE "ended"]
      /\ rebuild' = [b \in Batch |-> IF rebuild[b].at = "unsent" THEN rebuild[b]
                                     ELSE [at |-> "done", chan |-> None, seen |-> Unread]]
      /\ pc' = [r \in Reader |-> IF pc[r] = "over" THEN "over" ELSE "out"]
      /\ at' = [r \in Reader |-> None] /\ queue' = [r \in Reader |-> <<>>]
      /\ fetch' = [r \in Reader |-> IF fetch[r] = "idle" THEN "idle" ELSE "failed"]
  BY DEF Restart
<1>2. Channels'
  BY <1>1 DEF IInv, Channels
<1>3. Rebuilds'
  BY <1>1, Constants DEF IInv, Rebuilds, Unread, Fingerprint
<1>4. Streams'
  BY <1>1, Constants DEF IInv, Streams, Subscribed
<1>5. Pages'
  BY <1>1 DEF IInv, Pages
<1>6. TasksRun'
  BY <1>1, Constants DEF TasksRun
<1>7. \A r \in Reader : ~Attached(r)'
  BY <1>1 DEF Attached
<1> QED
  BY <1>1, <1>2, <1>3, <1>4, <1>5, <1>6, <1>7, NextPromises, Frames DEF IInv

(***************************************************************************)
(* Together                                                                *)
(***************************************************************************)

LEMMA InitiallyTrue == EventsInit => IInv
<1> SUFFICES ASSUME EventsInit PROVE IInv
  OBVIOUS
<1>1. Unread \in Fingerprint /\ Unread.doc = 0 /\ Unread.media = 0
  BY Constants DEF Unread, Fingerprint
<1>2. Files
  <2>1. 0 + 0 + (IF FALSE THEN 1 ELSE 0) <= MaxEdits
    BY Constants
  <2> QED
    BY <1>1, <2>1 DEF EventsInit, Files
<1>3. Channels /\ TasksRun
  BY <1>1, Constants DEF EventsInit, Channels, TasksRun, Heard
<1>4. Rebuilds
  BY <1>1, Constants DEF EventsInit, Rebuilds
<1>5. Streams
  BY Constants DEF EventsInit, Streams, Subscribed
<1>6. Pages
  BY Constants DEF EventsInit, Pages, Heard
<1>7. LastWord /\ ReadersAreServed
  BY DEF EventsInit, LastWord, ReadersAreServed, Attached
<1> QED
  BY <1>2, <1>3, <1>4, <1>5, <1>6, <1>7 DEF IInv

LEMMA StepsKeep == IInv /\ [EventsNext]_eventsVars => IInv'
<1> SUFFICES ASSUME IInv, [EventsNext]_eventsVars PROVE IInv'
  OBVIOUS
<1>1. CASE UNCHANGED eventsVars
  BY <1>1, Frames DEF IInv, eventsVars, server, page, counts
<1>2. CASE Edit \/ EditLoosely \/ Overwrite \/ Delete \/ Recreate
  BY <1>2, FileStep
<1>3. CASE SaveScript \/ BroadcastSaved \/ Restart
  BY <1>3, SaveScriptStep, BroadcastSavedStep, RestartStep
<1>4. ASSUME NEW c \in Channel, WatchStep(c) \/ ScanFails(c)
      PROVE  IInv'
  BY <1>4, WatchEndsStep, ScanReadsStep, ScanAppliesStep, ScanFailsStep, WatchDeletesStep
  DEF WatchStep
<1>5. ASSUME NEW b \in Batch, SendBatch(b) \/ RebuildStep(b) \/ RebuildFails(b)
      PROVE  IInv'
  BY <1>5, BatchWaits, RebuildAppliesStep, RebuildDeletesStep DEF RebuildStep
<1>6. ASSUME NEW r \in Reader, ReaderStep(r) \/ PageStep(r) \/ GiveUp(r) \/ Break(r)
      PROVE  IInv'
  BY <1>6, ConnectStep, SubscribeStep, ResumeStep, HearStep, StreamEndsStep, GiveUpStep,
     PageStepKeeps DEF ReaderStep
<1> QED
  BY <1>1, <1>2, <1>3, <1>4, <1>5, <1>6 DEF EventsNext

(* The invariant holds in every reachable state.                           *)
THEOREM EventsInvariant == EventsSpec => []IInv
<1>1. EventsInit => IInv
  BY InitiallyTrue
<1>2. IInv /\ [EventsNext]_eventsVars => IInv'
  BY StepsKeep
<1> QED
  BY <1>1, <1>2, PTL DEF EventsSpec

(* Every variable has its type, and the files never change more often than *)
(* the bound says, scans that write project.json included.                 *)
THEOREM EventsTyping == EventsSpec => []EventsTypeOK
<1>1. IInv => EventsTypeOK
  BY DEF IInv, Files, Channels, Rebuilds, Streams, Pages, EventsTypeOK, Heard, Subscribed
<1> QED
  BY <1>1, EventsInvariant, PTL

(* Whatever order scans, rebuilds, readers and faults come in, the last    *)
(* print that a subscriber has been sent shows what its channel's snapshot *)
(* shows: the diffs of _apply_scan_result leave nothing out.               *)
THEOREM NothingIsDiffedAway == EventsSpec => []LastWord
<1>1. IInv => LastWord
  BY DEF IInv
<1> QED
  BY <1>1, EventsInvariant, PTL

(* Stopping, deleting and unregistering a channel leaves no subscriber     *)
(* without a running task and without the news of the end, but for those   *)
(* of a channel that the reader of another one has unregistered.           *)
THEOREM NobodyWaitsInVain == EventsSpec => []ReadersAreServed
<1>1. IInv => ReadersAreServed
  BY DEF IInv
<1> QED
  BY <1>1, EventsInvariant, PTL
=============================================================================
