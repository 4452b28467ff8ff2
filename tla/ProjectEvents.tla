--------------------------- MODULE ProjectEvents ---------------------------
(***************************************************************************)
(* How the open pages of one project hear of its changes                   *)
(* (src/server/services/project_events.py, src/server/sse_channel.py,      *)
(* src/frontend/src/hooks/useProjectEventsSSE.ts).                         *)
(*                                                                         *)
(* A project with readers has a channel: a set of bounded queues, the last *)
(* snapshot of the project and a watch task that scans the files again and *)
(* again and broadcasts what has changed.  A generation that ends sends a  *)
(* batch of changes, and a rebuild of the snapshot runs next to the watch  *)
(* task.  Both read the files in a thread and apply what was read later,   *)
(* on the event loop.  A page asks the server for the project again when   *)
(* an event, or the fingerprint of a new snapshot, tells it to.            *)
(*                                                                         *)
(* The project is abstracted to two counters: "doc" for all that a diff of *)
(* two snapshots shows of project.json and the scripts, "media" for what   *)
(* only the fingerprint shows (Differ).                                    *)
(***************************************************************************)
EXTENDS Naturals, Sequences

CONSTANTS Reader,       \* the streams' readers
          Page,         \* those of them whose page is followed, too
          Batch,        \* the batches that may be sent
          None,         \* no channel; no fingerprint
          QueueSize,    \* places in a reader's queue
          MaxChannels,  \* bound: how many channels are made
          MaxEdits,     \* bound: how often the files change
          MaxFaults     \* bound: scans that fail, connections lost and restarts
                        \* of the server, in all

ASSUME EventsAssumption ==
  /\ Page \subseteq Reader /\ QueueSize \in Nat \ {0} /\ MaxChannels \in Nat /\ None \notin Nat
  /\ MaxEdits \in Nat /\ MaxFaults \in Nat
  /\ None \notin [doc : 0..MaxEdits, media : 0..MaxEdits]

VARIABLES
  exists, disk,        \* is the project there; [doc, media]
  loose,               \* a script file is not in project.json yet
  current,             \* _channels[project_name]: the registered channel, or None
  subs,                \* [channel -> its subscribers]
  snapshot,            \* [channel -> the last snapshot, or None]
  ready,               \* [channel -> ready_event]
  watch, seen,         \* [channel -> where its task is, what the thread has read]
  saving,              \* how many script_saved are on their way to the event loop
  rebuild,             \* [Batch -> at: where it is, chan: its channel, seen]
  pc, at, queue,       \* [Reader -> where it is, its channel, its queue]
  told,                \* [Reader -> lastFingerprintRef]
  view, fetch, got, again, \* [Reader -> what the page shows; its request]
  warned,              \* the pages that have said that a request failed
  faults,              \* how much has gone wrong so far
  robbed               \* channels that readers of another one have unregistered

server == <<current, subs, snapshot, ready, watch, seen, saving>>
page == <<told, view, fetch, got, again, warned>>
reader == <<pc, at, queue>>
files == <<exists, disk, loose>>
counts == <<faults, robbed>>
eventsVars == <<files, server, rebuild, reader, page, counts>>

Channel == 1..MaxChannels
Fingerprint == [doc : 0..MaxEdits, media : 0..MaxEdits]
Changes(f) == [kind |-> "changes", print |-> f]
Unread == [doc |-> 0, media |-> 0]
Saved == [kind |-> "script_saved", print |-> None]
Deleted == [kind |-> "project_deleted", print |-> None]

EventsInit ==
  /\ exists = TRUE /\ disk = Unread /\ loose = FALSE
  /\ current = None
  /\ subs = [c \in Channel |-> {}]
  /\ snapshot = [c \in Channel |-> None]
  /\ ready = [c \in Channel |-> FALSE]
  /\ watch = [c \in Channel |-> "none"]
  /\ seen = [c \in Channel |-> disk] /\ saving = 0
  /\ rebuild = [b \in Batch |-> [at |-> "unsent", chan |-> None, seen |-> disk]]
  /\ pc = [r \in Reader |-> "out"]
  /\ at = [r \in Reader |-> None]
  /\ queue = [r \in Reader |-> <<>>]
  /\ told = [r \in Reader |-> None]
  /\ view = [r \in Reader |-> 0]
  /\ fetch = [r \in Reader |-> "idle"]
  /\ got = [r \in Reader |-> 0]
  /\ again = [r \in Reader |-> FALSE]
  /\ warned = {}
  /\ faults = 0 /\ robbed = {}

-----------------------------------------------------------------------------
(* SseChannel.broadcast with DropSubscriber: a full queue loses its place. *)
(* A queue whose reader has gone elsewhere stays where it is.              *)
Reached(c) == {r \in subs[c] : at[r] = c}
Full(c) == {r \in Reached(c) : Len(queue[r]) >= QueueSize}
Broadcast(c, m) ==
  /\ queue' = [r \in Reader |->
                 IF r \in Reached(c) \ Full(c) THEN Append(queue[r], m) ELSE queue[r]]
  /\ subs' = [subs EXCEPT ![c] = @ \ Full(c)]

(* ready_event.set(): every subscription that waits for it may go on.      *)
Woken(c) == [r \in Reader |-> IF pc[r] = "waiting" /\ at[r] = c THEN "woken" ELSE pc[r]]
Wakes(c) == ready' = [ready EXCEPT ![c] = TRUE] /\ pc' = Woken(c)

Running(c) == watch[c] \notin {"none", "ended"}
(* task.cancel(): the finally of the loop sets ready_event.                *)
Cancels(c) ==
  /\ watch' = [watch EXCEPT ![c] = IF Running(c) THEN "ended" ELSE @]
  /\ ready' = [ready EXCEPT ![c] = @ \/ Running(c)]

(* A mutant: a refresh that is asked for during another one is forgotten.  *)
RefreshesOnce(r) ==
  UNCHANGED again /\ fetch' = [fetch EXCEPT ![r] = IF r \in Page /\ @ = "idle" THEN "asked" ELSE @]
(* refreshProject: one request at a time, and one more if asked meanwhile. *)
Refreshes(r) ==
  IF r \in Page /\ fetch[r] # "idle"
  THEN again' = [again EXCEPT ![r] = TRUE] /\ UNCHANGED fetch
  ELSE UNCHANGED again /\ fetch' = [fetch EXCEPT ![r] = IF r \in Page THEN "asked" ELSE @]

(* onSnapshot, at the end of _subscribe.                                   *)
HearsSnapshot(r, f) ==
  /\ told' = [told EXCEPT ![r] = f]
  /\ IF told[r] # None /\ told[r] # f THEN Refreshes(r) ELSE UNCHANGED <<fetch, again>>
  /\ UNCHANGED <<view, got, warned>>

-----------------------------------------------------------------------------
(* The project's files.  Room keeps the sync of a loose script possible.    *)
Room == disk.doc + disk.media + (IF loose THEN 1 ELSE 0) < MaxEdits
Edit ==
  /\ exists /\ Room
  /\ disk' = [disk EXCEPT !.doc = @ + 1]
  /\ UNCHANGED <<exists, loose, server, rebuild, reader, page, counts>>
(* A script written past the project manager: no page sees it before it is *)
(* in project.json's list of episodes.                                     *)
EditLoosely ==
  /\ exists /\ ~loose /\ Room
  /\ loose' = TRUE
  /\ UNCHANGED <<exists, disk, server, rebuild, reader, page, counts>>
Overwrite ==
  /\ exists /\ Room
  /\ disk' = [disk EXCEPT !.media = @ + 1]
  /\ UNCHANGED <<exists, loose, server, rebuild, reader, page, counts>>
(* _write_script_unlocked: the file first, then script_saved, which the    *)
(* event loop broadcasts when it comes to it, to whatever channel it finds.*)
SaveScript ==
  /\ exists /\ Room
  /\ disk' = [disk EXCEPT !.doc = @ + 1]
  /\ saving' = saving + 1
  /\ UNCHANGED <<exists, loose, current, subs, snapshot, ready, watch, seen, rebuild,
                 reader, page, counts>>
BroadcastSaved ==
  /\ saving > 0
  /\ saving' = saving - 1
  /\ IF current = None THEN UNCHANGED <<queue, subs>> ELSE Broadcast(current, Saved)
  /\ UNCHANGED <<files, current, snapshot, ready, watch, seen, rebuild, pc, at, page, counts>>
Delete ==
  /\ exists
  /\ exists' = FALSE /\ loose' = FALSE
  /\ UNCHANGED <<disk, server, rebuild, reader, page, counts>>
Recreate ==
  /\ ~exists /\ Room
  /\ exists' = TRUE /\ disk' = [disk EXCEPT !.doc = @ + 1]
  /\ UNCHANGED <<loose, server, rebuild, reader, page, counts>>

-----------------------------------------------------------------------------
(* _rebuild_snapshot, in a thread: puts a loose script into project.json,  *)
(* then reads.                                                             *)
Reads ==
  /\ exists
  /\ disk' = [disk EXCEPT !.doc = IF loose THEN @ + 1 ELSE @]
  /\ loose' = FALSE
  /\ UNCHANGED exists

(* _watch_project: a task that starts has a subscriber; later it ends when *)
(* there is none.                                                          *)
Scans(c) == watch[c] = "scan" \/ (watch[c] = "wait" /\ subs[c] # {})
WatchEnds(c) ==
  /\ watch[c] = "wait" /\ subs[c] = {}
  /\ watch' = [watch EXCEPT ![c] = "ended"]
  /\ UNCHANGED <<files, current, subs, snapshot, ready, seen, saving, rebuild, reader, page, counts>>
ScanReads(c) ==
  /\ Scans(c)
  /\ Reads
  /\ seen' = [seen EXCEPT ![c] = disk']
  /\ watch' = [watch EXCEPT ![c] = "read"]
  /\ UNCHANGED <<current, subs, snapshot, ready, saving, rebuild, reader, page, counts>>

(* _diff_snapshots: doc is what the diff reports.  What it does not report *)
(* is in media: the times of the media files, an episode that is removed,  *)
(* the products, the title and the content mode of a script.               *)
Differ(f, g) == f.doc # g.doc

(* _apply_scan_result: the first result is taken silently, and so is one   *)
(* in which the diff finds nothing.                                        *)
ScanApplies(c) ==
  /\ watch[c] = "read"
  /\ snapshot' = [snapshot EXCEPT ![c] = seen[c]]
  /\ IF snapshot[c] # None /\ Differ(snapshot[c], seen[c])
     THEN Broadcast(c, Changes(seen[c]))
     ELSE UNCHANGED <<queue, subs>>
  /\ Wakes(c)
  /\ watch' = [watch EXCEPT ![c] = "wait"]
  /\ seen' = [seen EXCEPT ![c] = Unread]
  /\ UNCHANGED <<files, current, saving, rebuild, at, page, counts>>

ScanFails(c) ==
  /\ Scans(c) /\ faults < MaxFaults
  /\ faults' = faults + 1
  /\ Wakes(c)
  /\ watch' = [watch EXCEPT ![c] = "wait"]
  /\ UNCHANGED <<files, current, subs, snapshot, seen, saving, rebuild, at, queue, page,
                 robbed>>
(* A mutant: a missing directory is one more scan that failed.             *)
ScanShrugs(c) ==
  /\ Scans(c) /\ ~exists
  /\ Wakes(c)
  /\ watch' = [watch EXCEPT ![c] = "wait"]
  /\ UNCHANGED <<files, current, subs, snapshot, seen, saving, rebuild, at, queue, page, counts>>
(* FileNotFoundError, and the directory is really gone on a second look.   *)
(* If it is back by then, the scan has just failed.                        *)
ScanMisses(c) ==
  /\ Scans(c) /\ ~exists
  /\ watch' = [watch EXCEPT ![c] = "gone"]
  /\ UNCHANGED <<files, current, subs, snapshot, ready, seen, saving, rebuild, reader, page, counts>>

(* A mutant: it unregisters whatever channel has the project's name.       *)
UnregistersByName(c) == current' = None /\ Broadcast(c, Deleted)
(* _handle_project_deleted: only for the registered channel.               *)
Unregisters(c) ==
  IF current = c THEN current' = None /\ Broadcast(c, Deleted)
                 ELSE UNCHANGED <<current, queue, subs>>
WatchDeletes(c) ==
  /\ watch[c] = "gone"
  /\ Unregisters(c)
  /\ Wakes(c)
  /\ watch' = [watch EXCEPT ![c] = "ended"]
  /\ UNCHANGED <<files, snapshot, seen, saving, rebuild, at, page, counts>>

-----------------------------------------------------------------------------
(* _apply_emitted_batch and _async_rebuild_and_broadcast.                  *)
Finishes(b) == rebuild' = [rebuild EXCEPT ![b] = [at |-> "done", chan |-> None, seen |-> Unread]]
SendBatch(b) ==
  /\ rebuild[b].at = "unsent" /\ exists
  /\ rebuild' = [rebuild EXCEPT ![b].at = IF current = None THEN "done" ELSE "scan",
                                ![b].chan = current]
  /\ UNCHANGED <<files, server, reader, page, counts>>
RebuildReads(b) ==
  /\ rebuild[b].at = "scan"
  /\ Reads
  /\ rebuild' = [rebuild EXCEPT ![b].at = "read", ![b].seen = disk']
  /\ UNCHANGED <<server, reader, page, counts>>
(* A mutant: the batch is sent, the snapshot is left to the next scan.     *)
RebuildSends(b) ==
  /\ rebuild[b].at = "read"
  /\ Broadcast(rebuild[b].chan, Changes(rebuild[b].seen))
  /\ Finishes(b)
  /\ UNCHANGED <<files, current, snapshot, ready, watch, seen, saving, pc, at, page, counts>>
RebuildApplies(b) ==
  /\ rebuild[b].at = "read"
  /\ snapshot' = [snapshot EXCEPT ![rebuild[b].chan] = rebuild[b].seen]
  /\ Broadcast(rebuild[b].chan, Changes(rebuild[b].seen))
  /\ Finishes(b)
  /\ UNCHANGED <<files, current, ready, watch, seen, saving, pc, at, page, counts>>
RebuildFails(b) ==
  /\ rebuild[b].at = "scan" /\ faults < MaxFaults
  /\ faults' = faults + 1
  /\ Finishes(b)
  /\ UNCHANGED <<files, server, reader, page, robbed>>
RebuildMisses(b) ==
  /\ rebuild[b].at = "scan" /\ ~exists
  /\ rebuild' = [rebuild EXCEPT ![b].at = "gone"]
  /\ UNCHANGED <<files, server, reader, page, counts>>
RebuildDeletes(b) ==
  /\ rebuild[b].at = "gone"
  /\ Unregisters(rebuild[b].chan)
  /\ IF current = rebuild[b].chan
     THEN /\ Cancels(current)
          /\ pc' = IF Running(current) THEN Woken(current) ELSE pc
     ELSE UNCHANGED <<watch, ready, pc>>
  /\ Finishes(b)
  /\ UNCHANGED <<files, snapshot, seen, saving, at, page, counts>>

-----------------------------------------------------------------------------
(* _subscribe: the path is checked in a thread; then comes one step up to  *)
(* the wait for the first scan.                                            *)
Connect(r) ==
  /\ pc[r] = "out" /\ exists
  /\ pc' = [pc EXCEPT ![r] = "checked"]
  /\ UNCHANGED <<files, server, rebuild, at, queue, page, counts>>

(* A number whose channel nobody knows any more stands for a new channel.  *)
Unused(c) == /\ current # c /\ ~Running(c) /\ \A r \in Reader : at[r] # c
             /\ \A b \in Batch : rebuild[b].chan # c
Subscribe(r) ==
  LET isNew == current = None
      c == IF isNew THEN CHOOSE x \in Channel : Unused(x) ELSE current
      starts == isNew \/ (subs[c] = {} /\ ~Running(c))
      opens == ready[c] /\ ~starts
  IN /\ pc[r] = "checked"
     /\ isNew => \E x \in Channel : Unused(x)
     /\ current' = c
     /\ subs' = [subs EXCEPT ![c] = IF isNew THEN {r} ELSE @ \cup {r}]
     /\ snapshot' = [snapshot EXCEPT ![c] = IF isNew THEN None ELSE @]
     /\ watch' = [watch EXCEPT ![c] = IF starts THEN "scan" ELSE @]
     /\ ready' = [ready EXCEPT ![c] = opens]
     /\ at' = [at EXCEPT ![r] = c]
     /\ queue' = [queue EXCEPT ![r] = <<>>]
     /\ pc' = [pc EXCEPT ![r] = IF opens THEN "streaming" ELSE "waiting"]
     /\ IF opens THEN HearsSnapshot(r, snapshot[c]) ELSE UNCHANGED page
     /\ robbed' = IF isNew THEN robbed \ {c} ELSE robbed
     /\ UNCHANGED <<files, seen, saving, rebuild, faults>>
Resume(r) ==
  /\ pc[r] = "woken"
  /\ pc' = [pc EXCEPT ![r] = "streaming"]
  /\ HearsSnapshot(r, snapshot[at[r]])
  /\ UNCHANGED <<files, server, rebuild, at, queue, counts>>

(* r leaves channel c; without subscribers the channel that is registered  *)
(* goes, and the task of c with it.                                        *)
Parts(r, c, place) ==
  LET last == c # None /\ subs[c] \ {r} = {}
  IN /\ subs' = IF c = None THEN subs ELSE [subs EXCEPT ![c] = @ \ {r}]
     /\ IF last THEN Cancels(c) ELSE UNCHANGED <<watch, ready>>
     /\ current' = IF last THEN None ELSE current
     /\ pc' = [IF last /\ Running(c) THEN Woken(c) ELSE pc EXCEPT ![r] = place]
     /\ at' = [at EXCEPT ![r] = None]
     /\ queue' = [queue EXCEPT ![r] = <<>>]

(* The connection breaks before the first snapshot: the reader leaves its  *)
(* own channel, but what is unregistered is whatever has the name.         *)
GiveUp(r) ==
  /\ pc[r] \in {"checked", "waiting", "woken"} /\ faults < MaxFaults
  /\ faults' = faults + 1
  /\ Parts(r, at[r], "out")
  /\ robbed' = IF current' # current /\ current # at[r] THEN robbed \cup {current} ELSE robbed
  /\ UNCHANGED <<files, snapshot, seen, saving, rebuild, page>>

(* __aexit__ after that: _unsubscribe and _stop_watch take the channel     *)
(* that is registered now for the reader's own.                            *)
Break(r) ==
  /\ pc[r] = "streaming" /\ faults < MaxFaults
  /\ faults' = faults + 1
  /\ Parts(r, current, "out")
  /\ UNCHANGED <<files, snapshot, seen, saving, rebuild, page, robbed>>

(* The page's handlers: onChanges, onScriptSaved, onProjectDeleted.        *)
Hear(r) ==
  /\ pc[r] = "streaming" /\ queue[r] # <<>> /\ Head(queue[r]).kind # "project_deleted"
  /\ queue' = [queue EXCEPT ![r] = Tail(@)]
  /\ told' = [told EXCEPT ![r] = IF Head(queue[r]).kind = "changes" THEN Head(queue[r]).print
                                                                    ELSE @]
  /\ Refreshes(r)
  /\ UNCHANGED <<files, server, rebuild, pc, at, view, got, warned, counts>>
HearDeletion(r) ==
  /\ pc[r] = "streaming" /\ queue[r] # <<>> /\ Head(queue[r]).kind = "project_deleted"
  /\ Parts(r, current, "over")
  /\ UNCHANGED <<files, snapshot, seen, saving, rebuild, page, counts>>

(* The request of refreshProject: the server reads, the page takes it.     *)
FetchReads(r) ==
  /\ fetch[r] = "asked" /\ exists
  /\ fetch' = [fetch EXCEPT ![r] = "read"]
  /\ got' = [got EXCEPT ![r] = disk.doc]
  /\ UNCHANGED <<files, server, rebuild, reader, told, view, again, warned, counts>>
FetchTurns(r) ==
  /\ fetch' = [fetch EXCEPT ![r] = IF again[r] THEN "asked" ELSE "idle"]
  /\ again' = [again EXCEPT ![r] = FALSE]
  /\ got' = [got EXCEPT ![r] = 0]
FetchEnds(r) ==
  /\ fetch[r] = "read"
  /\ view' = [view EXCEPT ![r] = got[r]]
  /\ FetchTurns(r)
  /\ UNCHANGED <<files, server, rebuild, reader, told, warned, counts>>
(* No such project, or the server has gone meanwhile.                      *)
FetchFails(r) ==
  /\ fetch[r] = "failed" \/ (fetch[r] = "asked" /\ ~exists)
  /\ warned' = warned \cup {r}
  /\ FetchTurns(r)
  /\ UNCHANGED <<files, server, rebuild, reader, told, view, counts>>

(* shutdown and a new process: the connections end, the pages stay open.   *)
Restart ==
  /\ faults < MaxFaults /\ current # None
  /\ faults' = faults + 1
  /\ current' = None /\ saving' = 0
  /\ subs' = [c \in Channel |-> {}]
  /\ watch' = [c \in Channel |-> IF watch[c] = "none" THEN "none" ELSE "ended"]
  /\ rebuild' = [b \in Batch |-> IF rebuild[b].at = "unsent" THEN rebuild[b]
                                 ELSE [at |-> "done", chan |-> None, seen |-> Unread]]
  /\ pc' = [r \in Reader |-> IF pc[r] = "over" THEN "over" ELSE "out"]
  /\ at' = [r \in Reader |-> None]
  /\ queue' = [r \in Reader |-> <<>>]
  /\ fetch' = [r \in Reader |-> IF fetch[r] = "idle" THEN "idle" ELSE "failed"]
  /\ UNCHANGED <<files, snapshot, ready, seen, told, view, got, again, warned, robbed>>

-----------------------------------------------------------------------------
WatchStep(c) == WatchEnds(c) \/ ScanReads(c) \/ ScanApplies(c) \/ ScanMisses(c)
                \/ WatchDeletes(c)
RebuildStep(b) == RebuildReads(b) \/ RebuildApplies(b) \/ RebuildMisses(b)
                  \/ RebuildDeletes(b)
ReaderStep(r) == Connect(r) \/ Subscribe(r) \/ Resume(r) \/ Hear(r) \/ HearDeletion(r)
PageStep(r) == FetchReads(r) \/ FetchEnds(r) \/ FetchFails(r)
EventsNext ==
  \/ Edit \/ EditLoosely \/ Overwrite \/ SaveScript \/ BroadcastSaved \/ Delete \/ Recreate
  \/ Restart
  \/ \E c \in Channel : WatchStep(c) \/ ScanFails(c)
  \/ \E b \in Batch : SendBatch(b) \/ RebuildStep(b) \/ RebuildFails(b)
  \/ \E r \in Reader : ReaderStep(r) \/ PageStep(r) \/ GiveUp(r) \/ Break(r)
EventsSpec == EventsInit /\ [][EventsNext]_eventsVars

(* The event loop and its threads run what is ready; a page reconnects and *)
(* its requests are answered.                                              *)
FairEventsSpec ==
  /\ EventsSpec /\ WF_eventsVars(BroadcastSaved)
  /\ \A c \in Channel : WF_eventsVars(WatchStep(c))
  /\ \A b \in Batch : WF_eventsVars(RebuildStep(b))
  /\ \A r \in Reader : WF_eventsVars(ReaderStep(r))
  /\ \A r \in Page : WF_eventsVars(PageStep(r))

-----------------------------------------------------------------------------
EventsTypeOK ==
  /\ exists \in BOOLEAN /\ disk \in Fingerprint /\ loose \in BOOLEAN
  /\ current \in Channel \cup {None}
  /\ subs \in [Channel -> SUBSET Reader]
  /\ snapshot \in [Channel -> Fingerprint \cup {None}]
  /\ ready \in [Channel -> BOOLEAN]
  /\ watch \in [Channel -> {"none", "scan", "wait", "read", "gone", "ended"}]
  /\ seen \in [Channel -> Fingerprint] /\ saving \in Nat
  /\ rebuild \in [Batch -> [at : {"unsent", "scan", "read", "gone", "done"},
                            chan : Channel \cup {None}, seen : Fingerprint]]
  /\ pc \in [Reader -> {"out", "checked", "waiting", "woken", "streaming", "over"}]
  /\ at \in [Reader -> Channel \cup {None}]
  /\ \A r \in Reader : Len(queue[r]) <= QueueSize
  /\ told \in [Reader -> Fingerprint \cup {None}]
  /\ view \in [Reader -> 0..MaxEdits] /\ got \in [Reader -> 0..MaxEdits]
  /\ fetch \in [Reader -> {"idle", "asked", "read", "failed"}]
  /\ again \in [Reader -> BOOLEAN]

(* A subscriber; not one that a full queue has cost its place.              *)
Attached(r) == pc[r] \in {"waiting", "woken", "streaming"} /\ r \in subs[at[r]]
IsLastPrint(q, i) == q[i].kind = "changes" /\ \A j \in i+1..Len(q) : q[j].kind # "changes"
NoPrint(q) == \A i \in 1..Len(q) : q[i].kind # "changes"
SameDoc(f, g) == f # None /\ g # None /\ f.doc = g.doc

(* The watch task and any number of batch rebuilds read the files at their *)
(* leisure and write the snapshot in whatever order they come back, an     *)
(* older reading over a newer one if it so happens; readers come and break *)
(* off in between. Still, the last a reader has heard, or will have heard  *)
(* when its queue is empty, is the snapshot that the next scan is compared *)
(* with: nothing is diffed away that a reader has not been sent. A page    *)
(* that has only been told of no scan at all is the exception, and so are  *)
(* changes of media files alone (FingerprintIsTold).                       *)
LastWord ==
  \A r \in Reader : Attached(r) =>
    /\ \A i \in 1..Len(queue[r]) :
         IsLastPrint(queue[r], i) => SameDoc(queue[r][i].print, snapshot[at[r]])
    /\ pc[r] = "streaming" /\ NoPrint(queue[r]) =>
         told[r] = None \/ SameDoc(told[r], snapshot[at[r]])

(* A subscriber's channel is the registered one and its task is running,   *)
(* or the end of the project is in the subscriber's queue: _stop_watch     *)
(* ("a newcomer makes a channel of its own, which this removal does not    *)
(* take along"), _handle_project_deleted ("nor kill the new channel of a   *)
(* project made again") and _start_watch's restart. Not so for a channel   *)
(* that a reader of another one has unregistered (GiveUp).                 *)
ReadersAreServed ==
  \A r \in Reader : Attached(r) /\ at[r] \notin robbed =>
    \/ current = at[r] /\ Running(at[r])
    \/ \E i \in 1..Len(queue[r]) : queue[r][i] = Deleted

(* What is written to the project shows on an open page, whichever of      *)
(* scan, rebuild, script_saved and the snapshot of a new connection comes  *)
(* first, and although a refresh may be on its way with older data: unless *)
(* the page was told of no scan yet, has lost its place in the channel,    *)
(* has warned that a request failed, or the project is gone.               *)
ChangesAreShown ==
  \A r \in Page, d \in 1..MaxEdits :
    (told[r] # None /\ told[r].doc < d /\ disk.doc = d /\ exists)
      ~> \/ view[r] >= d
         \/ ~exists \/ told[r] = None \/ pc[r] = "over" \/ r \in warned
         \/ pc[r] = "streaming" /\ ~Attached(r)

(* Every subscriber of a project that stays deleted hears of it and goes.  *)
DeletionIsHeard ==
  \A r \in Reader : (Attached(r) /\ ~exists /\ at[r] \notin robbed)
                      ~> (~Attached(r) \/ exists \/ at[r] \in robbed)

(* "regenerating an asset which keeps the same relative path still         *)
(* produces a new fingerprint and triggers the SSE changes event"          *)
(* (_build_snapshot): the fingerprint is new, but the diff is empty and no *)
(* event is sent.                                                          *)
FingerprintIsTold ==
  \A r \in Reader : Attached(r) /\ pc[r] = "streaming" /\ NoPrint(queue[r]) =>
    told[r] = None \/ told[r] = snapshot[at[r]]
=============================================================================
