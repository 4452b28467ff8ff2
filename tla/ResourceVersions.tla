-------------------------- MODULE ResourceVersions --------------------------
(***************************************************************************)
(* One generated resource (an image, a video), the versions kept of it and *)
(* the calls that replace it (src/lib/version_manager.py,                  *)
(* src/lib/media_generator.py, src/server/routers/shot_uploads.py and      *)
(* versions.py).                                                           *)
(*                                                                         *)
(* The resource has one canonical file, which every call overwrites in     *)
(* place, and versions.json, an index of the copies made of it: version n  *)
(* is the n-th entry, one of them is the current one.  A "produce" call is *)
(* a generation or an upload: it tracks an untracked file, writes its own  *)
(* output over it, then adds the file as a new version and uploads it.  A  *)
(* "restore" call copies a version back over the file.  The index is       *)
(* guarded by a lock, one per versions.json and process; the canonical     *)
(* file is not.  versions.json is written in place: a process that dies    *)
(* while it writes leaves it torn.                                         *)
(***************************************************************************)
EXTENDS Naturals, Sequences

CONSTANTS Call,        \* the calls; a call that produces writes itself
          Original,    \* what the file holds at first, if it exists
          NoFile,      \* what a file holds that does not exist
          Free,        \* the holder of the lock when nobody has it
          Torn,        \* an index that cannot be parsed
          MaxCrashes   \* bound: how often the server dies

ASSUME VersionsAssumption ==
  /\ Original \notin Call /\ NoFile \notin Call \cup {Original}
  /\ Free \notin Call
  /\ MaxCrashes \in Nat

VARIABLES
  stage,     \* [Call -> where the call is]
  file,      \* the canonical file
  index,     \* versions.json on disk: [now, versions], or Torn
  mutex,     \* the call that holds the lock of the index, or Free
  loaded,    \* [Call -> the index as the call has it in memory]
  next,      \* [Call -> where it goes on once the index is saved]
  remote,    \* the remote copies: [file, index]
  wrote,     \* the calls whose output has been written over the file
  answer,    \* [Call -> the version it has recorded, 0 if none]
  recorded,  \* [Call -> what that version held when it was recorded]
  spoiled,   \* some call has failed after it touched the file or the index
  deaths     \* how often the server has died

versionsVars == <<stage, file, index, mutex, loaded, next, remote, wrote, answer, recorded,
                  spoiled, deaths>>

Data == Call \cup {Original, NoFile}
Index == [now : Nat, versions : Seq(Data)]
Empty == [now |-> 0, versions |-> <<>>]

(* What cannot be parsed is no index. *)
ASSUME TornAssumption == Torn \notin Index

VersionsInit ==
  /\ stage = [c \in Call |-> "start"]
  /\ file \in {Original, NoFile}
  /\ index = Empty
  /\ mutex = Free
  /\ loaded = [c \in Call |-> Empty]
  /\ next = [c \in Call |-> "start"]
  /\ remote = [file |-> file, index |-> Empty]
  /\ wrote = {}
  /\ answer = [c \in Call |-> 0]
  /\ recorded = [c \in Call |-> NoFile]
  /\ spoiled = FALSE /\ deaths = 0

Goes(c, s) == stage' = [stage EXCEPT ![c] = s]
Released(c) == IF mutex = c THEN Free ELSE mutex

-----------------------------------------------------------------------------
(* with self._lock, then _load_versions; a torn file raises. *)
Loads(c, s) ==
  /\ mutex = Free
  /\ IF index = Torn
     THEN Goes(c, "done") /\ UNCHANGED <<mutex, loaded>>
     ELSE /\ Goes(c, s) /\ mutex' = c
          /\ loaded' = [loaded EXCEPT ![c] = index]

(* Mutant for the checks: whatever is there is simply written over. *)
TracksNothing(c) ==
  /\ stage[c] = "start"
  /\ Goes(c, "produce")
  /\ UNCHANGED <<file, index, mutex, loaded, next, remote, wrote, answer, recorded,
                 spoiled, deaths>>

(* ensure_current_tracked: a file that is not there, or whose resource has *)
(* a version already, needs nothing.                                       *)
NothingToTrack(c) ==
  /\ stage[c] = "start"
  /\ \/ file = NoFile
     \/ mutex = Free /\ index # Torn /\ index.now > 0
  /\ Goes(c, "produce")
  /\ UNCHANGED <<file, index, mutex, loaded, next, remote, wrote, answer, recorded, spoiled,
                 deaths>>

EnsureTracked(c) ==
  /\ stage[c] = "start" /\ file # NoFile
  /\ IF index = Torn THEN TRUE ELSE index.now = 0
  /\ Loads(c, "copy")
  /\ next' = [next EXCEPT ![c] = "produce"]
  /\ UNCHANGED <<file, index, remote, wrote, answer, recorded, spoiled, deaths>>

(* The backend, or the upload, writes the canonical file. *)
Produce(c) ==
  /\ stage[c] = "produce"
  /\ file' = c
  /\ wrote' = wrote \cup {c}
  /\ Goes(c, "add")
  /\ UNCHANGED <<index, mutex, loaded, next, remote, answer, recorded, spoiled, deaths>>

(* It fails before the file is written, or something fails after (the      *)
(* usage record of the call, a cancellation): the new file stays, without  *)
(* a version.                                                              *)
ProduceFails(c) ==
  /\ stage[c] = "produce"
  /\ \/ UNCHANGED <<file, spoiled>>
     \/ file' = c /\ spoiled' = TRUE
  /\ Goes(c, "done")
  /\ UNCHANGED <<index, mutex, loaded, next, remote, wrote, answer, recorded, deaths>>

(* Mutant for the checks: the index is loaded before the lock is taken. *)
AddVersionUnlocked(c) ==
  /\ stage[c] = "add"
  /\ index # Torn
  /\ loaded' = [loaded EXCEPT ![c] = index]
  /\ Goes(c, "copy")
  /\ next' = [next EXCEPT ![c] = "sync"]
  /\ UNCHANGED <<file, index, mutex, remote, wrote, answer, recorded, spoiled, deaths>>

AddVersion(c) ==
  /\ stage[c] = "add"
  /\ Loads(c, "copy")
  /\ next' = [next EXCEPT ![c] = "sync"]
  /\ spoiled' = (spoiled \/ index = Torn)
  /\ UNCHANGED <<file, index, remote, wrote, answer, recorded, deaths>>

(* The canonical file, as it is now, is copied to the file of the new      *)
(* version, whose number follows the greatest one; it becomes current.     *)
CopyCurrent(c) ==
  /\ stage[c] = "copy"
  /\ loaded' = [loaded EXCEPT ![c] = [now |-> Len(@.versions) + 1,
                                      versions |-> Append(@.versions, file)]]
  /\ Goes(c, "save")
  /\ UNCHANGED <<file, index, mutex, next, remote, wrote, answer, recorded, spoiled, deaths>>

(* The copy cannot be made, or its upload fails: nothing is recorded. *)
CopyFails(c) ==
  /\ stage[c] = "copy"
  /\ spoiled' = TRUE
  /\ Goes(c, "done")
  /\ mutex' = Released(c)
  /\ UNCHANGED <<file, index, loaded, next, remote, wrote, answer, recorded, deaths>>

(* restore_version: a version that exists is copied over the canonical     *)
(* file while the lock is held.                                            *)
Restore(c) ==
  /\ stage[c] = "start"
  /\ Loads(c, "replace")
  /\ UNCHANGED <<file, index, next, remote, wrote, answer, recorded, spoiled, deaths>>

(* Mutant for the checks: the index keeps pointing where it did. *)
ReplaceFileOnly(c) ==
  /\ stage[c] = "replace"
  /\ \E n \in 1..Len(loaded[c].versions) :
       /\ loaded[c].versions[n] # NoFile
       /\ file' = loaded[c].versions[n]
  /\ Goes(c, "upload")
  /\ next' = [next EXCEPT ![c] = "sync"]
  /\ UNCHANGED <<index, mutex, loaded, remote, wrote, answer, recorded, spoiled, deaths>>

ReplaceCurrent(c) ==
  /\ stage[c] = "replace"
  /\ \E n \in 1..Len(loaded[c].versions) :
       /\ loaded[c].versions[n] # NoFile
       /\ file' = loaded[c].versions[n]
       /\ loaded' = [loaded EXCEPT ![c].now = n]
  /\ Goes(c, "upload")
  /\ next' = [next EXCEPT ![c] = "sync"]
  /\ UNCHANGED <<index, mutex, remote, wrote, answer, recorded, spoiled, deaths>>

(* No such version, or its copy is gone: the call raises. *)
NoSuchVersion(c) ==
  /\ stage[c] = "replace"
  /\ Goes(c, "done")
  /\ mutex' = Free
  /\ UNCHANGED <<file, index, loaded, next, remote, wrote, answer, recorded, spoiled, deaths>>

-----------------------------------------------------------------------------
(* The canonical file is uploaded: under the lock by restore_version, and  *)
(* at the end of every call, without it.                                   *)
Upload(c) ==
  /\ \/ stage[c] = "upload" /\ Goes(c, "save")
     \/ stage[c] = "sync" /\ Goes(c, "done")
  /\ remote' = [remote EXCEPT !.file = file]
  /\ UNCHANGED <<file, index, mutex, loaded, next, wrote, answer, recorded, spoiled, deaths>>

(* The upload fails for good: the file goes back to its remote copy, if    *)
(* there is one, and the call raises (sync_project_paths).                 *)
UploadFails(c) ==
  /\ stage[c] \in {"upload", "sync"}
  /\ file' = IF remote.file = NoFile THEN file ELSE remote.file
  /\ spoiled' = TRUE
  /\ Goes(c, "done")
  /\ mutex' = Released(c)
  /\ UNCHANGED <<index, loaded, next, remote, wrote, answer, recorded, deaths>>

(* _save_versions: the index is truncated, ... *)
SaveBegins(c) ==
  /\ stage[c] = "save"
  /\ index' = Torn
  /\ Goes(c, "saving")
  /\ UNCHANGED <<file, mutex, loaded, next, remote, wrote, answer, recorded, spoiled, deaths>>

(* ... written and uploaded; the lock is released. *)
SaveEnds(c) ==
  /\ stage[c] = "saving"
  /\ index' = loaded[c]
  /\ remote' = [remote EXCEPT !.index = loaded[c]]
  /\ mutex' = Released(c)
  /\ answer' = [answer EXCEPT ![c] = loaded[c].now]
  /\ recorded' = [recorded EXCEPT ![c] = loaded[c].versions[loaded[c].now]]
  /\ Goes(c, next[c])
  /\ UNCHANGED <<file, loaded, next, wrote, spoiled, deaths>>

(* Its upload fails for good: the index goes back to the remote one, if    *)
(* there is one, and the call raises.                                      *)
SaveFails(c) ==
  /\ stage[c] = "saving"
  /\ index' = IF remote.index = Empty THEN loaded[c] ELSE remote.index
  /\ spoiled' = TRUE
  /\ mutex' = Released(c)
  /\ Goes(c, "done")
  /\ UNCHANGED <<file, loaded, next, remote, wrote, answer, recorded, deaths>>

(* The process dies: calls under way are gone, and the lock with them. *)
Die ==
  /\ deaths < MaxCrashes
  /\ deaths' = deaths + 1
  /\ \E c \in Call : stage[c] \notin {"start", "done"}
  /\ stage' = [c \in Call |-> IF stage[c] = "start" THEN "start" ELSE "done"]
  /\ mutex' = Free
  /\ UNCHANGED <<file, index, loaded, next, remote, wrote, answer, recorded, spoiled>>

CallStep(c) ==
  \/ NothingToTrack(c) \/ EnsureTracked(c) \/ Produce(c) \/ ProduceFails(c)
  \/ AddVersion(c) \/ CopyCurrent(c) \/ CopyFails(c)
  \/ Restore(c) \/ ReplaceCurrent(c) \/ NoSuchVersion(c)
  \/ Upload(c) \/ UploadFails(c)
  \/ SaveBegins(c) \/ SaveEnds(c) \/ SaveFails(c)

VersionsNext == (\E c \in Call : CallStep(c)) \/ Die

VersionsSpec == VersionsInit /\ [][VersionsNext]_versionsVars

-----------------------------------------------------------------------------
Stages == {"start", "copy", "produce", "add", "replace", "upload", "save", "saving",
           "sync", "done"}

(* The state's types; only the holder of the lock is between a load and a  *)
(* save.                                                                   *)
VersionsTypeOK ==
  /\ stage \in [Call -> Stages]
  /\ next \in [Call -> {"start", "produce", "sync"}]
  /\ file \in Data /\ remote.file \in Data
  /\ mutex \in Call \cup {Free}
  /\ index = Torn \/ index.now \in 0..Len(index.versions)
  /\ \A c \in Call :
       stage[c] \in {"copy", "replace", "upload", "save", "saving"} <=> mutex = c
  /\ spoiled \in BOOLEAN /\ deaths \in 0..MaxCrashes

(* A version that a call has been told of keeps its number and its         *)
(* content, whatever other calls add, restore or fail at, and whenever the *)
(* server dies, as long as the index can be read (add_version reads and    *)
(* writes the index under one lock, and copies the file before).           *)
EveryVersionStands ==
  index # Torn =>
    \A c \in Call : answer[c] > 0 =>
      /\ answer[c] <= Len(index.versions)
      /\ index.versions[answer[c]] = recorded[c]

(* When no call is under way the canonical file is the version the index   *)
(* calls current ("versions.json and the file on disk agree",              *)
(* media_generator.py), in whatever order generations, uploads and         *)
(* restores write the file and the index; unless one of them failed half   *)
(* way or the server died.                                                 *)
FileIsCurrentVersion ==
  (\A c \in Call : stage[c] \in {"start", "done"}) /\ ~spoiled /\ deaths = 0 /\ index.now > 0
    => file = index.versions[index.now]

(* A file that was there before any version was kept is a version before   *)
(* anything is written over it (ensure_current_tracked).                   *)
OriginalIsKept ==
  [][file = Original /\ file' # Original /\ index # Torn
       => \E n \in 1..Len(index.versions) : index.versions[n] = Original]_versionsVars

(* What a call has written over the file, and answered for, has a version: *)
(* the next call to overwrite the file "must not lose its bytes"           *)
(* (shot_uploads.py, upload_finalize.py).                                  *)
OutputsAreKept ==
  ~spoiled /\ deaths = 0 /\ index # Torn =>
    \A c \in wrote : stage[c] = "done"
      => \E n \in 1..Len(index.versions) : index.versions[n] = c

(* There is one way to lose an output: it is written over after its call   *)
(* wrote it, which is outside of the lock, and before that call copied it. *)
(* What is later written over, by a restore too, is a version in the index *)
(* or in what the holder of the lock is about to save.                     *)
HasVersion(c) ==
  \/ index # Torn /\ \E n \in 1..Len(index.versions) : index.versions[n] = c
  \/ \E d \in Call : mutex = d /\ \E n \in 1..Len(loaded[d].versions) : loaded[d].versions[n] = c

LostBeforeItsCopy ==
  [][~spoiled /\ deaths = 0 =>
       \A c \in wrote : file = c /\ file' # c
         => HasVersion(c) \/ stage[c] \in {"add", "copy"}]_versionsVars
=============================================================================
