---------------------------- MODULE ProjectFiles ----------------------------
(***************************************************************************)
(* The files of one project and the jobs that edit them                    *)
(* (src/lib/project_manager.py, src/lib/media_storage/service.py).         *)
(*                                                                         *)
(* project.json and the scripts are JSON files on the server's disk, each  *)
(* with an advisory lock of its own (a hidden .lock file held by flock) and *)
(* a copy in the object store, which is uploaded after every write.  A job *)
(* is one call that edits them:                                            *)
(*   "project"    update_project: read, mutate and write project.json;     *)
(*   "script"     locked_script: read, mutate and write a script, then     *)
(*                copy its title and its binding into project.json;        *)
(*   "generate"   save_script: the same with a script made from scratch;   *)
(*   "episode"    locked_episode_script: edit the script the episode is    *)
(*                bound to, under both locks;                              *)
(*   "read"       load_project.                                            *)
(*                                                                         *)
(* The content of a script is the set of jobs whose edits it carries.      *)
(* project.json carries a set of edits too, the script its one episode is  *)
(* bound to and the title copied from that script, that is, the content    *)
(* the script had when it was copied.  All scripts here are scripts of     *)
(* this episode.  An upload may fail, and fail for good; then the file on  *)
(* disk is replaced by the remote copy.  The server may die at any time.   *)
(*                                                                         *)
(* A job goes through a ProjectManager; every router, and many a call, has *)
(* one of its own.  The first job through each (get_project_path) puts the *)
(* remote copy over every file that differs from it, without either lock.  *)
(* The server's disk outlives the server, so that what has a remote copy   *)
(* is on it.                                                               *)
(***************************************************************************)
EXTENDS Naturals, FiniteSets

CONSTANTS Job,        \* the calls that edit the project
          Script,     \* the script files
          Project,    \* project.json
          Manager,    \* the instances of ProjectManager
          Bound,      \* the script the episode is bound to at first; it exists
          Plans,      \* what the jobs may be, a set of functions on Job
          Warm,       \* the sets of managers that may have the project at first
          Missing,    \* the content of a file that does not exist
          Nobody,     \* the holder of a lock that is free
          Attempts,   \* how often an upload is tried (_upload_file: 3)
          MaxCrashes  \* bound: how often the server dies

Kinds == {"project", "script", "generate", "episode", "read"}
File == Script \cup {Project}

ASSUME FilesAssumption ==
  /\ Project \notin Script /\ Bound \in Script
  /\ \A S \in SUBSET Job : S # Missing
  /\ Nobody \notin Job
  /\ Plans \subseteq [Job -> [kind : Kinds, script : Script, via : Manager]]
  /\ Warm \subseteq SUBSET Manager
  /\ Attempts \in Nat \ {0} /\ MaxCrashes \in Nat

VARIABLES
  plan,       \* [Job -> what the job does, to which script, through what]
  at,         \* [Job -> the step the job is at]
  script,     \* [Job -> the script it works on; the candidate of an episode job]
  mine,       \* [Job -> the script as it has it in memory]
  copy,       \* [Job -> project.json as it has it in memory]
  sending,    \* [Job -> the file it uploads]
  sent,       \* [Job -> the content it uploads or has downloaded, or the
              \*         remote copy whose hash it has been told]
  tries,      \* [Job -> failed attempts at the upload it is at]
  disk,       \* [File -> content]
  cloud,      \* [File -> content of the remote copy]
  lock,       \* [File -> the job that holds the file's lock]
  kept,       \* [File -> acknowledged edits no regeneration has replaced]
  failed,     \* the files an upload of which has failed for good or was cut off
  crashes,    \* how often the server has died
  warm,       \* _cloud_reconciled_projects: the managers that have the project
  todo,       \* [Job -> the files it has yet to compare with their copies]
  looked,     \* [Job -> the file it compares]
  raced,      \* the jobs whose comparison a write of the file overlaps (history)
  undone      \* the files such a job has put back (history)

local == <<script, mine, copy, sending, sent, tries>>
reconVars == <<warm, todo, looked, raced, undone>>
filesVars == <<plan, at, local, disk, cloud, lock, kept, failed, crashes, reconVars>>

ProjectContent == [edits : SUBSET Job, bound : Script, title : SUBSET Job]
ScriptContent == {Missing} \cup SUBSET Job
Content(f) == IF f = Project THEN ProjectContent \cup {Missing} ELSE ScriptContent
Reconciling == {"list", "stat", "fetch", "put"}
Steps == {"start", "found", "opened", "script", "sync", "project",
          "upload", "sent", "failed", "replace", "done"} \cup Reconciling

Kind(j) == plan[j].kind
Ready(j) == plan[j].via \in warm

-----------------------------------------------------------------------------
(* A new project: its first script exists, on disk and in the store. *)
Fresh == [f \in File |-> IF f = Project
                         THEN [edits |-> {}, bound |-> Bound, title |-> {}]
                         ELSE IF f = Bound THEN {} ELSE Missing]

FilesInit ==
  /\ plan \in Plans
  /\ at = [j \in Job |-> "start"]
  /\ script = [j \in Job |-> plan[j].script]
  /\ mine = [j \in Job |-> Missing]
  /\ copy = [j \in Job |-> Missing]
  /\ sending = [j \in Job |-> Project]
  /\ sent = [j \in Job |-> Missing]
  /\ tries = [j \in Job |-> 0]
  /\ disk = Fresh /\ cloud = Fresh
  /\ lock = [f \in File |-> Nobody]
  /\ kept = [f \in File |-> {}]
  /\ failed = {} /\ crashes = 0
  /\ warm \in Warm
  /\ todo = [j \in Job |-> {}]
  /\ looked = [j \in Job |-> Project]
  /\ raced = {} /\ undone = {}

(* The call returns, in whatever way: the with blocks release its locks,   *)
(* what it had in memory is gone.                                          *)
Leave(j) ==
  /\ at' = [at EXCEPT ![j] = "done"]
  /\ lock' = [f \in File |-> IF lock[f] = j THEN Nobody ELSE lock[f]]
  /\ mine' = [mine EXCEPT ![j] = Missing]
  /\ copy' = [copy EXCEPT ![j] = Missing]
  /\ sent' = [sent EXCEPT ![j] = Missing]
  /\ tries' = [tries EXCEPT ![j] = 0]
  /\ UNCHANGED <<plan, script, sending, crashes, reconVars>>

(* An exception leaves the with blocks before anything else is written. *)
Raise(j) == Leave(j) /\ UNCHANGED <<disk, cloud, kept, failed>>

-----------------------------------------------------------------------------
(* get_project_path, on the way to whatever the job does: through a manager*)
(* that has the project it returns at once.  Else materialize_project_data *)
(* lists the remote copies; jobs that come through a new manager together  *)
(* each do it.                                                             *)
GetProjectPath(j) ==
  /\ at[j] = "start" /\ ~Ready(j)
  /\ todo' = [todo EXCEPT ![j] = {f \in File : cloud[f] # Missing}]
  /\ at' = [at EXCEPT ![j] = "list"]
  /\ UNCHANGED <<plan, local, disk, cloud, lock, kept, failed, crashes, warm, looked,
                 raced, undone>>

(* A job between the write of a file and the end of its upload.            *)
Between(j, f) ==
  /\ at[j] \in {"upload", "sent", "failed", "replace"}
  /\ sending[j] = f

(* project_file_info: the remote copy's hash, ...                          *)
Stat(j, f) ==
  /\ at[j] = "list" /\ f \in todo[j]
  /\ looked' = [looked EXCEPT ![j] = f]
  /\ sent' = [sent EXCEPT ![j] = cloud[f]]
  /\ raced' = IF \E k \in Job : Between(k, f) THEN raced \cup {j} ELSE raced \ {j}
  /\ at' = [at EXCEPT ![j] = "stat"]
  /\ UNCHANGED <<plan, script, mine, copy, sending, tries, disk, cloud, lock, kept,
                 failed, crashes, warm, todo, undone>>

(* ... then the file's: it stays if they agree, ...                        *)
Compare(j) ==
  /\ at[j] = "stat"
  /\ IF disk[looked[j]] = sent[j]
       THEN /\ at' = [at EXCEPT ![j] = "list"]
            /\ todo' = [todo EXCEPT ![j] = @ \ {looked[j]}]
       ELSE /\ at' = [at EXCEPT ![j] = "fetch"]
            /\ UNCHANGED todo
  /\ sent' = [sent EXCEPT ![j] = Missing]
  /\ UNCHANGED <<plan, script, mine, copy, sending, tries, disk, cloud, lock, kept,
                 failed, crashes, warm, looked, raced, undone>>

(* The object's own lock, which only downloads take (_materialize).        *)
NoDownload(f) ==
  \A k \in Job : /\ ~(at[k] = "put" /\ looked[k] = f)
                 /\ ~(at[k] = "replace" /\ sending[k] = f)

(* ... and is fetched ...                                                  *)
Download(j) ==
  /\ at[j] = "fetch" /\ NoDownload(looked[j])
  /\ sent' = [sent EXCEPT ![j] = cloud[looked[j]]]
  /\ at' = [at EXCEPT ![j] = "put"]
  /\ UNCHANGED <<plan, script, mine, copy, sending, tries, disk, cloud, lock, kept,
                 failed, crashes, reconVars>>

(* ... and put in the file's place if they do not.                         *)
Put(j) ==
  /\ at[j] = "put"
  /\ LET f == looked[j]
     IN  /\ disk' = [disk EXCEPT ![f] = sent[j]]
         /\ undone' = IF j \in raced /\ disk[f] # sent[j] THEN undone \cup {f} ELSE undone
         /\ todo' = [todo EXCEPT ![j] = @ \ {f}]
  /\ sent' = [sent EXCEPT ![j] = Missing]
  /\ at' = [at EXCEPT ![j] = "list"]
  /\ UNCHANGED <<plan, script, mine, copy, sending, tries, cloud, lock, kept,
                 failed, crashes, warm, looked, raced>>

(* All is compared: the manager has the project, and the job begins.       *)
Reconciled(j) ==
  /\ at[j] = "list" /\ todo[j] = {}
  /\ warm' = warm \cup {plan[j].via}
  /\ looked' = [looked EXCEPT ![j] = Project]
  /\ raced' = raced \ {j}
  /\ at' = [at EXCEPT ![j] = "start"]
  /\ UNCHANGED <<plan, local, disk, cloud, lock, kept, failed, crashes, todo, undone>>

(* The store does not answer: the call raises, its manager stays as it was.*)
ReconcileFails(j) ==
  /\ at[j] \in Reconciling
  /\ at' = [at EXCEPT ![j] = "done"]
  /\ todo' = [todo EXCEPT ![j] = {}]
  /\ looked' = [looked EXCEPT ![j] = Project]
  /\ sent' = [sent EXCEPT ![j] = Missing]
  /\ raced' = raced \ {j}
  /\ UNCHANGED <<plan, script, mine, copy, sending, tries, disk, cloud, lock, kept,
                 failed, crashes, warm, undone>>

(* load_project holds the project's lock only while it reads.              *)
ReadProject(j) ==
  /\ at[j] = "start" /\ Kind(j) = "read" /\ Ready(j)
  /\ lock[Project] = Nobody
  /\ Raise(j)

-----------------------------------------------------------------------------
(* locked_episode_script: the candidate comes from load_project, which     *)
(* holds the project's lock only while it reads.                           *)
FindScript(j) ==
  /\ at[j] = "start" /\ Kind(j) = "episode" /\ Ready(j)
  /\ lock[Project] = Nobody
  /\ script' = [script EXCEPT ![j] = disk[Project].bound]
  /\ at' = [at EXCEPT ![j] = "found"]
  /\ UNCHANGED <<plan, mine, copy, sending, sent, tries, disk, cloud, lock, kept,
                 failed, crashes, reconVars>>

(* _script_lock, then load_script.  save_script brings its own content; an *)
(* episode job reads the script only under both locks.                     *)
OpenScript(j) ==
  /\ \/ at[j] = "start" /\ Kind(j) \in {"script", "generate"} /\ Ready(j)
     \/ at[j] = "found"
  /\ lock[script[j]] = Nobody
  /\ lock' = [lock EXCEPT ![script[j]] = j]
  /\ mine' = [mine EXCEPT ![j] = IF Kind(j) = "generate" THEN {}
                                ELSE IF Kind(j) = "script" THEN disk[script[j]] ELSE @]
  /\ at' = [at EXCEPT ![j] = IF Kind(j) = "episode" THEN "opened" ELSE "script"]
  /\ UNCHANGED <<plan, script, copy, sending, sent, tries, disk, cloud, kept,
                 failed, crashes, reconVars>>
(* Mutants for the checks: project.json is read and written without the    *)
(* lock in between; the second look at the binding is forgotten.           *)
OpenProjectUnlocked(j) ==
  /\ \/ at[j] = "start" /\ Kind(j) = "project" /\ Ready(j)
     \/ at[j] = "sync"
     \/ at[j] = "opened" /\ disk[Project].bound = script[j]
  /\ copy' = [copy EXCEPT ![j] = disk[Project]]
  /\ mine' = [mine EXCEPT ![j] = IF at[j] = "opened" THEN disk[script[j]] ELSE @]
  /\ at' = [at EXCEPT ![j] = IF @ = "opened" THEN "script" ELSE "project"]
  /\ UNCHANGED <<plan, script, sending, sent, tries, disk, cloud, lock, kept,
                 failed, crashes, reconVars>>

OpenProjectBlindly(j) ==
  /\ \/ at[j] \in {"sync", "opened"}
     \/ at[j] = "start" /\ Kind(j) = "project" /\ Ready(j)
  /\ lock[Project] = Nobody
  /\ lock' = [lock EXCEPT ![Project] = j]
  /\ copy' = [copy EXCEPT ![j] = disk[Project]]
  /\ mine' = [mine EXCEPT ![j] = IF at[j] = "opened" THEN disk[script[j]] ELSE @]
  /\ at' = [at EXCEPT ![j] = IF @ = "opened" THEN "script" ELSE "project"]
  /\ UNCHANGED <<plan, script, sending, sent, tries, disk, cloud, kept,
                 failed, crashes, reconVars>>

(* _project_lock, then a read of project.json: update_project on its own,  *)
(* the synchronisation after a script is written, and the second lock of   *)
(* an episode job, which checks the binding again under it and then reads  *)
(* the script.                                                             *)
OpenProject(j) ==
  /\ \/ at[j] = "start" /\ Kind(j) = "project" /\ Ready(j)
     \/ at[j] = "sync"
     \/ at[j] = "opened" /\ disk[Project].bound = script[j]
  /\ lock[Project] = Nobody
  /\ lock' = [lock EXCEPT ![Project] = j]
  /\ copy' = [copy EXCEPT ![j] = disk[Project]]
  /\ mine' = [mine EXCEPT ![j] = IF at[j] = "opened" THEN disk[script[j]] ELSE @]
  /\ at' = [at EXCEPT ![j] = IF @ = "opened" THEN "script" ELSE "project"]
  /\ UNCHANGED <<plan, script, sending, sent, tries, disk, cloud, kept,
                 failed, crashes, reconVars>>

(* EpisodeScriptReboundError: another job has bound the episode elsewhere. *)
Rebound(j) ==
  /\ at[j] = "opened" /\ lock[Project] = Nobody
  /\ disk[Project].bound # script[j]
  /\ Raise(j)

(* The body of the with block raises, the script does not exist, or the    *)
(* structure check refuses the result: nothing has been written.           *)
BodyRaises(j) ==
  /\ \/ at[j] = "script"
     \/ at[j] = "project" /\ Kind(j) = "project"
  /\ Raise(j)

-----------------------------------------------------------------------------
(* A write of f overlaps the comparisons of f that are under way.          *)
Races(f) ==
  /\ raced' = raced \cup {k \in Job : at[k] \in {"stat", "fetch", "put"} /\ looked[k] = f}
  /\ UNCHANGED <<warm, todo, looked, undone>>

(* _write_script_unlocked: the script replaces the file.  A regenerated    *)
(* script replaces what earlier edits made, which is what was asked for.   *)
WriteScript(j) ==
  /\ at[j] = "script" /\ mine[j] # Missing
  /\ mine' = [mine EXCEPT ![j] = @ \cup {j}]
  /\ disk' = [disk EXCEPT ![script[j]] = mine'[j]]
  /\ kept' = IF Kind(j) = "generate" THEN [kept EXCEPT ![script[j]] = {}] ELSE kept
  /\ sending' = [sending EXCEPT ![j] = script[j]]
  /\ tries' = [tries EXCEPT ![j] = 0]
  /\ at' = [at EXCEPT ![j] = "upload"]
  /\ Races(script[j])
  /\ UNCHANGED <<plan, script, copy, sent, cloud, lock, failed, crashes>>
(* Mutant for the checks: the title is left as it was. *)
EditedBindingOnly(j) ==
  IF Kind(j) = "project"
  THEN [copy[j] EXCEPT !.edits = @ \cup {j}]
  ELSE [copy[j] EXCEPT !.bound = script[j]]

(* What project.json says after job j: its own edit, or the title and the  *)
(* file of the script it has written (_apply_episode_sync).                *)
Edited(j) ==
  IF Kind(j) = "project"
  THEN [copy[j] EXCEPT !.edits = @ \cup {j}]
  ELSE [copy[j] EXCEPT !.bound = script[j], !.title = mine[j]]

(* project.json is written; update_project releases its lock before the    *)
(* upload, locked_episode_script keeps both locks until it returns.        *)
WriteProject(j) ==
  /\ at[j] = "project"
  /\ copy' = [copy EXCEPT ![j] = Edited(j)]
  /\ disk' = [disk EXCEPT ![Project] = copy'[j]]
  /\ lock' = IF Kind(j) = "episode" THEN lock ELSE [lock EXCEPT ![Project] = Nobody]
  /\ sending' = [sending EXCEPT ![j] = Project]
  /\ tries' = [tries EXCEPT ![j] = 0]
  /\ at' = [at EXCEPT ![j] = "upload"]
  /\ Races(Project)
  /\ UNCHANGED <<plan, script, mine, sent, cloud, kept, failed, crashes>>

-----------------------------------------------------------------------------
(* put_file_v2 opens the file as it is now. *)
Send(j) ==
  /\ at[j] = "upload"
  /\ sent' = [sent EXCEPT ![j] = disk[sending[j]]]
  /\ at' = [at EXCEPT ![j] = "sent"]
  /\ UNCHANGED <<plan, script, mine, copy, sending, tries, disk, cloud, lock, kept,
                 failed, crashes, reconVars>>
(* Mutants for the checks: the hash is not compared; an episode job goes   *)
(* through update_project after its script, as the others do.              *)
LandedUnchecked(j) ==
  /\ at[j] = "sent"
  /\ cloud' = [cloud EXCEPT ![sending[j]] = sent[j]]
  /\ UNCHANGED <<disk, failed>>
  /\ IF sending[j] # Project
     THEN /\ at' = [at EXCEPT ![j] = IF Kind(j) = "episode" THEN "project" ELSE "sync"]
          /\ sent' = [sent EXCEPT ![j] = Missing]
          /\ UNCHANGED <<plan, script, mine, copy, sending, tries, lock, kept, crashes,
                         reconVars>>
     ELSE /\ Leave(j)
          /\ LET f == IF Kind(j) = "project" THEN Project ELSE script[j]
             IN  kept' = [kept EXCEPT ![f] = @ \cup {j}]

LandedThenSyncs(j) ==
  /\ at[j] = "sent"
  /\ disk[sending[j]] = sent[j]
  /\ cloud' = [cloud EXCEPT ![sending[j]] = sent[j]]
  /\ UNCHANGED <<disk, failed>>
  /\ IF sending[j] # Project
     THEN /\ at' = [at EXCEPT ![j] = "sync"]
          /\ sent' = [sent EXCEPT ![j] = Missing]
          /\ UNCHANGED <<plan, script, mine, copy, sending, tries, lock, kept, crashes,
                         reconVars>>
     ELSE /\ Leave(j)
          /\ LET f == IF Kind(j) = "project" THEN Project ELSE script[j]
             IN  kept' = [kept EXCEPT ![f] = @ \cup {j}]

(* The store has the content and its hash is that of the file, as it is    *)
(* now.  After the script comes project.json; after that the call returns. *)
Landed(j) ==
  /\ at[j] = "sent"
  /\ disk[sending[j]] = sent[j]
  /\ cloud' = [cloud EXCEPT ![sending[j]] = sent[j]]
  /\ UNCHANGED <<disk, failed>>
  /\ IF sending[j] # Project
     THEN /\ at' = [at EXCEPT ![j] = IF Kind(j) = "episode" THEN "project" ELSE "sync"]
          /\ sent' = [sent EXCEPT ![j] = Missing]
          /\ UNCHANGED <<plan, script, mine, copy, sending, tries, lock, kept, crashes,
                         reconVars>>
     ELSE /\ Leave(j)
          /\ LET f == IF Kind(j) = "project" THEN Project ELSE script[j]
             IN  kept' = [kept EXCEPT ![f] = @ \cup {j}]
(* An attempt fails: the request does, whether or not the store has taken  *)
(* the content, or the hash is not that of the file.                       *)
AttemptFails(j) ==
  /\ at[j] = "sent"
  /\ \/ cloud' = [cloud EXCEPT ![sending[j]] = sent[j]]
     \/ cloud' = cloud
  /\ tries' = [tries EXCEPT ![j] = @ + 1]
  /\ at' = [at EXCEPT ![j] = IF tries'[j] < Attempts THEN "upload" ELSE "failed"]
  /\ failed' = IF tries'[j] < Attempts THEN failed ELSE failed \cup {sending[j]}
  /\ sent' = [sent EXCEPT ![j] = Missing]
  /\ UNCHANGED <<plan, script, mine, copy, sending, disk, lock, kept, crashes,
                         reconVars>>

(* sync_project_paths gives up: there is no remote copy to go back to, or  *)
(* it cannot be fetched either, and the file stays as it is.               *)
KeepsLocal(j) == at[j] = "failed" /\ Raise(j)

(* It fetches the remote copy, without the lock of the file, ...           *)
Fetches(j) ==
  /\ at[j] = "failed" /\ cloud[sending[j]] # Missing
  /\ NoDownload(sending[j])
  /\ sent' = [sent EXCEPT ![j] = cloud[sending[j]]]
  /\ at' = [at EXCEPT ![j] = "replace"]
  /\ UNCHANGED <<plan, script, mine, copy, sending, tries, disk, cloud, lock, kept,
                 failed, crashes, reconVars>>

(* ... and replaces the file by it; the call raises. *)
Replaces(j) ==
  /\ at[j] = "replace"
  /\ disk' = [disk EXCEPT ![sending[j]] = sent[j]]
  /\ Leave(j)
  /\ UNCHANGED <<cloud, kept, failed>>

(* The process dies: the calls under way are gone, the system releases     *)
(* their locks; os.replace leaves every file whole.  No manager of the next*)
(* process has the project.                                                *)
Crash ==
  /\ crashes < MaxCrashes
  /\ crashes' = crashes + 1
  /\ at' = [j \in Job |-> IF at[j] = "start" THEN "start" ELSE "done"]
  /\ lock' = [f \in File |-> Nobody]
  /\ mine' = [j \in Job |-> Missing]
  /\ copy' = [j \in Job |-> Missing]
  /\ sent' = [j \in Job |-> Missing]
  /\ tries' = [j \in Job |-> 0]
  /\ failed' = failed \cup {f \in File : \E j \in Job : Between(j, f)}
  /\ warm' = {}
  /\ todo' = [j \in Job |-> {}]
  /\ looked' = [j \in Job |-> Project]
  /\ raced' = {}
  /\ UNCHANGED <<plan, script, sending, disk, cloud, kept, undone>>

JobStep(j) ==
  \/ GetProjectPath(j) \/ (\E f \in File : Stat(j, f)) \/ Compare(j) \/ Download(j)
  \/ Put(j) \/ Reconciled(j) \/ ReconcileFails(j) \/ ReadProject(j)
  \/ FindScript(j) \/ OpenScript(j) \/ OpenProject(j) \/ Rebound(j) \/ BodyRaises(j)
  \/ WriteScript(j) \/ WriteProject(j)
  \/ Send(j) \/ Landed(j) \/ AttemptFails(j)
  \/ KeepsLocal(j) \/ Fetches(j) \/ Replaces(j)

FilesNext == (\E j \in Job : JobStep(j)) \/ Crash

FilesSpec == FilesInit /\ [][FilesNext]_filesVars

(* A lock that is free is taken by one of those that wait for it, an       *)
(* upload succeeds or fails: as long as some job can go on, one of them    *)
(* does.                                                                   *)
FairFilesSpec == FilesSpec /\ WF_filesVars(\E j \in Job : JobStep(j))
-----------------------------------------------------------------------------
(* The state's types. *)
FilesTypeOK ==
  /\ plan \in Plans
  /\ at \in [Job -> Steps]
  /\ script \in [Job -> Script]
  /\ mine \in [Job -> ScriptContent]
  /\ copy \in [Job -> ProjectContent \cup {Missing}]
  /\ sending \in [Job -> File]
  /\ tries \in [Job -> 0..Attempts]
  /\ \A f \in File : disk[f] \in Content(f) /\ cloud[f] \in Content(f)
  /\ \A j \in Job :
       /\ at[j] \in {"sent", "replace"} => sent[j] \in Content(sending[j])
       /\ at[j] \in {"stat", "put"} => sent[j] \in Content(looked[j])
  /\ lock \in [File -> Job \cup {Nobody}]
  /\ kept \in [File -> SUBSET Job]
  /\ failed \subseteq File
  /\ crashes \in 0..MaxCrashes
  /\ warm \subseteq Manager /\ raced \subseteq Job /\ undone \subseteq File
  /\ todo \in [Job -> SUBSET File] /\ looked \in [Job -> File]

(* An edit whose call has returned without an error stays ("lost-update"   *)
(* in update_project and locked_script): in a script until the script is   *)
(* generated anew, whatever fails, whenever the server dies and whatever   *)
(* the new managers then put back; in project.json as long as no upload of *)
(* it fails for good or is cut off.  But a comparison that overlapped a    *)
(* write of the file, through a new manager, may put back what was there.  *)
EditsAreKept ==
  /\ \A s \in Script \ undone : kept[s] # {} => kept[s] \subseteq disk[s]
  /\ Project \notin failed \cup undone => kept[Project] \subseteq disk[Project].edits

(* The same without that exception: "避免并发任务 ... 之间的 lost-update    *)
(* 竞态" (project_manager.py:1715), where nothing fails.                   *)
NoLostUpdate ==
  crashes = 0 /\ failed = {} =>
    /\ \A s \in Script : kept[s] # {} => kept[s] \subseteq disk[s]
    /\ kept[Project] \subseteq disk[Project].edits

(* The same without the exception: what update_project and                 *)
(* sync_project_paths say of project.json.                                 *)
ProjectEditsAreKept == kept[Project] \subseteq disk[Project].edits

(* Once nobody is between the write of a file and the end of its upload,   *)
(* the remote copy is the file, although uploads of project.json overlap   *)
(* and the last to arrive need not be the last one written (the hash check *)
(* of _upload_file), and although comparisons put remote copies back:      *)
(* unless an upload failed, the server died during one, or a comparison    *)
(* overlapped it.                                                          *)
RemoteIsCurrent ==
  \A f \in File \ (failed \cup undone) :
    (\A j \in Job : ~Between(j, f)) => cloud[f] = disk[f]

(* Whenever nobody works on the script the episode is bound to,            *)
(* project.json has that script's title: the write of a script and the     *)
(* synchronisation are one transaction under the script's lock             *)
(* (_write_script_unlocked); unless the server died, an upload failed or a *)
(* comparison put one of the two files back.                               *)
EpisodeMirrorsScript ==
  crashes = 0 /\ failed = {} /\ undone = {} /\ lock[disk[Project].bound] = Nobody
    => disk[Project].title = disk[disk[Project].bound]

(* An edit of "the script of the episode" is written to the script the     *)
(* episode is bound to then, and leaves the binding as it is               *)
(* (locked_episode_script); unless an upload of project.json failed, or a  *)
(* comparison, which heeds no lock, has put the file back.                 *)
EpisodeEditsFollowTheBinding ==
  [][\A j \in Job :
       (/\ Kind(j) = "episode" /\ Project \notin failed \cup undone
        /\ WriteScript(j) \/ WriteProject(j))
         => disk[Project].bound = script[j] /\ disk'[Project].bound = script[j]]_filesVars

(* The lock a job is about to take.                                        *)
Asks(j) ==
  IF \/ at[j] = "found"
     \/ at[j] = "start" /\ Kind(j) \in {"script", "generate"}
  THEN {script[j]}
  ELSE IF at[j] \in {"start", "opened", "sync"} THEN {Project} ELSE {}

(* Locks do not go round in circles: a job that waits for a lock waits for *)
(* another job, which works, or which waits for project.json in its turn,  *)
(* and whoever has that one works (_script_lock before _project_lock in    *)
(* locked_episode_script and _write_script_unlocked, never the other way). *)
WaitingEndsAtAWorker ==
  \A j \in Job : \A f \in Asks(j) : lock[f] # Nobody =>
    /\ lock[f] # j
    /\ Asks(lock[f]) \subseteq {Project} \ {f}
    /\ \A g \in Asks(lock[f]) : lock[g] # Nobody =>
         lock[g] # lock[f] /\ Asks(lock[g]) = {}

(* Every call that has begun returns: the two locks are always taken in    *)
(* the same order, and nobody waits for a lock it holds.                   *)
EveryEditEnds == \A j \in Job : at[j] # "start" ~> at[j] = "done"
=============================================================================
