------------------------- MODULE ProjectFilesProofs -------------------------
(***************************************************************************)
(* What ProjectFiles promises, proved for every set of jobs, of scripts    *)
(* and of plans, and for any number of attempts and of crashes.            *)
(*                                                                         *)
(* The argument is about who may touch what.  A job that edits a script    *)
(* holds its lock from the moment it reads it until it returns, so what it *)
(* has written is what is on disk.  project.json is different: its lock is *)
(* released before its upload, so only its edits and its binding are known,*)
(* and only while no upload of it has failed for good.  A new manager puts *)
(* remote copies back under no lock at all: what saves the files is that a *)
(* comparison which no write of the file overlaps finds the copy as it is, *)
(* and puts it back only over a file an upload of which has failed or that *)
(* such a put has already undone (Looks).  The others are the exception of *)
(* every promise below (undone).                                           *)
(***************************************************************************)
EXTENDS ProjectFiles, TLAPS

(***************************************************************************)
(* The inductive invariant                                                 *)
(***************************************************************************)

Uploading == {"upload", "sent", "failed", "replace"}

(* j is between the opening of its script and its return. *)
Inside(j) ==
  /\ Kind(j) \notin {"project", "read"}
  /\ at[j] \notin {"start", "found", "done"} \cup Reconciling

(* j is between a read and a write of project.json, or an episode job that *)
(* keeps its second lock.                                                  *)
InProject(j) ==
  \/ at[j] = "project"
  \/ Kind(j) = "episode" /\ at[j] \in Uploading \cup {"script"}

(* j has written its script; the store has it.                             *)
Written(j) == Inside(j) /\ at[j] \notin {"opened", "script"}
Stored(j) ==
  /\ Inside(j)
  /\ \/ at[j] \in {"sync", "project"}
     \/ at[j] \in Uploading /\ sending[j] = Project

(* The types in two halves: the jobs and the locks, ...                    *)
Controls ==
  /\ plan \in Plans /\ at \in [Job -> Steps]
  /\ script \in [Job -> Script] /\ sending \in [Job -> File]
  /\ tries \in [Job -> 0..Attempts]
  /\ lock \in [File -> Job \cup {Nobody}] /\ kept \in [File -> SUBSET Job]
  /\ failed \subseteq File /\ crashes \in 0..MaxCrashes
  /\ warm \subseteq Manager /\ raced \subseteq Job /\ undone \subseteq File
  /\ todo \in [Job -> SUBSET File] /\ looked \in [Job -> File]

(* ... and the contents; project.json is never missing.                    *)
Contents ==
  /\ DOMAIN disk = File /\ DOMAIN cloud = File
  /\ \A s \in Script : disk[s] \in ScriptContent /\ cloud[s] \in ScriptContent
  /\ disk[Project] \in ProjectContent /\ cloud[Project] \in ProjectContent

Memories ==
  /\ mine \in [Job -> ScriptContent]
  /\ copy \in [Job -> ProjectContent \cup {Missing}] /\ DOMAIN sent = Job
  /\ \A j \in Job : InProject(j) => copy[j] \in ProjectContent
  /\ \A j \in Job : at[j] \in {"sent", "replace"} =>
       sent[j] \in (IF sending[j] = Project THEN ProjectContent ELSE ScriptContent)
  /\ \A j \in Job : at[j] \in {"stat", "put"} =>
       sent[j] \in (IF looked[j] = Project THEN ProjectContent ELSE ScriptContent)

(* Which steps a job of a kind may be at, and what it uploads there.       *)
Ordered ==
  \A j \in Job :
    /\ Kind(j) = "project" =>
         /\ at[j] \in Uploading \cup {"start", "project", "done"} \cup Reconciling
         /\ sending[j] = Project
    /\ Kind(j) = "read" => at[j] \in {"start", "done"} \cup Reconciling
    /\ at[j] \in {"found", "opened"} => Kind(j) = "episode"
    /\ at[j] = "sync" => Kind(j) \in {"script", "generate"}
    /\ sending[j] \in {script[j], Project}
    /\ at[j] \in {"start"} \cup Reconciling => sending[j] = Project
    /\ at[j] \in {"failed", "replace"} => sending[j] \in failed
    /\ at[j] \in {"upload", "sent"} => tries[j] < Attempts

(* Locks are held by those who must hold them, and a script's by no other. *)
Locked ==
  /\ \A j \in Job : Inside(j) => lock[script[j]] = j
  /\ \A j \in Job : InProject(j) => lock[Project] = j
  /\ \A s \in Script, j \in Job : lock[s] = j => Inside(j) /\ script[j] = s

(* What a job has written is on disk, with its edit; what it has read has  *)
(* the edits that were acknowledged.                                       *)
MineIsDisk ==
  \A j \in Job :
    /\ Written(j) => /\ mine[j] # Missing /\ j \in mine[j]
                     /\ script[j] \notin undone => mine[j] = disk[script[j]]
    /\ Kind(j) = "generate" /\ at[j] = "script" => mine[j] = {}
    /\ Inside(j) /\ at[j] = "script" /\ Kind(j) # "generate"
       /\ script[j] \notin undone /\ kept[script[j]] # {}
         => mine[j] # Missing /\ kept[script[j]] \subseteq mine[j]

CopyIsDisk ==
  Project \notin failed \cup undone =>
    \A j \in Job : InProject(j) => copy[j] = disk[Project]

(* What travels between a script and its remote copy is what lies at the   *)
(* end it comes from.                                                      *)
SentIsCurrent ==
  \A j \in Job : sending[j] \notin undone \cup {Project} =>
    /\ at[j] = "sent" => sent[j] = disk[sending[j]]
    /\ at[j] = "replace" => sent[j] = cloud[sending[j]]

(* A script's acknowledged edits are on disk and in the remote copy, which *)
(* may yet replace the file.                                               *)
KeptInScripts ==
  \A s \in Script \ undone : kept[s] # {} =>
    /\ cloud[s] # Missing /\ kept[s] \subseteq cloud[s]
    /\ disk[s] # Missing /\ kept[s] \subseteq disk[s]

(* A script whose upload has landed is in the store as it was written.     *)
StoredEdits ==
  \A j \in Job : Stored(j) /\ script[j] \notin undone => cloud[script[j]] = mine[j]

(* Edits of project.json that are acknowledged, or written, are in it.     *)
KeptInProject ==
  Project \notin failed \cup undone =>
    /\ kept[Project] \subseteq disk[Project].edits
    /\ \A j \in Job : Kind(j) = "project" /\ at[j] \in Uploading
         => j \in disk[Project].edits

(* The title follows the script, except while the script's lock is held by *)
(* a job that has written it and not yet project.json.                     *)
Mirrored ==
  crashes = 0 /\ failed = {} /\ undone = {} =>
    LET b == disk[Project].bound
    IN  /\ lock[b] = Nobody => disk[Project].title = disk[b]
        /\ \A j \in Job :
             /\ Inside(j) /\ script[j] = b
             /\ \/ at[j] \in {"opened", "script"}
                \/ at[j] \in Uploading /\ sending[j] = Project
             => disk[Project].title = disk[b]

(* An episode job under both locks works on the bound script.              *)
Bounded ==
  Project \notin failed \cup undone =>
    \A j \in Job : Kind(j) = "episode" /\ InProject(j) => disk[Project].bound = script[j]

(* A comparison that no write of the file overlaps: nobody uploads it, the *)
(* copy is still what was told or fetched, and if it differs from the file *)
(* then a promise about the file was void already.                         *)
Looks ==
  \A j \in Job : at[j] \in {"stat", "fetch", "put"} /\ j \notin raced =>
    /\ \A k \in Job : ~Between(k, looked[j])
    /\ at[j] \in {"stat", "put"} => sent[j] = cloud[looked[j]]
    /\ at[j] \in {"fetch", "put"} => looked[j] \in failed \cup undone

(* All of it, with one of the promises, which is inductive as it stands.   *)
IInv ==
  /\ Controls /\ Contents /\ Memories /\ Ordered /\ Locked
  /\ MineIsDisk /\ CopyIsDisk /\ SentIsCurrent
  /\ KeptInScripts /\ StoredEdits /\ KeptInProject
  /\ Mirrored /\ Bounded /\ Looks /\ RemoteIsCurrent

(***************************************************************************)
(* Lemmas                                                                  *)
(***************************************************************************)

(* What the assumption on the constants says of them. *)
LEMMA Constants ==
  /\ Project \notin Script /\ Nobody \notin Job
  /\ Attempts \in Nat \ {0} /\ MaxCrashes \in Nat
  /\ Missing \in ScriptContent /\ Missing \notin SUBSET Job
  /\ SUBSET Job \subseteq ScriptContent
BY FilesAssumption DEF ScriptContent

(* The write of a script adds the job's edit to one script, which no other *)
(* job has open.                                                           *)
LEMMA ScriptWritten ==
  ASSUME IInv, NEW j \in Job, WriteScript(j)
  PROVE  /\ mine'[j] = mine[j] \cup {j}
         /\ mine'[j] \in SUBSET Job
         /\ script[j] \in Script
         /\ disk' = [disk EXCEPT ![script[j]] = mine'[j]]
         /\ disk'[script[j]] = mine'[j]
         /\ \A k \in Job : k # j => mine'[k] = mine[k]
         /\ \A k \in Job : k # j /\ Inside(k) => script[k] # script[j]
         /\ \A f \in File : f # script[j] => disk'[f] = disk[f]
<1> USE Constants DEF IInv
<1>1. mine'[j] = mine[j] \cup {j} /\ \A k \in Job : k # j => mine'[k] = mine[k]
  BY DEF WriteScript, Memories
<1>2. mine[j] \in SUBSET Job
  BY DEF WriteScript, Memories, ScriptContent
<1>3. script[j] \in Script /\ script[j] \in DOMAIN disk
  BY DEF Controls, Contents, File
<1>4. Inside(j)
  BY DEF WriteScript, Inside, Ordered, Uploading, Reconciling
<1>5. lock[script[j]] = j
  BY <1>4 DEF Locked
<1>6. \A k \in Job : k # j /\ Inside(k) => script[k] # script[j]
  BY <1>5 DEF Locked
<1> QED BY <1>1, <1>2, <1>3, <1>6 DEF WriteScript, Contents

(* What is written to project.json is a project. *)
LEMMA EditedIsContent ==
  ASSUME IInv, NEW j \in Job, at[j] = "project"
  PROVE  Edited(j) \in ProjectContent
<1> USE Constants DEF IInv
<1>1. copy[j] \in ProjectContent
  BY DEF Memories, InProject
<1>2. CASE Kind(j) = "project"
  BY <1>1, <1>2 DEF Edited, ProjectContent
<1>3. CASE Kind(j) # "project"
  <2>1. mine[j] \in SUBSET Job
    BY <1>3 DEF Memories, MineIsDisk, Written, Inside, Ordered, Reconciling, ScriptContent
  <2>2. script[j] \in Script
    BY DEF Controls
  <2> QED BY <1>1, <1>3, <2>1, <2>2 DEF Edited, ProjectContent
<1> QED BY <1>2, <1>3


(* A job that only compares or reads, before it begins or as it ends,      *)
(* disturbs nothing of the others.                                         *)
Quiet == {"start", "done"} \cup Reconciling

LEMMA QuietStep ==
  ASSUME IInv, NEW j \in Job,
         UNCHANGED <<plan, script, sending, disk, cloud, lock, kept, failed, crashes, undone>>,
         at[j] \in Quiet, at'[j] \in Quiet,
         \A k \in Job : k # j => /\ at'[k] = at[k] /\ sent'[k] = sent[k]
                                /\ mine'[k] = mine[k] /\ copy'[k] = copy[k]
  PROVE  /\ Locked' /\ MineIsDisk' /\ CopyIsDisk' /\ SentIsCurrent' /\ KeptInScripts'
         /\ StoredEdits' /\ KeptInProject' /\ Mirrored' /\ Bounded' /\ RemoteIsCurrent'
<1> USE DEF IInv, Quiet, Reconciling, Kind, Uploading
<1>1. \A k \in Job : /\ Inside(k) <=> Inside(k)'
                     /\ InProject(k) <=> InProject(k)'
                     /\ Written(k) <=> Written(k)'
                     /\ Stored(k) <=> Stored(k)'
  BY DEF Inside, InProject, Written, Stored
<1>2. \A k \in Job : at[k] \in {"opened", "script", "sent", "replace"} \cup Uploading
                      \/ at'[k] \in {"opened", "script", "sent", "replace"} \cup Uploading
                    => /\ at'[k] = at[k] /\ sent'[k] = sent[k]
                       /\ mine'[k] = mine[k] /\ copy'[k] = copy[k]
  OBVIOUS
<1>3. \A k \in Job : Inside(k) \/ InProject(k) => mine'[k] = mine[k] /\ copy'[k] = copy[k]
  BY <1>2 DEF Inside, InProject
<1>4. \A k \in Job, f \in File : Between(k, f) <=> Between(k, f)'
  BY DEF Between
<1>5. Locked'
  BY <1>1 DEF Locked
<1>6. MineIsDisk'
  <2>1. \A k \in Job : at[k] = "script" <=> at'[k] = "script"
    BY <1>2
  <2> QED BY <1>1, <1>3, <2>1 DEF MineIsDisk, Written
<1>7. CopyIsDisk' /\ Bounded'
  BY <1>1, <1>3 DEF CopyIsDisk, Bounded
<1>8. SentIsCurrent'
  BY <1>2 DEF SentIsCurrent
<1>9. KeptInScripts'
  BY DEF KeptInScripts
<1>10. StoredEdits'
  BY <1>1, <1>3 DEF StoredEdits, Stored
<1>11. KeptInProject'
  BY <1>2 DEF KeptInProject
<1>12. Mirrored'
  BY <1>1, <1>2 DEF Mirrored
<1>13. RemoteIsCurrent'
  BY <1>4 DEF RemoteIsCurrent
<1> QED BY <1>5, <1>6, <1>7, <1>8, <1>9, <1>10, <1>11, <1>12, <1>13

(* Every step keeps the invariant. *)
LEMMA StepsKeepIInv ==
  ASSUME IInv, [FilesNext]_filesVars
  PROVE  IInv'
<1> USE Constants DEF IInv, File, Kind, Leave, Raise, Inside, InProject, Uploading,
                      Written, Stored, Edited, Between, Reconciling, reconVars
<1>1. ASSUME NEW j \in Job, FindScript(j) PROVE IInv'
  <2>1. Controls'
    BY <1>1 DEF FindScript, Controls, Steps, Contents, ProjectContent
  <2>2. Contents'
    BY <1>1 DEF FindScript, Contents, Controls
  <2>3. Memories' /\ Locked'
    BY <1>1 DEF FindScript, Memories, Locked
  <2>5. MineIsDisk'
    BY <1>1 DEF FindScript, MineIsDisk, Controls
  <2>6. CopyIsDisk' /\ SentIsCurrent' /\ KeptInScripts' /\ KeptInProject' /\ Bounded'
    BY <1>1 DEF FindScript, CopyIsDisk, SentIsCurrent, KeptInScripts, KeptInProject, Bounded
  <2>7. StoredEdits' /\ Mirrored' /\ RemoteIsCurrent'
    BY <1>1 DEF FindScript, StoredEdits, Mirrored, RemoteIsCurrent, Controls
  <2>4. Ordered'
    BY <1>1 DEF FindScript, Ordered, Steps, Controls
  <2>20. Looks'
    BY <1>1 DEF FindScript, Looks, Controls
  <2> QED BY <2>1, <2>2, <2>3, <2>4, <2>5, <2>6, <2>7, <2>20
<1>2. ASSUME NEW j \in Job, OpenScript(j) PROVE IInv'
  <2>1. Controls'
    BY <1>2 DEF OpenScript, Controls, Steps
  <2>2. Contents'
    BY <1>2 DEF OpenScript, Contents, Controls
  <2>3. Memories'
    BY <1>2 DEF OpenScript, Memories, Controls, Contents, ScriptContent
  <2>4. Ordered'
    BY <1>2 DEF OpenScript, Ordered, Steps, Controls
  <2>5. Locked'
    BY <1>2 DEF OpenScript, Locked, Controls, Ordered
  <2>6. MineIsDisk'
    BY <1>2 DEF OpenScript, MineIsDisk, Controls, Memories, Ordered, KeptInScripts
  <2>7. CopyIsDisk' /\ SentIsCurrent' /\ KeptInScripts' /\ StoredEdits'
     /\ KeptInProject' /\ Mirrored' /\ Bounded' /\ RemoteIsCurrent'
    BY <1>2 DEF OpenScript, CopyIsDisk, SentIsCurrent, KeptInScripts,
       StoredEdits, KeptInProject, Mirrored, Bounded, RemoteIsCurrent
  <2>20. Looks'
    BY <1>2 DEF OpenScript, Looks, Controls
  <2> QED BY <2>1, <2>2, <2>3, <2>4, <2>5, <2>6, <2>7, <2>20
<1>3. ASSUME NEW j \in Job, OpenProject(j) PROVE IInv'
  <2>1. Controls'
    BY <1>3 DEF OpenProject, Controls, Steps
  <2>2. Contents'
    BY <1>3 DEF OpenProject, Contents, Controls
  <2>3. Memories'
    BY <1>3 DEF OpenProject, Memories, Controls, Contents
  <2>4. Ordered'
    BY <1>3 DEF OpenProject, Ordered, Steps, Controls
  <2>5. Locked'
    BY <1>3 DEF OpenProject, Locked, Controls
  <2>6. MineIsDisk'
    BY <1>3 DEF OpenProject, MineIsDisk, Controls, Memories, Ordered, KeptInScripts
  <2>7. CopyIsDisk'
    BY <1>3 DEF OpenProject, CopyIsDisk, Controls, Memories
  <2>8. SentIsCurrent' /\ KeptInScripts' /\ StoredEdits' /\ KeptInProject'
     /\ Mirrored' /\ RemoteIsCurrent'
    BY <1>3 DEF OpenProject, SentIsCurrent, KeptInScripts, StoredEdits,
       KeptInProject, Mirrored, RemoteIsCurrent
  <2>9. Bounded'
    BY <1>3 DEF OpenProject, Bounded, Controls, Ordered
  <2>20. Looks'
    BY <1>3 DEF OpenProject, Looks, Controls
  <2> QED BY <2>1, <2>2, <2>3, <2>4, <2>5, <2>6, <2>7, <2>8, <2>9, <2>20
<1>4. ASSUME NEW j \in Job, Rebound(j) PROVE IInv'
  <2>1. Controls'
    BY <1>4 DEF Rebound, Controls, Steps
  <2>2. Contents'
    BY <1>4 DEF Rebound, Contents, Controls
  <2>3. Memories'
    BY <1>4 DEF Rebound, Memories, Controls
  <2>4. Ordered'
    BY <1>4 DEF Rebound, Ordered, Steps, Controls
  <2>5. Locked'
    BY <1>4 DEF Rebound, Locked, Controls
  <2>6. MineIsDisk'
    BY <1>4 DEF Rebound, MineIsDisk, Controls
  <2>7. CopyIsDisk' /\ SentIsCurrent' /\ KeptInScripts' /\ StoredEdits'
     /\ KeptInProject' /\ Bounded' /\ RemoteIsCurrent'
    BY <1>4 DEF Rebound, CopyIsDisk, SentIsCurrent, KeptInScripts,
       StoredEdits, KeptInProject, Bounded, RemoteIsCurrent
  <2>8. Mirrored'
    BY <1>4 DEF Rebound, Mirrored, Controls, Contents, ProjectContent,
       Locked
  <2>20. Looks'
    BY <1>4 DEF Rebound, Looks, Controls
  <2> QED BY <2>1, <2>2, <2>3, <2>4, <2>5, <2>6, <2>7, <2>8, <2>20
<1>5. ASSUME NEW j \in Job, BodyRaises(j) PROVE IInv'
  <2>1. Controls'
    BY <1>5 DEF BodyRaises, Controls, Steps
  <2>2. Contents'
    BY <1>5 DEF BodyRaises, Contents, Controls
  <2>3. Memories'
    BY <1>5 DEF BodyRaises, Memories, Controls
  <2>4. Ordered'
    BY <1>5 DEF BodyRaises, Ordered, Steps, Controls
  <2>5. Locked'
    BY <1>5 DEF BodyRaises, Locked, Controls
  <2>6. MineIsDisk'
    BY <1>5 DEF BodyRaises, MineIsDisk, Controls
  <2>7. CopyIsDisk'
    BY <1>5 DEF BodyRaises, CopyIsDisk, Controls
  <2>8. SentIsCurrent' /\ KeptInScripts' /\ StoredEdits' /\ KeptInProject'
     /\ Bounded' /\ RemoteIsCurrent'
    BY <1>5 DEF BodyRaises, SentIsCurrent, KeptInScripts, StoredEdits,
       KeptInProject, Bounded, RemoteIsCurrent
  <2>9. Mirrored'
    BY <1>5 DEF BodyRaises, Mirrored, Controls, Contents, ProjectContent,
       Locked
  <2>20. Looks'
    BY <1>5 DEF BodyRaises, Looks, Controls
  <2> QED BY <2>1, <2>2, <2>3, <2>4, <2>5, <2>6, <2>7, <2>8, <2>9, <2>20
<1>6. ASSUME NEW j \in Job, WriteScript(j) PROVE IInv'
  <2>1. Controls'
    BY <1>6 DEF WriteScript, Races, Controls, Steps
  <2>2. Contents'
    BY <1>6 DEF WriteScript, Races, Contents, Controls, Memories, ScriptContent
  <2>3. Memories'
    BY <1>6 DEF WriteScript, Races, Memories, Controls, Contents, ScriptContent
  <2>4. Ordered'
    BY <1>6 DEF WriteScript, Races, Ordered, Steps, Controls
  <2>5. Locked'
    BY <1>6 DEF WriteScript, Races, Locked
  <2>6. MineIsDisk'
    <3>1. /\ mine'[j] = mine[j] \cup {j} /\ mine'[j] # Missing
          /\ disk'[script[j]] = mine'[j]
          /\ \A k \in Job : k # j => mine'[k] = mine[k]
      BY <1>6, ScriptWritten
    <3>2. \A k \in Job : k # j /\ Inside(k) => disk'[script[k]] = disk[script[k]]
      BY <1>6, ScriptWritten DEF Controls
    <3>3. /\ at' = [at EXCEPT ![j] = "upload"] /\ UNCHANGED <<plan, script, undone>>
      BY <1>6 DEF WriteScript, Races
    <3>4. \A k \in Job : k # j /\ Inside(k) => kept'[script[k]] = kept[script[k]]
      <4>1. kept' = IF Kind(j) = "generate" THEN [kept EXCEPT ![script[j]] = {}] ELSE kept
        BY <1>6 DEF WriteScript
      <4>2. \A k \in Job : k # j /\ Inside(k) => script[k] # script[j] /\ script[k] \in File
        BY <1>6, ScriptWritten DEF Controls
      <4> QED BY <4>1, <4>2 DEF Controls
    <3>5. /\ at'[j] = "upload" /\ \A k \in Job : k # j => at'[k] = at[k]
      BY <3>3 DEF Controls
    <3>6. \A k \in Job : k # j /\ Inside(k)' =>
            /\ Inside(k) /\ Written(k)' = Written(k) /\ script'[k] = script[k]
            /\ mine'[k] = mine[k] /\ disk'[script[k]] = disk[script[k]]
            /\ kept'[script[k]] = kept[script[k]] /\ at'[k] = at[k]
      BY <3>1, <3>2, <3>3, <3>4, <3>5
    <3>7. j \in mine'[j] /\ mine'[j] = disk'[script'[j]]
      BY <3>1, <3>3
    <3> QED BY <3>1, <3>3, <3>5, <3>6, <3>7 DEF MineIsDisk
  <2>7. CopyIsDisk'
    BY <1>6 DEF WriteScript, Races, CopyIsDisk, Controls
  <2>8. SentIsCurrent'
    <3>1. \A k \in Job : k # j /\ Inside(k) => disk'[script[k]] = disk[script[k]]
      BY <1>6, ScriptWritten DEF Controls
    <3>2. \A k \in Job : at[k] \in {"sent", "replace"} /\ sending[k] # Project
            => Inside(k) /\ sending[k] = script[k]
      BY DEF Ordered
    <3>3. /\ at' = [at EXCEPT ![j] = "upload"] /\ UNCHANGED <<sent, cloud, undone>>
          /\ sending' = [sending EXCEPT ![j] = script[j]]
      BY <1>6 DEF WriteScript, Races
    <3> QED BY <3>1, <3>2, <3>3 DEF SentIsCurrent, Controls
  <2>9. KeptInScripts'
    <3>1. /\ mine'[j] = mine[j] \cup {j} /\ mine'[j] # Missing
          /\ script[j] \in Script /\ disk'[script[j]] = mine'[j]
          /\ \A f \in File : f # script[j] => disk'[f] = disk[f]
      BY <1>6, ScriptWritten
    <3>2. Kind(j) # "generate" /\ script[j] \notin undone => kept[script[j]] \subseteq mine[j]
      BY <1>6 DEF WriteScript, Races, MineIsDisk, Ordered
    <3>3. /\ cloud' = cloud /\ undone' = undone
          /\ kept' = IF Kind(j) = "generate" THEN [kept EXCEPT ![script[j]] = {}] ELSE kept
      BY <1>6 DEF WriteScript, Races
    <3> QED BY <3>1, <3>2, <3>3 DEF KeptInScripts, Controls
  <2>10. StoredEdits'
    BY <1>6 DEF WriteScript, Races, StoredEdits, Controls
  <2>11. KeptInProject'
    BY <1>6 DEF WriteScript, Races, KeptInProject, Controls, Ordered
  <2>12. Mirrored'
    BY <1>6 DEF WriteScript, Races, Mirrored, Controls, Ordered, Locked
  <2>13. Bounded'
    BY <1>6 DEF WriteScript, Races, Bounded, Controls
  <2>14. RemoteIsCurrent'
    BY <1>6 DEF WriteScript, Races, RemoteIsCurrent, Controls, Ordered, Locked,
       MineIsDisk
  <2>20. Looks'
    BY <1>6 DEF WriteScript, Races, Looks, Controls
  <2> QED BY <2>1, <2>2, <2>3, <2>4, <2>5, <2>6, <2>7, <2>8, <2>9, <2>10,
     <2>11, <2>12, <2>13, <2>14, <2>20
<1>7. ASSUME NEW j \in Job, WriteProject(j) PROVE IInv'
  <2>1. Controls'
    BY <1>7 DEF WriteProject, Races, Controls, Steps
  <2>2. Contents'
    BY <1>7, EditedIsContent DEF WriteProject, Races, Contents, Controls,
       Memories
  <2>3. Memories'
    BY <1>7, EditedIsContent DEF WriteProject, Races, Memories, Controls
  <2>4. Ordered'
    BY <1>7 DEF WriteProject, Races, Ordered, Steps, Controls
  <2>5. Locked'
    BY <1>7 DEF WriteProject, Races, Locked, Controls
  <2>6. MineIsDisk'
    BY <1>7 DEF WriteProject, Races, MineIsDisk, Controls
  <2>7. CopyIsDisk'
    BY <1>7 DEF WriteProject, Races, CopyIsDisk, Controls, Contents, Memories,
       Locked
  <2>8. SentIsCurrent' /\ KeptInScripts' /\ StoredEdits'
    BY <1>7 DEF WriteProject, Races, SentIsCurrent, KeptInScripts, StoredEdits
  <2>9. KeptInProject'
    BY <1>7 DEF WriteProject, Races, KeptInProject, Controls, Contents, Memories,
       Ordered, CopyIsDisk, ProjectContent
  <2>10. Mirrored'
    BY <1>7 DEF WriteProject, Races, Mirrored, Controls, Contents, Memories,
       Ordered, Locked, MineIsDisk, CopyIsDisk, ProjectContent
  <2>11. Bounded'
    BY <1>7 DEF WriteProject, Races, Bounded, Controls, Contents, Memories,
       Locked, Ordered, CopyIsDisk, ProjectContent
  <2>12. RemoteIsCurrent'
    BY <1>7 DEF WriteProject, Races, RemoteIsCurrent, Controls, Ordered
  <2>20. Looks'
    BY <1>7 DEF WriteProject, Races, Looks, Controls, Ordered
  <2> QED BY <2>1, <2>2, <2>3, <2>4, <2>5, <2>6, <2>7, <2>8, <2>9, <2>10,
     <2>11, <2>12, <2>20
<1>8. ASSUME NEW j \in Job, Send(j) PROVE IInv'
  <2>1. Controls'
    BY <1>8 DEF Send, Controls, Steps
  <2>2. Contents'
    BY <1>8 DEF Send, Contents, Controls
  <2>3. Memories'
    BY <1>8 DEF Send, Memories, Controls, Contents
  <2>4. Ordered'
    BY <1>8 DEF Send, Ordered, Steps, Controls
  <2>5. Locked' /\ MineIsDisk' /\ CopyIsDisk' /\ KeptInScripts'
     /\ StoredEdits' /\ KeptInProject' /\ Mirrored' /\ Bounded'
     /\ RemoteIsCurrent'
    BY <1>8 DEF Send, Locked, MineIsDisk, CopyIsDisk, KeptInScripts,
       StoredEdits, KeptInProject, Mirrored, Bounded, RemoteIsCurrent
  <2>6. SentIsCurrent'
    BY <1>8 DEF Send, SentIsCurrent, Controls, Contents, Memories,
       Ordered, Locked
  <2>20. Looks'
    BY <1>8 DEF Send, Looks, Controls
  <2> QED BY <2>1, <2>2, <2>3, <2>4, <2>5, <2>6, <2>20
<1>9. ASSUME NEW j \in Job, Landed(j) PROVE IInv'
  <2>1. CASE sending[j] # Project
    <3>1. Controls'
      BY <1>9, <2>1 DEF Landed, Controls, Steps
    <3>2. Contents'
      BY <1>9, <2>1 DEF Landed, Contents, Controls
    <3>3. Memories'
      BY <1>9, <2>1 DEF Landed, Memories, Controls
    <3>4. Ordered'
      BY <1>9, <2>1, FilesAssumption DEF Landed, Ordered, Steps,
         Controls, Kinds
    <3>5. Locked'
      BY <1>9, <2>1 DEF Landed, Locked, Controls
    <3>6. MineIsDisk'
      BY <1>9, <2>1 DEF Landed, MineIsDisk, Controls, Ordered
    <3>7. CopyIsDisk'
      BY <1>9, <2>1 DEF Landed, CopyIsDisk, Controls
    <3>8. SentIsCurrent'
      BY <1>9, <2>1 DEF Landed, SentIsCurrent, Controls, Contents,
         Memories, Ordered, Locked, MineIsDisk, CopyIsDisk
    <3>9. KeptInScripts'
      BY <1>9, <2>1 DEF Landed, KeptInScripts, Controls, Contents,
         Ordered, Locked, MineIsDisk
    <3>10. StoredEdits'
      BY <1>9, <2>1 DEF Landed, StoredEdits, Controls, Contents,
         Ordered, Locked, MineIsDisk
    <3>11. KeptInProject'
      BY <1>9, <2>1 DEF Landed, KeptInProject, Controls
    <3>12. Mirrored'
      BY <1>9, <2>1 DEF Landed, Mirrored, Controls, Ordered
    <3>13. Bounded'
      BY <1>9, <2>1 DEF Landed, Bounded, Controls
    <3>14. RemoteIsCurrent'
      BY <1>9, <2>1 DEF Landed, RemoteIsCurrent, Controls, Contents,
         Memories, Ordered, Locked
    <3>20. Looks'
      <4>1. \A k \in Job : at[k] \in {"stat", "fetch", "put"} /\ k \notin raced
              => looked[k] # sending[j]
        BY <1>9 DEF Landed, Looks
      <4>2. /\ \A k \in Job : k # j => at'[k] = at[k] /\ sent'[k] = sent[k]
            /\ \A g \in File : g # sending[j] => cloud'[g] = cloud[g]
            /\ at'[j] \notin {"stat", "fetch", "put"} \cup Uploading
            /\ UNCHANGED <<sending, looked, raced, failed, undone>>
        BY <1>9, <2>1 DEF Landed, Controls, Contents, Memories
      <4> QED BY <4>1, <4>2 DEF Looks, Controls
    <3> QED BY <3>1, <3>2, <3>3, <3>4, <3>5, <3>6, <3>7, <3>8, <3>9,
       <3>10, <3>11, <3>12, <3>13, <3>14, <3>20
  <2>2. CASE sending[j] = Project
    <3>1. Controls'
      <4>1. kept' \in [File -> SUBSET Job]
        BY <1>9, <2>2 DEF Landed, Controls
      <4>2. lock' \in [File -> Job \cup {Nobody}]
        BY <1>9, <2>2 DEF Landed, Controls
      <4>3. at' \in [Job -> Steps] /\ tries' \in [Job -> 0..Attempts]
        BY <1>9, <2>2 DEF Landed, Controls, Steps
      <4> QED BY <1>9, <2>2, <4>1, <4>2, <4>3 DEF Landed, Controls
    <3>2. Contents'
      BY <1>9, <2>2 DEF Landed, Contents, Controls
    <3>3. Memories'
      <4>1. mine' \in [Job -> ScriptContent] /\ copy' \in [Job -> ProjectContent \cup {Missing}]
        BY <1>9, <2>2 DEF Landed, Memories
      <4>2. /\ DOMAIN sent' = Job
            /\ \A k \in Job : k # j => /\ at'[k] = at[k] /\ sent'[k] = sent[k]
                                     /\ copy'[k] = copy[k]
            /\ at'[j] = "done" /\ UNCHANGED <<plan, sending, looked>>
        BY <1>9, <2>2 DEF Landed, Memories, Controls
      <4> QED BY <4>1, <4>2 DEF Memories
    <3>4. Ordered'
      BY <1>9, <2>2 DEF Landed, Ordered, Steps, Controls
    <3>5. Locked'
      BY <1>9, <2>2 DEF Landed, Locked, Controls, Ordered
    <3>6. MineIsDisk'
      <4>1. \A k \in Job : k # j => at'[k] = at[k] /\ mine'[k] = mine[k]
        BY <1>9, <2>2 DEF Landed, Controls, Memories
      <4>2. at'[j] = "done" /\ UNCHANGED <<plan, script, disk, undone>>
        BY <1>9, <2>2 DEF Landed, Controls
      <4>3. \A k \in Job : k # j /\ Inside(k) => kept'[script[k]] = kept[script[k]]
        BY <1>9, <2>2 DEF Landed, Controls, Locked, Ordered
      <4> QED BY <4>1, <4>2, <4>3 DEF MineIsDisk
    <3>7. CopyIsDisk'
      BY <1>9, <2>2 DEF Landed, CopyIsDisk, Controls, Memories
    <3>8. SentIsCurrent'
      BY <1>9, <2>2 DEF Landed, SentIsCurrent, Controls, Contents,
         Memories, Ordered, Locked, MineIsDisk, CopyIsDisk
    <3>9. KeptInScripts'
      <4>1. /\ UNCHANGED <<disk, undone>>
            /\ \A g \in Script : cloud'[g] = cloud[g]
            /\ kept' = [kept EXCEPT ![IF Kind(j) = "project" THEN Project ELSE script[j]]
                          = @ \cup {j}]
        BY <1>9, <2>2 DEF Landed, Contents
      <4>2. Kind(j) # "project" => Inside(j) /\ Written(j) /\ Stored(j)
        BY <1>9, <2>2 DEF Landed, Ordered
      <4>3. Kind(j) # "project" /\ script[j] \notin undone =>
              /\ j \in cloud[script[j]] /\ cloud[script[j]] # Missing
              /\ j \in disk[script[j]] /\ disk[script[j]] # Missing
        BY <4>2 DEF MineIsDisk, StoredEdits
      <4> QED BY <4>1, <4>3 DEF KeptInScripts, Controls
    <3>10. StoredEdits'
      BY <1>9, <2>2 DEF Landed, StoredEdits, Controls, Contents, Memories
    <3>11. KeptInProject'
      BY <1>9, <2>2 DEF Landed, KeptInProject, Controls
    <3>12. Mirrored'
      BY <1>9, <2>2 DEF Landed, Mirrored, Controls, Contents,
         ProjectContent, Locked, Ordered
    <3>13. Bounded'
      BY <1>9, <2>2 DEF Landed, Bounded, Controls
    <3>14. RemoteIsCurrent'
      BY <1>9, <2>2 DEF Landed, RemoteIsCurrent, Controls, Contents
    <3>20. Looks'
      <4>1. \A k \in Job : at[k] \in {"stat", "fetch", "put"} /\ k \notin raced
              => looked[k] # sending[j]
        BY <1>9 DEF Landed, Looks
      <4>2. /\ \A k \in Job : k # j => at'[k] = at[k] /\ sent'[k] = sent[k]
            /\ \A g \in File : g # sending[j] => cloud'[g] = cloud[g]
            /\ at'[j] \notin {"stat", "fetch", "put"} \cup Uploading
            /\ UNCHANGED <<sending, looked, raced, failed, undone>>
        BY <1>9, <2>2 DEF Landed, Controls, Contents, Memories
      <4> QED BY <4>1, <4>2 DEF Looks, Controls
    <3> QED BY <3>1, <3>2, <3>3, <3>4, <3>5, <3>6, <3>7, <3>8, <3>9,
       <3>10, <3>11, <3>12, <3>13, <3>14, <3>20
  <2> QED BY <2>1, <2>2
<1>10. ASSUME NEW j \in Job, AttemptFails(j) PROVE IInv'
  <2>1. Controls'
    BY <1>10, FilesAssumption DEF AttemptFails, Controls, Steps, Ordered
  <2>2. Contents'
    BY <1>10 DEF AttemptFails, Contents, Controls, Memories, ScriptContent
  <2>3. Memories'
    BY <1>10 DEF AttemptFails, Memories, Controls
  <2>4. Ordered'
    BY <1>10 DEF AttemptFails, Ordered, Steps, Controls
  <2>5. Locked' /\ MineIsDisk' /\ CopyIsDisk' /\ KeptInProject' /\ Mirrored'
     /\ Bounded'
    BY <1>10 DEF AttemptFails, Locked, MineIsDisk, CopyIsDisk,
       KeptInProject, Mirrored, Bounded
  <2>6. SentIsCurrent'
    BY <1>10 DEF AttemptFails, SentIsCurrent, Controls, Contents,
       Memories, Ordered, Locked, MineIsDisk, CopyIsDisk
  <2>7. KeptInScripts'
    <3>1. \A s \in Script \ undone : cloud'[s] \in {cloud[s], disk[s]}
      BY <1>10 DEF AttemptFails, SentIsCurrent, Controls, Contents
    <3>2. UNCHANGED <<kept, disk, undone>>
      BY <1>10 DEF AttemptFails
    <3>3. \A s \in Script \ undone : kept[s] # {} => disk[s] # Missing
      BY DEF KeptInScripts
    <3> QED BY <3>1, <3>2, <3>3 DEF KeptInScripts
  <2>8. StoredEdits'
    BY <1>10 DEF AttemptFails, StoredEdits, Controls, Contents, Memories,
       Ordered, Locked
  <2>9. RemoteIsCurrent'
    BY <1>10 DEF AttemptFails, RemoteIsCurrent, Controls, Contents
  <2>20. Looks'
    BY <1>10 DEF AttemptFails, Looks, Controls, Contents
  <2> QED BY <2>1, <2>2, <2>3, <2>4, <2>5, <2>6, <2>7, <2>8, <2>9, <2>20
<1>11. ASSUME NEW j \in Job, KeepsLocal(j) PROVE IInv'
  <2>1. Controls'
    BY <1>11 DEF KeepsLocal, Controls, Steps
  <2>2. Contents'
    BY <1>11 DEF KeepsLocal, Contents, Controls
  <2>3. Memories'
    BY <1>11 DEF KeepsLocal, Memories, Controls
  <2>4. Ordered'
    BY <1>11 DEF KeepsLocal, Ordered, Steps, Controls
  <2>5. Locked'
    BY <1>11 DEF KeepsLocal, Locked, Controls
  <2>6. MineIsDisk'
    BY <1>11 DEF KeepsLocal, MineIsDisk, Controls
  <2>7. CopyIsDisk'
    BY <1>11 DEF KeepsLocal, CopyIsDisk, Controls
  <2>8. SentIsCurrent' /\ KeptInScripts'
    BY <1>11 DEF KeepsLocal, SentIsCurrent, KeptInScripts, Controls
  <2>11. StoredEdits'
    BY <1>11 DEF KeepsLocal, StoredEdits, Controls, Memories
  <2>12. KeptInProject' /\ Bounded'
    BY <1>11 DEF KeepsLocal, KeptInProject, Bounded, Controls
  <2>9. Mirrored'
    BY <1>11 DEF KeepsLocal, Mirrored, Controls, Ordered
  <2>10. RemoteIsCurrent'
    BY <1>11 DEF KeepsLocal, RemoteIsCurrent, Controls, Ordered
  <2>20. Looks'
    BY <1>11 DEF KeepsLocal, Looks, Controls
  <2> QED BY <2>1, <2>2, <2>3, <2>4, <2>5, <2>6, <2>7, <2>8, <2>9, <2>10,
     <2>11, <2>12, <2>20
<1>12. ASSUME NEW j \in Job, Fetches(j) PROVE IInv'
  <2>1. Controls'
    BY <1>12 DEF Fetches, Controls, Steps
  <2>2. Contents'
    BY <1>12 DEF Fetches, Contents, Controls
  <2>3. Memories'
    BY <1>12 DEF Fetches, Memories, Controls, Contents
  <2>4. Ordered'
    BY <1>12 DEF Fetches, Ordered, Steps, Controls
  <2>5. Locked' /\ MineIsDisk' /\ CopyIsDisk' /\ KeptInScripts'
    BY <1>12 DEF Fetches, Locked, MineIsDisk, CopyIsDisk, KeptInScripts
  <2>7. StoredEdits' /\ KeptInProject' /\ Mirrored' /\ Bounded' /\ RemoteIsCurrent'
    BY <1>12 DEF Fetches, StoredEdits, KeptInProject, Mirrored, Bounded, RemoteIsCurrent
  <2>6. SentIsCurrent'
    BY <1>12 DEF Fetches, SentIsCurrent, Controls, Contents, Memories,
       Ordered, Locked
  <2>20. Looks'
    BY <1>12 DEF Fetches, Looks, Controls
  <2> QED BY <2>1, <2>2, <2>3, <2>4, <2>5, <2>6, <2>7, <2>20
<1>13. ASSUME NEW j \in Job, Replaces(j) PROVE IInv'
  <2>1. Controls'
    BY <1>13 DEF Replaces, Controls, Steps
  <2>2. Contents'
    BY <1>13 DEF Replaces, Contents, Controls, Memories
  <2>3. Memories'
    BY <1>13 DEF Replaces, Memories, Controls
  <2>4. Ordered'
    BY <1>13 DEF Replaces, Ordered, Steps, Controls
  <2>5. Locked'
    BY <1>13 DEF Replaces, Locked, Controls
  <2>6. MineIsDisk'
    BY <1>13 DEF Replaces, MineIsDisk, Controls, Ordered, Locked
  <2>7. CopyIsDisk'
    BY <1>13 DEF Replaces, CopyIsDisk, Controls, Ordered
  <2>8. SentIsCurrent'
    BY <1>13 DEF Replaces, SentIsCurrent, Controls, Contents, Memories,
       Ordered, Locked
  <2>9. KeptInScripts'
    BY <1>13 DEF Replaces, KeptInScripts, Controls, Ordered, Locked,
       MineIsDisk, CopyIsDisk, SentIsCurrent
  <2>10. StoredEdits'
    BY <1>13 DEF Replaces, StoredEdits, Controls, Memories
  <2>11. KeptInProject'
    BY <1>13 DEF Replaces, KeptInProject, Controls, Ordered
  <2>12. Mirrored'
    BY <1>13 DEF Replaces, Mirrored, Controls, Ordered
  <2>13. Bounded'
    BY <1>13 DEF Replaces, Bounded, Controls, Ordered
  <2>14. RemoteIsCurrent'
    BY <1>13 DEF Replaces, RemoteIsCurrent, Controls, Ordered, Locked
  <2>20. Looks'
    BY <1>13 DEF Replaces, Looks, Controls
  <2> QED BY <2>1, <2>2, <2>3, <2>4, <2>5, <2>6, <2>7, <2>8, <2>9, <2>10,
     <2>11, <2>12, <2>13, <2>14, <2>20
<1>14. ASSUME Crash PROVE IInv'
  <2>1. Controls'
    BY <1>14 DEF Crash, Controls, Steps
  <2>2. Contents'
    BY <1>14 DEF Crash, Contents, Controls
  <2>3. Memories'
    BY <1>14 DEF Crash, Memories, Controls
  <2>4. Ordered'
    BY <1>14 DEF Crash, Ordered, Steps, Controls
  <2>5. Locked' /\ MineIsDisk' /\ CopyIsDisk' /\ SentIsCurrent'
     /\ KeptInScripts' /\ StoredEdits' /\ KeptInProject' /\ Bounded'
    BY <1>14 DEF Crash, Locked, MineIsDisk, CopyIsDisk, SentIsCurrent,
       KeptInScripts, StoredEdits, KeptInProject, Bounded
  <2>6. Mirrored'
    BY <1>14 DEF Crash, Mirrored, Controls
  <2>7. RemoteIsCurrent'
    BY <1>14 DEF Crash, RemoteIsCurrent, Controls
  <2>20. Looks'
    BY <1>14 DEF Crash, Looks, Controls
  <2> QED BY <2>1, <2>2, <2>3, <2>4, <2>5, <2>6, <2>7, <2>20
<1>15. ASSUME UNCHANGED filesVars PROVE IInv'
  <2> USE <1>15 DEF filesVars, local, reconVars
  <2>1. Controls'
    BY DEF Controls
  <2>2. Contents'
    BY DEF Contents
  <2>3. Memories'
    BY DEF Memories
  <2>4. Ordered'
    BY DEF Ordered
  <2>5. Locked'
    BY DEF Locked
  <2>6. MineIsDisk'
    BY DEF MineIsDisk
  <2>7. CopyIsDisk'
    BY DEF CopyIsDisk
  <2>8. SentIsCurrent'
    BY DEF SentIsCurrent
  <2>9. KeptInScripts'
    BY DEF KeptInScripts
  <2>10. StoredEdits'
    BY DEF StoredEdits
  <2>11. KeptInProject'
    BY DEF KeptInProject
  <2>12. Mirrored'
    BY DEF Mirrored
  <2>13. Bounded'
    BY DEF Bounded
  <2>14. RemoteIsCurrent'
    BY DEF RemoteIsCurrent
  <2>20. Looks'
    BY DEF Looks
  <2> QED BY <2>1, <2>2, <2>3, <2>4, <2>5, <2>6, <2>7, <2>8, <2>9, <2>10,
     <2>11, <2>12, <2>13, <2>14, <2>20
<1>16. ASSUME NEW j \in Job, GetProjectPath(j) PROVE IInv'
  <2>1. Controls'
    BY <1>16 DEF GetProjectPath, local, Controls, Steps
  <2>2. Contents'
    BY <1>16 DEF GetProjectPath, local, Contents, Controls
  <2>3. Memories'
    BY <1>16 DEF GetProjectPath, local, Memories, Controls, Contents
  <2>4. Ordered'
    BY <1>16 DEF GetProjectPath, local, Ordered, Steps, Controls
  <2>5. /\ UNCHANGED <<plan, script, sending, disk, cloud, lock, kept, failed, crashes, undone>>
        /\ at[j] \in Quiet /\ at'[j] \in Quiet
        /\ \A k \in Job : k # j => /\ at'[k] = at[k] /\ sent'[k] = sent[k]
                                 /\ mine'[k] = mine[k] /\ copy'[k] = copy[k]
    BY <1>16 DEF GetProjectPath, local, Controls, Memories, Quiet
  <2>6. /\ Locked' /\ MineIsDisk' /\ CopyIsDisk' /\ SentIsCurrent' /\ KeptInScripts'
        /\ StoredEdits' /\ KeptInProject' /\ Mirrored' /\ Bounded' /\ RemoteIsCurrent'
    BY <2>5, QuietStep
  <2>7. Looks'
    BY <1>16 DEF GetProjectPath, local, Looks, Controls, Memories
  <2> QED BY <2>1, <2>2, <2>3, <2>4, <2>6, <2>7
<1>17. ASSUME NEW j \in Job, NEW f \in File, Stat(j, f) PROVE IInv'
  <2>1. Controls'
    BY <1>17 DEF Stat, Controls, Steps
  <2>2. Contents'
    BY <1>17 DEF Stat, Contents, Controls
  <2>3. Memories'
    BY <1>17 DEF Stat, Memories, Controls, Contents
  <2>4. Ordered'
    BY <1>17 DEF Stat, Ordered, Steps, Controls
  <2>5. /\ UNCHANGED <<plan, script, sending, disk, cloud, lock, kept, failed, crashes, undone>>
        /\ at[j] \in Quiet /\ at'[j] \in Quiet
        /\ \A k \in Job : k # j => /\ at'[k] = at[k] /\ sent'[k] = sent[k]
                                 /\ mine'[k] = mine[k] /\ copy'[k] = copy[k]
    BY <1>17 DEF Stat, Controls, Memories, Quiet
  <2>6. /\ Locked' /\ MineIsDisk' /\ CopyIsDisk' /\ SentIsCurrent' /\ KeptInScripts'
        /\ StoredEdits' /\ KeptInProject' /\ Mirrored' /\ Bounded' /\ RemoteIsCurrent'
    BY <2>5, QuietStep
  <2>7. Looks'
    BY <1>17 DEF Stat, Looks, Controls, Memories
  <2> QED BY <2>1, <2>2, <2>3, <2>4, <2>6, <2>7
<1>18. ASSUME NEW j \in Job, Compare(j) PROVE IInv'
  <2>1. Controls'
    BY <1>18 DEF Compare, Controls, Steps
  <2>2. Contents'
    BY <1>18 DEF Compare, Contents, Controls
  <2>3. Memories'
    BY <1>18 DEF Compare, Memories, Controls, Contents
  <2>4. Ordered'
    BY <1>18 DEF Compare, Ordered, Steps, Controls
  <2>5. /\ UNCHANGED <<plan, script, sending, disk, cloud, lock, kept, failed, crashes, undone>>
        /\ at[j] \in Quiet /\ at'[j] \in Quiet
        /\ \A k \in Job : k # j => /\ at'[k] = at[k] /\ sent'[k] = sent[k]
                                 /\ mine'[k] = mine[k] /\ copy'[k] = copy[k]
    BY <1>18 DEF Compare, Controls, Memories, Quiet
  <2>6. /\ Locked' /\ MineIsDisk' /\ CopyIsDisk' /\ SentIsCurrent' /\ KeptInScripts'
        /\ StoredEdits' /\ KeptInProject' /\ Mirrored' /\ Bounded' /\ RemoteIsCurrent'
    BY <2>5, QuietStep
  <2>7. Looks'
    BY <1>18 DEF Compare, Looks, Controls, Memories, RemoteIsCurrent
  <2> QED BY <2>1, <2>2, <2>3, <2>4, <2>6, <2>7
<1>19. ASSUME NEW j \in Job, Download(j) PROVE IInv'
  <2>1. Controls'
    BY <1>19 DEF Download, Controls, Steps
  <2>2. Contents'
    BY <1>19 DEF Download, Contents, Controls
  <2>3. Memories'
    BY <1>19 DEF Download, Memories, Controls, Contents
  <2>4. Ordered'
    BY <1>19 DEF Download, Ordered, Steps, Controls
  <2>5. /\ UNCHANGED <<plan, script, sending, disk, cloud, lock, kept, failed, crashes, undone>>
        /\ at[j] \in Quiet /\ at'[j] \in Quiet
        /\ \A k \in Job : k # j => /\ at'[k] = at[k] /\ sent'[k] = sent[k]
                                 /\ mine'[k] = mine[k] /\ copy'[k] = copy[k]
    BY <1>19 DEF Download, Controls, Memories, Quiet
  <2>6. /\ Locked' /\ MineIsDisk' /\ CopyIsDisk' /\ SentIsCurrent' /\ KeptInScripts'
        /\ StoredEdits' /\ KeptInProject' /\ Mirrored' /\ Bounded' /\ RemoteIsCurrent'
    BY <2>5, QuietStep
  <2>7. Looks'
    BY <1>19 DEF Download, Looks, Controls, Memories
  <2> QED BY <2>1, <2>2, <2>3, <2>4, <2>6, <2>7
<1>20. ASSUME NEW j \in Job, Reconciled(j) PROVE IInv'
  <2>1. Controls'
    BY <1>20, FilesAssumption DEF Reconciled, local, Controls, Steps
  <2>2. Contents'
    BY <1>20 DEF Reconciled, local, Contents, Controls
  <2>3. Memories'
    BY <1>20 DEF Reconciled, local, Memories, Controls, Contents
  <2>4. Ordered'
    BY <1>20 DEF Reconciled, local, Ordered, Steps, Controls
  <2>5. /\ UNCHANGED <<plan, script, sending, disk, cloud, lock, kept, failed, crashes, undone>>
        /\ at[j] \in Quiet /\ at'[j] \in Quiet
        /\ \A k \in Job : k # j => /\ at'[k] = at[k] /\ sent'[k] = sent[k]
                                 /\ mine'[k] = mine[k] /\ copy'[k] = copy[k]
    BY <1>20 DEF Reconciled, local, Controls, Memories, Quiet
  <2>6. /\ Locked' /\ MineIsDisk' /\ CopyIsDisk' /\ SentIsCurrent' /\ KeptInScripts'
        /\ StoredEdits' /\ KeptInProject' /\ Mirrored' /\ Bounded' /\ RemoteIsCurrent'
    BY <2>5, QuietStep
  <2>7. Looks'
    BY <1>20 DEF Reconciled, local, Looks, Controls, Memories
  <2> QED BY <2>1, <2>2, <2>3, <2>4, <2>6, <2>7
<1>21. ASSUME NEW j \in Job, ReconcileFails(j) PROVE IInv'
  <2>1. Controls'
    BY <1>21 DEF ReconcileFails, Controls, Steps
  <2>2. Contents'
    BY <1>21 DEF ReconcileFails, Contents, Controls
  <2>3. Memories'
    BY <1>21 DEF ReconcileFails, Memories, Controls, Contents
  <2>4. Ordered'
    BY <1>21 DEF ReconcileFails, Ordered, Steps, Controls
  <2>5. /\ UNCHANGED <<plan, script, sending, disk, cloud, lock, kept, failed, crashes, undone>>
        /\ at[j] \in Quiet /\ at'[j] \in Quiet
        /\ \A k \in Job : k # j => /\ at'[k] = at[k] /\ sent'[k] = sent[k]
                                 /\ mine'[k] = mine[k] /\ copy'[k] = copy[k]
    BY <1>21 DEF ReconcileFails, Controls, Memories, Quiet
  <2>6. /\ Locked' /\ MineIsDisk' /\ CopyIsDisk' /\ SentIsCurrent' /\ KeptInScripts'
        /\ StoredEdits' /\ KeptInProject' /\ Mirrored' /\ Bounded' /\ RemoteIsCurrent'
    BY <2>5, QuietStep
  <2>7. Looks'
    BY <1>21 DEF ReconcileFails, Looks, Controls, Memories
  <2> QED BY <2>1, <2>2, <2>3, <2>4, <2>6, <2>7
<1>22. ASSUME NEW j \in Job, ReadProject(j) PROVE IInv'
  <2>1. Controls'
    BY <1>22 DEF ReadProject, Controls, Steps
  <2>2. Contents'
    BY <1>22 DEF ReadProject, Contents, Controls
  <2>3. Memories'
    BY <1>22 DEF ReadProject, Memories, Controls, Contents
  <2>4. Ordered'
    BY <1>22 DEF ReadProject, Ordered, Steps, Controls
  <2>5. /\ UNCHANGED <<plan, script, sending, disk, cloud, lock, kept, failed, crashes, undone>>
        /\ at[j] \in Quiet /\ at'[j] \in Quiet
        /\ \A k \in Job : k # j => /\ at'[k] = at[k] /\ sent'[k] = sent[k]
                                 /\ mine'[k] = mine[k] /\ copy'[k] = copy[k]
    <3>1. lock' = lock
      BY <1>22 DEF ReadProject, Controls, Locked, Ordered
    <3> QED BY <1>22, <3>1 DEF ReadProject, Controls, Memories, Quiet
  <2>6. /\ Locked' /\ MineIsDisk' /\ CopyIsDisk' /\ SentIsCurrent' /\ KeptInScripts'
        /\ StoredEdits' /\ KeptInProject' /\ Mirrored' /\ Bounded' /\ RemoteIsCurrent'
    BY <2>5, QuietStep
  <2>7. Looks'
    BY <1>22 DEF ReadProject, Looks, Controls, Memories
  <2> QED BY <2>1, <2>2, <2>3, <2>4, <2>6, <2>7
<1>23. ASSUME NEW j \in Job, Put(j) PROVE IInv'
  <2> DEFINE f == looked[j]
  <2>1. /\ at[j] = "put" /\ at' = [at EXCEPT ![j] = "list"] /\ f \in File
        /\ disk' = [disk EXCEPT ![f] = sent[j]]
        /\ undone' = IF j \in raced /\ disk[f] # sent[j] THEN undone \cup {f} ELSE undone
        /\ sent' = [sent EXCEPT ![j] = Missing]
        /\ UNCHANGED <<plan, script, mine, copy, sending, tries, cloud, lock, kept, failed,
                       crashes, warm, looked, raced>>
    BY <1>23 DEF Put, Controls
  <2>2. \A g \in File : g # f => disk'[g] = disk[g]
    BY <2>1 DEF Contents
  <2>3. disk'[f] = sent[j]
    BY <2>1 DEF Contents
  <2>4. undone \subseteq undone'
    BY <2>1
  <2>5. \/ f \in undone' \/ disk'[f] = disk[f]
        \/ f \in failed /\ disk'[f] = cloud[f] /\ (\A k \in Job : ~Between(k, f))
    BY <2>1, <2>3 DEF Looks, Contents
  <2>6. f \in failed' \cup undone' \/ disk'[f] = disk[f]
    BY <2>1, <2>5
  <2>7. Controls'
    BY <1>23 DEF Put, Controls, Steps
  <2>8. Contents'
    BY <2>1, <2>2, <2>3 DEF Contents, Memories
  <2>9. Memories'
    BY <2>1 DEF Memories, Controls
  <2>10. Ordered'
    BY <2>1 DEF Ordered, Steps, Controls
  <2>11. Locked'
    BY <2>1 DEF Locked, Controls
  <2>12. MineIsDisk'
    <3>1. \A k \in Job : Written(k) /\ script[k] = f /\ f \notin undone
            /\ (\A i \in Job : ~Between(i, f)) => cloud[f] = mine[k]
      BY DEF StoredEdits, Ordered, Controls, Steps
    <3> QED BY <2>1, <2>2, <2>4, <2>5, <3>1 DEF MineIsDisk, Controls
  <2>13. CopyIsDisk' /\ KeptInProject' /\ Bounded'
    BY <2>1, <2>2, <2>4, <2>6 DEF CopyIsDisk, KeptInProject, Bounded
  <2>14. SentIsCurrent'
    BY <2>1, <2>2, <2>4, <2>5 DEF SentIsCurrent, Controls
  <2>15. KeptInScripts'
    BY <2>1, <2>2, <2>4, <2>5 DEF KeptInScripts
  <2>16. StoredEdits'
    BY <2>1, <2>4 DEF StoredEdits
  <2>17. Mirrored'
    BY <2>1, <2>2, <2>4, <2>6 DEF Mirrored
  <2>18. Looks'
    <3>1. \A k \in Job : at'[k] \in {"stat", "fetch", "put"} \cup Uploading
                        => at'[k] = at[k] /\ sent'[k] = sent[k]
      BY <2>1 DEF Controls, Memories
    <3> QED BY <2>1, <2>4, <3>1 DEF Looks, Controls
  <2>19. RemoteIsCurrent'
    BY <2>1, <2>2, <2>4, <2>6 DEF RemoteIsCurrent
  <2> QED BY <2>7, <2>8, <2>9, <2>10, <2>11, <2>12, <2>13, <2>14, <2>15, <2>16,
     <2>17, <2>18, <2>19
<1> QED BY <1>1, <1>2, <1>3, <1>4, <1>5, <1>6, <1>7, <1>8, <1>9, <1>10, <1>11,
   <1>12, <1>13, <1>14, <1>15, <1>16, <1>17, <1>18, <1>19,
   <1>20, <1>21, <1>22, <1>23 DEF FilesNext, JobStep

(***************************************************************************)
(* The theorems                                                            *)
(***************************************************************************)

(* A new project satisfies the invariant. *)
LEMMA InitIInv ==
  ASSUME FilesInit
  PROVE  IInv
<1> USE Constants, FilesAssumption
    DEF FilesInit, Fresh, File, Kind, Inside, InProject, Uploading, Written, Stored,
        Reconciling, Between
<1>1. Controls /\ Ordered /\ Locked
  BY DEF Controls, Steps, Ordered, Locked
<1>2. Contents
  BY DEF Contents, ProjectContent, ScriptContent
<1>3. Memories
  BY DEF Memories
<1>4. MineIsDisk /\ CopyIsDisk /\ SentIsCurrent /\ KeptInScripts /\ StoredEdits
  BY DEF MineIsDisk, CopyIsDisk, SentIsCurrent, KeptInScripts, StoredEdits
<1>5. KeptInProject /\ Mirrored /\ Bounded /\ RemoteIsCurrent /\ Looks
  BY DEF KeptInProject, Mirrored, Bounded, RemoteIsCurrent, Looks
<1> QED BY <1>1, <1>2, <1>3, <1>4, <1>5 DEF IInv

(* The invariant holds throughout: every fact above is true of every state *)
(* the jobs, their uploads and the crashes can reach.                      *)
THEOREM FilesInvariant == FilesSpec => []IInv
<1>1. FilesInit => IInv
  BY InitIInv
<1>2. IInv /\ [FilesNext]_filesVars => IInv'
  BY StepsKeepIInv
<1> QED BY <1>1, <1>2, PTL DEF FilesSpec

(* The variables keep their types: project.json is never lost, and a       *)
(* script that has been written is a set of edits.                         *)
THEOREM FilesTyping == FilesSpec => []FilesTypeOK
<1>1. IInv => FilesTypeOK
  BY Constants DEF IInv, Controls, Contents, Memories, FilesTypeOK, Content, File
<1> QED BY <1>1, FilesInvariant, PTL

(* No acknowledged edit of a script is lost, whatever fails and whenever   *)
(* the server dies; none of project.json until an upload of it fails for   *)
(* good or is cut off: update_project and locked_script do what they       *)
(* promise against each other, against the roll-back of the media storage  *)
(* and against every new manager but one whose comparison of the file      *)
(* overlapped a write of it (undone); that one may lose an edit            *)
(* (NoLostUpdate).                                                         *)
THEOREM NoEditIsLost == FilesSpec => []EditsAreKept
<1>1. IInv => EditsAreKept
  BY DEF IInv, KeptInScripts, KeptInProject, EditsAreKept
<1> QED BY <1>1, FilesInvariant, PTL

(* The remote copy catches up with the file, although uploads of one file  *)
(* overlap and new managers put copies back: the hash check of             *)
(* _upload_file is enough for any number of them.  The exceptions are an   *)
(* upload that failed or was cut off and an overlapped comparison.         *)
THEOREM RemoteCatchesUp == FilesSpec => []RemoteIsCurrent
<1>1. IInv => RemoteIsCurrent
  BY DEF IInv
<1> QED BY <1>1, FilesInvariant, PTL

(* project.json says of the episode what its script says, whenever nobody  *)
(* works on that script: two locks, taken in one order, are enough, as     *)
(* long as the server lives, no upload fails and no comparison that        *)
(* overlapped a write has put one of the two files back.                   *)
THEOREM MirrorIsTrue == FilesSpec => []EpisodeMirrorsScript
<1>1. IInv => EpisodeMirrorsScript
  BY DEF IInv, Mirrored, EpisodeMirrorsScript
<1> QED BY <1>1, FilesInvariant, PTL

(* An edit of the episode's script goes to the script the episode is bound *)
(* to when it is written: the second look of locked_episode_script at the  *)
(* binding, under both locks, is enough.  A manager that puts project.json *)
(* back, under neither lock, can still turn the binding back under it;     *)
(* that, and the failed upload, are the exceptions.                        *)
THEOREM EditsFollowTheBinding == FilesSpec => EpisodeEditsFollowTheBinding
<1>1. ASSUME IInv, NEW j \in Job, Kind(j) = "episode",
             Project \notin failed \cup undone,
             WriteScript(j) \/ WriteProject(j)
      PROVE  disk[Project].bound = script[j] /\ disk'[Project].bound = script[j]
  <2> USE Constants DEF IInv
  <2>1. InProject(j)
    BY <1>1 DEF WriteScript, WriteProject, InProject
  <2>2. disk[Project].bound = script[j]
    BY <1>1, <2>1 DEF Bounded
  <2>3. CASE WriteScript(j)
    <3>1. disk'[Project] = disk[Project]
      BY <1>1, <2>3, ScriptWritten DEF File
    <3> QED BY <2>2, <3>1
  <2>4. CASE WriteProject(j)
    <3>1. disk'[Project] = Edited(j) /\ copy[j] \in ProjectContent
      BY <1>1, <2>1, <2>4 DEF WriteProject, Contents, Memories, File
    <3>2. Edited(j).bound = script[j]
      BY <1>1, <3>1 DEF Edited, ProjectContent
    <3> QED BY <2>2, <3>1, <3>2
  <2> QED BY <1>1, <2>3, <2>4
<1>2. IInv /\ [FilesNext]_filesVars =>
        [\A j \in Job :
           (/\ Kind(j) = "episode" /\ Project \notin failed \cup undone
            /\ WriteScript(j) \/ WriteProject(j))
             => disk[Project].bound = script[j] /\ disk'[Project].bound = script[j]]_filesVars
  BY <1>1
<1> QED BY <1>2, FilesInvariant, PTL DEF FilesSpec, EpisodeEditsFollowTheBinding

(***************************************************************************)
(* The locks                                                               *)
(***************************************************************************)

(* Nobody keeps project.json's lock who is not between its read and its    *)
(* write of project.json, or an episode job on its way to its return.      *)
ProjectHeld == \A j \in Job : lock[Project] = j => InProject(j)

LEMMA ProjectHeldAlways == FilesSpec => []ProjectHeld
<1> USE Constants DEF File, Kind, Leave, Raise, InProject, Uploading
<1>1. FilesInit => ProjectHeld
  BY DEF FilesInit, ProjectHeld
<1>2. ASSUME IInv, ProjectHeld, [FilesNext]_filesVars PROVE ProjectHeld'
  <2> USE <1>2 DEF IInv, ProjectHeld, Controls
  <2>1. ASSUME NEW j \in Job,
               FindScript(j) \/ OpenScript(j) \/ OpenProject(j) \/ Rebound(j) \/ BodyRaises(j)
        PROVE  ProjectHeld'
    BY <2>1 DEF FindScript, OpenScript, OpenProject, Rebound, BodyRaises, Ordered
  <2>2. ASSUME NEW j \in Job, WriteScript(j) \/ WriteProject(j)
        PROVE  ProjectHeld'
    BY <2>2 DEF WriteScript, WriteProject
  <2>3. ASSUME NEW j \in Job,
               Send(j) \/ Landed(j) \/ AttemptFails(j) \/ KeepsLocal(j) \/ Fetches(j) \/ Replaces(j)
        PROVE  ProjectHeld'
    BY <2>3 DEF Send, Landed, AttemptFails, KeepsLocal, Fetches, Replaces
  <2>4. CASE Crash
    BY <2>4 DEF Crash
  <2>5. ASSUME NEW j \in Job,
               \/ GetProjectPath(j) \/ (\E f \in File : Stat(j, f)) \/ Compare(j) \/ Download(j)
               \/ Put(j) \/ Reconciled(j) \/ ReconcileFails(j) \/ ReadProject(j)
        PROVE  ProjectHeld'
    BY <2>5 DEF GetProjectPath, Stat, Compare, Download, Put, Reconciled, ReconcileFails,
       ReadProject, Reconciling, Ordered
  <2>6. CASE UNCHANGED filesVars
    BY <2>6 DEF filesVars
  <2> QED BY <2>1, <2>2, <2>3, <2>4, <2>5, <2>6 DEF FilesNext, JobStep
<1> QED BY <1>1, <1>2, FilesInvariant, PTL DEF FilesSpec

(* The two locks never deadlock, however many jobs contend for them: from  *)
(* a job that waits it is at most two steps to one that works.             *)
THEOREM NoDeadlock == FilesSpec => []WaitingEndsAtAWorker
<1>1. ASSUME IInv, ProjectHeld PROVE WaitingEndsAtAWorker
  <2> USE Constants DEF IInv, Controls, File
  <2>1. \A j \in Job : lock[Project] = j => Asks(j) = {}
    BY <1>1 DEF ProjectHeld, InProject, Uploading, Asks
  <2>2. \A s \in Script, j \in Job : lock[s] = j => Asks(j) \subseteq {Project}
    BY <1>1 DEF Locked, Inside, Asks
  <2>3. \A j \in Job : Asks(j) \subseteq File
    BY <1>1 DEF Asks
  <2>4. \A f \in File : lock[f] # Nobody => lock[f] \in Job
    BY <1>1
  <2> QED BY <2>1, <2>2, <2>3, <2>4 DEF WaitingEndsAtAWorker
<1> QED BY <1>1, FilesInvariant, ProjectHeldAlways, PTL
=============================================================================
